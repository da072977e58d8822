------------------------------ MODULE FourEyes ------------------------------
(***************************************************************************)
(* Segregation of duties, the promise that several parts of the program    *)
(* share: a report version and its approval, an audit plan and its         *)
(* approval, a risk acceptance and its approval, a register row and its    *)
(* review.  Whoever makes an item stays on record as its author, only      *)
(* somebody else approves it, nothing is approved that nobody made, and    *)
(* an approval is never withdrawn.  A later approval may replace an        *)
(* earlier one: the columns hold the last.                                 *)
(***************************************************************************)

CONSTANTS
  People,
  Items,
  None         \* nobody yet

VARIABLES
  author,      \* who made each item
  approver     \* who approved it last

vars == <<author, approver>>

Init ==
  /\ author = [i \in Items |-> None]
  /\ approver = [i \in Items |-> None]

Make(i, u) ==
  /\ author[i] = None
  /\ author' = [author EXCEPT ![i] = u]
  /\ UNCHANGED approver

Approve(i, u) ==
  /\ author[i] \notin {None, u}
  /\ approver' = [approver EXCEPT ![i] = u]
  /\ UNCHANGED author

Next == \E i \in Items, u \in People: Make(i, u) \/ Approve(i, u)

Spec == Init /\ [][Next]_vars

=============================================================================
