---------------------------- MODULE OneTimeGrant ----------------------------
(***************************************************************************)
(* What an invitation, a login token and an authorization to upload        *)
(* promise: a grant is offered, and then taken, which gives one thing, or  *)
(* withdrawn, which gives nothing; never both, never twice, never back.    *)
(***************************************************************************)

CONSTANTS
  Items,
  Gifts        \* what a grant may give: a membership, a session, a row

VARIABLES
  state,       \* of each grant
  given        \* what it has given

vars == <<state, given>>

Init ==
  /\ state = [g \in Items |-> "none"]
  /\ given = [g \in Items |-> {}]

Moves(g, from, to) ==
  state[g] = from /\ state' = [state EXCEPT ![g] = to]

Offer(g) == Moves(g, "none", "offered") /\ UNCHANGED given

Withdraw(g) == Moves(g, "offered", "withdrawn") /\ UNCHANGED given

Take(g, gift) ==
  /\ Moves(g, "offered", "taken")
  /\ given' = [given EXCEPT ![g] = {gift}]

Next ==
  \E g \in Items:
    Offer(g) \/ Withdraw(g) \/ \E gift \in Gifts: Take(g, gift)

Spec == Init /\ [][Next]_vars

=============================================================================
