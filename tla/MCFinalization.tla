--------------------------- MODULE MCFinalization ---------------------------
(***************************************************************************)
(* Small instances of Finalization: an audit manager m, who may do         *)
(* everything in this stage, and a reviewer r, the only other user whose   *)
(* reviews, sign-offs and approvals the database accepts.                  *)
(***************************************************************************)
EXTENDS Finalization, TLC

CONSTANTS m, r

MCRoleOf == (m :> "AUDIT_MANAGER") @@ (r :> "REVIEWER")

MCSourceOf == [f \in Findings |-> CHOOSE i \in Issues: TRUE]

SessionSymmetry == Permutations(Sessions)

=============================================================================
