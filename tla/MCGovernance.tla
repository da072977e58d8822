---------------------------- MODULE MCGovernance ----------------------------
(***************************************************************************)
(* Small instances of Governance: an audit manager m, who may plan and     *)
(* start, and a reviewer n, who may approve the plan.                      *)
(***************************************************************************)
EXTENDS Governance, TLC

CONSTANTS m, n

MCRoleOf == (m :> "AUDIT_MANAGER") @@ (n :> "REVIEWER")

MCFrameworkOf == [q \in Requirements |-> CHOOSE f \in Frameworks: TRUE]

SessionSymmetry == Permutations(Sessions)

=============================================================================
