-------------------------- MODULE MCFindingClosure --------------------------
(***************************************************************************)
(* Small instances of FindingClosure: an audit manager m, who may do       *)
(* everything, and an auditor a, who remediates, retests and proposes.     *)
(***************************************************************************)
EXTENDS FindingClosure, TLC

CONSTANTS m, a

MCRoleOf == (m :> "AUDIT_MANAGER") @@ (a :> "AUDITOR")

MCFindingOf ==
  [x \in Remediations \cup Acceptances |-> CHOOSE f \in Findings: TRUE]

SessionSymmetry == Permutations(Sessions)

=============================================================================
