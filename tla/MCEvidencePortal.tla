-------------------------- MODULE MCEvidencePortal --------------------------
(***************************************************************************)
(* An administrator, a reviewer and a client of one organization; one PBC  *)
(* request and one storage key.                                            *)
(***************************************************************************)
EXTENDS EvidencePortal, TLC

CONSTANTS ada, rita, cleo, s1, s2, fine, mistyped, missized

MCUsers == {ada, rita, cleo}

MCRoleOf == [u \in MCUsers |-> CASE u = ada -> "ORG_ADMIN"
                                 [] u = rita -> "REVIEWER"
                                 [] OTHER -> "CLIENT"]

SessionSymmetry == Permutations(Sessions)

=============================================================================
