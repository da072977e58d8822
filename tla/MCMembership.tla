---------------------------- MODULE MCMembership ----------------------------
(***************************************************************************)
(* Small instances of Membership: two administrators a and b, and c, who   *)
(* is not a member and is invited.                                         *)
(***************************************************************************)
EXTENDS Membership, TLC

CONSTANTS a, b, c

MCInitRole == (a :> "ORG_ADMIN") @@ (b :> "ORG_ADMIN") @@ (c :> None)

MCInvitee == [i \in Invitations |-> c]

SessionSymmetry == Permutations(Sessions)

AdminSymmetry == SessionSymmetry \cup Permutations({a, b})

=============================================================================
