------------------------------ MODULE MCSignIn ------------------------------
(***************************************************************************)
(* One address and one network, or none; windows of two time units, and    *)
(* a clock that passes from the first window into the second.              *)
(***************************************************************************)
EXTENDS SignIn, TLC

\* Symmetry: none is told apart by Init or by a property.
IdSymmetry ==
  Permutations(Handlers) \cup Permutations(Tokens) \cup Permutations(Logins)

=============================================================================
