----------------------------- MODULE MCRegisters -----------------------------
(***************************************************************************)
(* Small instances of Registers: two administrators and one record, of any *)
(* register, or a notice and a consent that names it, or a compliance      *)
(* profile with its determination and an obligation.                       *)
(***************************************************************************)
EXTENDS Registers, TLC

CONSTANTS a, b, first, second, third

MCRoleOf == (a :> "ORG_ADMIN") @@ (b :> "SUPER_ADMIN")

\* The others are of use only where the first is a notice or a profile.
MCLayouts ==
  {(first :> k) @@ (second :> "CONSENT") @@ (third :> "OBLIGATION") :
     k \in Kinds \ {"CONSENT", "OBLIGATION", "DETERMINATION"}}
  \cup {(first :> "PROFILE") @@ (second :> "DETERMINATION")
           @@ (third :> "OBLIGATION")}

SessionSymmetry == Permutations(Sessions)

=============================================================================
