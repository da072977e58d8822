------------------------- MODULE AssuranceLifecycle -------------------------
(***************************************************************************)
(* What an engagement promises its readers, whatever requests run and      *)
(* however they overlap.  The engagement moves along the truth table       *)
(* (docs/TRUTH-TABLES.md, enforced by enforce_engagement_transition), it   *)
(* reaches CLOSED from REVIEW only once an independently reviewed          *)
(* workpaper, a sign-off and an approved report exist, and the freeze is   *)
(* one way and happens at most once, to a CLOSED engagement.               *)
(*                                                                         *)
(* `evidence' is the set of kinds of assurance evidence on file.  It only  *)
(* grows: no operation withdraws a review, a sign-off or an approval.      *)
(***************************************************************************)

CONSTANT Start          \* the status the observation starts from

VARIABLES
  status,               \* engagements.status
  frozen,               \* engagements.frozen_at IS NOT NULL
  evidence              \* the kinds of assurance evidence on file

Statuses == {"PLANNING", "TESTING", "REVIEW", "CLOSED"}

Evidence == {"review", "signoff", "report"}

\* docs/TRUTH-TABLES.md, as enforce_engagement_transition accepts it.
Allowed ==
  {<<"PLANNING", "TESTING">>, <<"PLANNING", "CLOSED">>,
   <<"TESTING", "REVIEW">>, <<"TESTING", "CLOSED">>, <<"REVIEW", "CLOSED">>}

vars == <<status, frozen, evidence>>

Init ==
  /\ status = Start
  /\ frozen = FALSE
  /\ evidence = {}

Gather ==
  /\ \E more \in SUBSET Evidence: evidence' = evidence \cup more
  /\ UNCHANGED <<status, frozen>>

Advance ==
  /\ ~frozen
  /\ <<status, status'>> \in Allowed
  /\ (status = "REVIEW") => (evidence = Evidence)
  /\ UNCHANGED <<frozen, evidence>>

Freeze ==
  /\ status = "CLOSED"
  /\ ~frozen
  /\ evidence = Evidence
  /\ frozen' = TRUE
  /\ UNCHANGED <<status, evidence>>

Next == Gather \/ Advance \/ Freeze

Spec == Init /\ [][Next]_vars

=============================================================================
