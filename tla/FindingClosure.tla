--------------------------- MODULE FindingClosure ---------------------------
(***************************************************************************)
(* How the findings of one engagement may close                            *)
(* (src/src/domain/engagement/outcome-service.ts over db/migrations/0010   *)
(* and 0025): a remediation is completed and passes an independent retest, *)
(* or the risk is accepted by one user, approved by another, and has not   *)
(* run out.                                                                *)
(*                                                                         *)
(* Requests are READ COMMITTED transactions as in Finalization:            *)
(*   idle -> checked      the service's unlocked reads and checks          *)
(*   checked -> written   the locked read, if any, the statement and its   *)
(*                        triggers                                         *)
(*   written -> idle      COMMIT, and from every stage to idle by ROLLBACK *)
(* now() is the time a transaction began, in SQL functions as well.        *)
(***************************************************************************)
EXTENDS Integers, FiniteSets, Rbac

CONSTANTS
  Users,          \* members of the engagement's organization
  RoleOf,         \* their membership roles
  Sessions,       \* pooled database connections, one transaction at a time
  Findings,       \* the findings on record, all open at first
  Remediations,   \* ids of remediations that may be created
  Acceptances,    \* ids of risk acceptances that may be proposed
  FindingOf,      \* the finding each of both is for
  MaxTime,        \* bound on the clock
  None            \* no user, no target

ASSUME RoleAssumption == RoleOf \in [Users -> Roles]
ASSUME FindingAssumption ==
  FindingOf \in [Remediations \cup Acceptances -> Findings]
ASSUME BoundAssumption == MaxTime \in Nat
ASSUME NoneAssumption ==
  None \notin Users \cup Findings \cup Remediations \cup Acceptances

VARIABLES
  executing,      \* engagements.status is TESTING or REVIEW
  closed,         \* the findings whose status is CLOSED
  remediation,    \* remediations.status: none, OPEN or COMPLETED
  completedBy,    \* remediations.completed_by, None before
  retests,        \* (tested_by, result) of the retests of each remediation
  approval,       \* risk_acceptances.approval_status, none before the insert
  acceptedBy,     \* risk_acceptances.accepted_by, the user who proposed it
  approvedBy,     \* risk_acceptances.approved_by, None before
  until,          \* the last time at which it is current
  now,            \* the clock
  tx              \* the transaction of each session

remedies == <<remediation, completedBy, retests>>
risks    == <<approval, acceptedBy, approvedBy, until>>
vars     == <<executing, closed, remedies, risks, now, tx>>

-----------------------------------------------------------------------------
Times == 0..MaxTime

\* Inconclusive: INSUFFICIENT_EVIDENCE or NOT_APPLICABLE.
Results == {"PASS", "FAIL", "INCONCLUSIVE"}

\* The permission each service function requires.
PermissionFor ==
  [createRemediation     |-> "finding.update",
   completeRemediation   |-> "finding.update",
   recordRetest          |-> "finding.update",
   createRiskAcceptance  |-> "finding.update",
   approveRiskAcceptance |-> "finding.close",
   closeFinding          |-> "finding.close"]

Operations == DOMAIN PermissionFor

Targets == Remediations \cup Acceptances \cup Findings \cup {None}

\* at: when the transaction began.  until, result: what the request carries.
Transaction ==
  [stage: {"idle", "checked", "written"}, op: Operations,
   by: Users \cup {None}, on: Targets, at: Times, until: Times,
   result: Results]

Idle == [stage |-> "idle", op |-> "closeFinding", by |-> None, on |-> None,
         at |-> 0, until |-> 0, result |-> "PASS"]

TypeOK ==
  /\ executing \in BOOLEAN
  /\ closed \subseteq Findings
  /\ remediation \in [Remediations -> {"none", "OPEN", "COMPLETED"}]
  /\ completedBy \in [Remediations -> Users \cup {None}]
  /\ retests \in [Remediations -> SUBSET (Users \X Results)]
  /\ approval \in [Acceptances -> {"none", "PENDING", "APPROVED"}]
  /\ acceptedBy \in [Acceptances -> Users \cup {None}]
  /\ approvedBy \in [Acceptances -> Users \cup {None}]
  /\ until \in [Acceptances -> Times]
  /\ now \in Times
  /\ tx \in [Sessions -> Transaction]

-----------------------------------------------------------------------------
(* The closure conditions of 0010 and 0025.                                *)

\* remediation_is_verified: one PASS retest is enough, whatever came later.
Verified(f) ==
  \E r \in Remediations, u \in Users:
    /\ FindingOf[r] = f /\ remediation[r] = "COMPLETED"
    /\ <<u, "PASS">> \in retests[r] /\ u # completedBy[r]

\* risk_acceptance_is_current at time t.
Accepted(f, t) ==
  \E k \in Acceptances:
    FindingOf[k] = f /\ approval[k] = "APPROVED" /\ t <= until[k]

\* Mutant: an acceptance counts from its proposal on.
ClosureReadyProposed(f, t) ==
  \/ Verified(f)
  \/ \E k \in Acceptances:
       FindingOf[k] = f /\ approval[k] # "none" /\ t <= until[k]

\* finding_closure_ready.
ClosureReady(f, t) == Verified(f) \/ Accepted(f, t)

\* What the service and enforce_retest_evidence_gate ask of a retest.
MayRetest(u, r) == remediation[r] = "COMPLETED" /\ completedBy[r] # u

-----------------------------------------------------------------------------
Init ==
  /\ executing = TRUE
  /\ closed = {}
  /\ remediation = [r \in Remediations |-> "none"]
  /\ completedBy = [r \in Remediations |-> None]
  /\ retests = [r \in Remediations |-> {}]
  /\ approval = [k \in Acceptances |-> "none"]
  /\ acceptedBy = [k \in Acceptances |-> None]
  /\ approvedBy = [k \in Acceptances |-> None]
  /\ until = [k \in Acceptances |-> 0]
  /\ now = 0
  /\ tx = [s \in Sessions |-> Idle]

Begin(s, op, u, on, t, result) ==
  /\ tx[s].stage = "idle"
  /\ HasPermission(RoleOf[u], PermissionFor[op])
  /\ tx' = [tx EXCEPT ![s] = [stage |-> "checked", op |-> op, by |-> u,
                              on |-> on, at |-> now, until |-> t,
                              result |-> result]]
  /\ UNCHANGED <<executing, closed, remedies, risks, now>>

Fresh(x) == \A s \in Sessions: tx[s].on # x

CreateRemediation(s, u, r) ==
  /\ executing
  /\ remediation[r] = "none" /\ Fresh(r)
  /\ Begin(s, "createRemediation", u, r, 0, "PASS")

\* completeRemediation reads the row FOR UPDATE: its checks are Passes'.
CompleteRemediation(s, u, r) ==
  /\ remediation[r] # "none"
  /\ Begin(s, "completeRemediation", u, r, 0, "PASS")

\* A retest of a remediation; one without is read by no gate.
RecordRetest(s, u, r, result) ==
  /\ executing
  /\ MayRetest(u, r)
  /\ Begin(s, "recordRetest", u, r, 0, result)

\* Nothing asks for a term that lies ahead.
CreateRiskAcceptance(s, u, k, t) ==
  /\ executing
  /\ approval[k] = "none" /\ Fresh(k)
  /\ Begin(s, "createRiskAcceptance", u, k, t, "PASS")

\* approveRiskAcceptance reads the row FOR UPDATE, like a completion.
ApproveRiskAcceptance(s, u, k) ==
  /\ approval[k] # "none"
  /\ Begin(s, "approveRiskAcceptance", u, k, 0, "PASS")

CloseFinding(s, u, f) == Begin(s, "closeFinding", u, f, 0, "PASS")

-----------------------------------------------------------------------------
(* Locked reads, statements and triggers.                                  *)

\* Mutant: completions and approvals lock nothing and overwrite.
OnlyFindingsLocked == {"closeFinding"}

\* Operations that lock an existing row, its UPDATE or FOR UPDATE.
UpdatesRow == {"completeRemediation", "approveRiskAcceptance", "closeFinding"}

Blocked(s) ==
  \E t \in Sessions \ {s}:
    /\ tx[t].stage = "written"
    /\ tx[t].op = tx[s].op /\ tx[t].on = tx[s].on
    /\ tx[s].op \in UpdatesRow

\* Mutant: a remediation may be completed again, by somebody else.
PassesCompleted(r) ==
  /\ r.op = "completeRemediation" => executing
  /\ r.op = "recordRetest" => MayRetest(r.by, r.on)
  /\ r.op = "approveRiskAcceptance" =>
       approval[r.on] = "PENDING" /\ acceptedBy[r.on] # r.by /\ executing
  /\ r.op = "closeFinding" => r.on \in closed \/ ClosureReady(r.on, r.at)

\* Mutant: an acceptance counts whenever it runs out.
PassesExpired(r) ==
  /\ r.op = "completeRemediation" => remediation[r.on] = "OPEN" /\ executing
  /\ r.op = "recordRetest" => MayRetest(r.by, r.on)
  /\ r.op = "approveRiskAcceptance" =>
       approval[r.on] = "PENDING" /\ acceptedBy[r.on] # r.by /\ executing
  /\ r.op = "closeFinding" => r.on \in closed \/ ClosureReady(r.on, 0)

\* Nothing is thrown or raised from the locked read to the last trigger.
Passes(r) ==
  /\ r.op = "completeRemediation" => remediation[r.on] = "OPEN" /\ executing
  /\ r.op = "recordRetest" => MayRetest(r.by, r.on)
  /\ r.op = "approveRiskAcceptance" =>
       /\ approval[r.on] = "PENDING"
       /\ acceptedBy[r.on] # r.by
       /\ executing
  /\ r.op = "closeFinding" => r.on \in closed \/ ClosureReady(r.on, r.at)

Execute(s) ==
  /\ tx[s].stage = "checked"
  /\ ~Blocked(s)
  /\ Passes(tx[s])
  /\ tx' = [tx EXCEPT ![s].stage = "written"]
  /\ UNCHANGED <<executing, closed, remedies, risks, now>>

\* Passes is false, the retest's evidence is missing or did not pass its
\* gate, or the connection is lost.
Fail(s) ==
  /\ tx[s].stage # "idle"
  /\ tx' = [tx EXCEPT ![s] = Idle]
  /\ UNCHANGED <<executing, closed, remedies, risks, now>>

Commit(s, op) ==
  /\ tx[s].stage = "written" /\ tx[s].op = op
  /\ tx' = [tx EXCEPT ![s] = Idle]
  /\ UNCHANGED <<executing, now>>

InsertRemediation(s) ==
  /\ Commit(s, "createRemediation")
  /\ remediation' = [remediation EXCEPT ![tx[s].on] = "OPEN"]
  /\ UNCHANGED <<closed, completedBy, retests, risks>>

UpdateRemediation(s) ==
  /\ Commit(s, "completeRemediation")
  /\ remediation' = [remediation EXCEPT ![tx[s].on] = "COMPLETED"]
  /\ completedBy' = [completedBy EXCEPT ![tx[s].on] = tx[s].by]
  /\ UNCHANGED <<closed, retests, risks>>

InsertRetest(s) ==
  /\ Commit(s, "recordRetest")
  /\ retests' = [retests EXCEPT ![tx[s].on] =
                   @ \cup {<<tx[s].by, tx[s].result>>}]
  /\ UNCHANGED <<closed, remediation, completedBy, risks>>

\* Mutant: the term is stored as one day longer than the request says.
InsertAcceptanceLonger(s) ==
  /\ Commit(s, "createRiskAcceptance")
  /\ approval' = [approval EXCEPT ![tx[s].on] = "PENDING"]
  /\ acceptedBy' = [acceptedBy EXCEPT ![tx[s].on] = tx[s].by]
  /\ until' = [until EXCEPT ![tx[s].on] = tx[s].until + 1]
  /\ UNCHANGED <<closed, remedies, approvedBy>>

InsertAcceptance(s) ==
  /\ Commit(s, "createRiskAcceptance")
  /\ approval' = [approval EXCEPT ![tx[s].on] = "PENDING"]
  /\ acceptedBy' = [acceptedBy EXCEPT ![tx[s].on] = tx[s].by]
  /\ until' = [until EXCEPT ![tx[s].on] = tx[s].until]
  /\ UNCHANGED <<closed, remedies, approvedBy>>

UpdateAcceptance(s) ==
  /\ Commit(s, "approveRiskAcceptance")
  /\ approval' = [approval EXCEPT ![tx[s].on] = "APPROVED"]
  /\ approvedBy' = [approvedBy EXCEPT ![tx[s].on] = tx[s].by]
  /\ UNCHANGED <<closed, remedies, acceptedBy, until>>

UpdateFinding(s) ==
  /\ Commit(s, "closeFinding")
  /\ closed' = closed \cup {tx[s].on}
  /\ UNCHANGED <<remedies, risks>>

-----------------------------------------------------------------------------
\* The engagement leaves REVIEW, which its closure gate allows only when no
\* finding is open (Finalization).
EndReview ==
  /\ executing /\ closed = Findings
  /\ executing' = FALSE
  /\ UNCHANGED <<closed, remedies, risks, now, tx>>

Tick ==
  /\ now < MaxTime
  /\ now' = now + 1
  /\ UNCHANGED <<executing, closed, remedies, risks, tx>>

Request(s) ==
  \E u \in Users:
    \/ \E r \in Remediations:
         \/ CreateRemediation(s, u, r) \/ CompleteRemediation(s, u, r)
         \/ \E result \in Results: RecordRetest(s, u, r, result)
    \/ \E k \in Acceptances:
         \/ \E t \in Times: CreateRiskAcceptance(s, u, k, t)
         \/ ApproveRiskAcceptance(s, u, k)
    \/ \E f \in Findings: CloseFinding(s, u, f)

CommitAny(s) ==
  \/ InsertRemediation(s) \/ UpdateRemediation(s) \/ InsertRetest(s)
  \/ InsertAcceptance(s) \/ UpdateAcceptance(s) \/ UpdateFinding(s)

Next ==
  \/ \E s \in Sessions: Request(s) \/ Execute(s) \/ CommitAny(s) \/ Fail(s)
  \/ EndReview \/ Tick

Spec == Init /\ [][Next]_vars

-----------------------------------------------------------------------------
(***************************************************************************)
(* Properties.                                                             *)
(***************************************************************************)

\* An acceptance that one user proposed and another approved, run out or not.
Controlled(f) ==
  \E k \in Acceptances:
    /\ FindingOf[k] = f /\ approval[k] = "APPROVED"
    /\ approvedBy[k] # None /\ approvedBy[k] # acceptedBy[k]

\* Closure requires evidence of remediation or a controlled risk-acceptance
\* decision (docs/AUDIT-METHODOLOGY.md), and keeps it: a CLOSED finding has a
\* completed remediation that a user other than its completer of record
\* passed, or an acceptance approved by a user other than the one of record
\* who proposed it.
ClosedOnRemedy == \A f \in closed: Verified(f) \/ Controlled(f)

\* "Remediation completer cannot independently retest the same remediation":
\* a retest on record, whatever its result, is of a completed remediation and
\* by somebody other than its completer of record, whichever came first.
RetestsIndependent ==
  \A r \in Remediations, u \in Users, result \in Results:
    <<u, result>> \in retests[r] => completedBy[r] \notin {u, None}

\* A completion and an approval are decided once, however many requests for
\* them overlap: the user of record stays.
DecidedOnce ==
  [][/\ \A r \in Remediations:
          completedBy[r] # None => completedBy'[r] = completedBy[r]
     /\ \A k \in Acceptances:
          approvedBy[k] # None => approvedBy'[k] = approvedBy[k]]_vars

\* Risk acceptances are approved by four eyes (FourEyes).
Decisions ==
  INSTANCE FourEyes WITH People <- Users, Items <- Acceptances,
                         author <- acceptedBy, approver <- approvedBy

AcceptancesByFourEyes == Decisions!Spec

\* No finding closes on an acceptance that had run out when the request to
\* close it began, although the acceptance may run out before the commit.
ClosedInTerm ==
  [][\A s \in Sessions, f \in Findings:
       f \notin closed /\ f \in closed' /\ tx'[s] # tx[s] =>
         \/ Verified(f)
         \/ \E k \in Acceptances:
              /\ FindingOf[k] = f /\ approval[k] = "APPROVED"
              /\ tx[s].at <= until[k]]_vars

=============================================================================
