---------------------------- MODULE Finalization ----------------------------
(***************************************************************************)
(* The final-assurance stage of one engagement: the requests that create   *)
(* workpapers, issues and PBC requests, that review, sign off, report,     *)
(* close and freeze, as overlapping PostgreSQL transactions.               *)
(*                                                                         *)
(* Every request runs in one READ COMMITTED transaction                    *)
(* (src/src/db/tenant-transaction.ts).  The service first reads what it    *)
(* checks, without locking it; it then runs its statement, whose triggers  *)
(* (db/migrations/0011 and 0026) read the state committed by then; then it *)
(* commits.  Any number of other requests may commit in between.  A        *)
(* transaction is a record of tx:                                          *)
(*   idle -> checked            the service's reads and checks (Begin)     *)
(*   checked -> written         the statement and its triggers (Execute)   *)
(*   checked -> gated -> written  the two parts of the freeze insert       *)
(*   written -> idle            COMMIT, the rows become visible            *)
(* and from every stage back to idle by ROLLBACK.                          *)
(***************************************************************************)
EXTENDS Integers, FiniteSets, Rbac

CONSTANTS
  Users,          \* members of the engagement's organization
  RoleOf,         \* their membership roles
  Sessions,       \* pooled database connections, one transaction at a time
  Workpapers,     \* ids of workpapers that may be created
  Issues,         \* exceptions or observations that may be raised
  Findings,       \* findings that may be created
  SourceOf,       \* the issue each of them would formalize
  Pbcs,           \* PBC requests that may be created
  MaxReports,     \* bound on the report versions generated
  None            \* no user, no target

ASSUME RoleAssumption == RoleOf \in [Users -> Roles]
ASSUME SourceAssumption == SourceOf \in [Findings -> Issues]
ASSUME BoundAssumption == MaxReports \in Nat
ASSUME NoneAssumption ==
  None \notin Users \cup Workpapers \cup Issues \cup Findings \cup Pbcs
                \cup Nat

VARIABLES
  status,         \* engagements.status
  frozen,         \* engagements.frozen_at IS NOT NULL
  preparedBy,     \* workpapers.prepared_by, None while there is no such row
  reviews,        \* rows of reviews, per workpaper
  raised,         \* the issues on record; no operation ends their OPEN status
  finding,        \* findings.status: none, open or closed
  pbc,            \* pbc_requests.status: none, open or settled
  reports,        \* how many report versions there are, numbered from 1
  generatedBy,    \* reports.generated_by, per version
  approvedBy,     \* reports.approved_by, per version, None while PENDING
  signoffs,       \* signoffs.reviewed_by of the APPROVED sign-offs
  freezes,        \* how many rows audit_freezes has
  tx,             \* the transaction of each session
  late            \* history: see Late below

rows == <<preparedBy, reviews, raised, finding, pbc, reports, generatedBy,
          approvedBy, signoffs>>
vars == <<status, frozen, rows, freezes, tx, late>>

-----------------------------------------------------------------------------
Versions == 1..MaxReports

Verdicts == {"APPROVED", "REJECTED"}

\* The permission each service function requires.
PermissionFor ==
  [createWorkpaper   |-> "workpaper.create",
   approveWorkpaper  |-> "workpaper.review",
   rejectWorkpaper   |-> "workpaper.review",
   raiseIssue        |-> "finding.create",
   createFinding     |-> "finding.create",
   closeFinding      |-> "finding.close",
   createPbcRequest  |-> "evidence.upload",
   settlePbcRequest  |-> "evidence.upload",
   acceptPrivacyAssuranceCandidate |-> "privacy.assurance.decide",
   enterReview       |-> "engagement.update",
   signoffEngagement |-> "engagement.signoff",
   generateReport    |-> "report.generate",
   approveReport     |-> "report.approve",
   closeEngagement   |-> "engagement.close",
   freezeEngagement  |-> "engagement.freeze"]

Operations == DOMAIN PermissionFor

Targets == Workpapers \cup Issues \cup Findings \cup Pbcs \cup Nat \cup {None}

Stages == {"idle", "checked", "gated", "written"}

\* blind: the transaction last looked at the freeze before it was visible.
Idle == [stage |-> "idle", op |-> "enterReview", by |-> None, on |-> None,
         blind |-> TRUE]

Transaction == [stage: Stages, op: Operations, by: Users \cup {None},
                on: Targets, blind: BOOLEAN]

TypeOK ==
  /\ status \in {"TESTING", "REVIEW", "CLOSED"}
  /\ frozen \in BOOLEAN
  /\ preparedBy \in [Workpapers -> Users \cup {None}]
  /\ reviews \in [Workpapers -> SUBSET (Users \X Verdicts)]
  /\ raised \in SUBSET Issues
  /\ finding \in [Findings -> {"none", "open", "closed"}]
  /\ pbc \in [Pbcs -> {"none", "open", "settled"}]
  /\ reports \in 0..MaxReports
  /\ generatedBy \in [Versions -> Users \cup {None}]
  /\ approvedBy \in [Versions -> Users \cup {None}]
  /\ signoffs \in SUBSET Users
  /\ freezes \in Nat
  /\ tx \in [Sessions -> Transaction]
  /\ late \in SUBSET Targets

-----------------------------------------------------------------------------
(* The gates of 0011, over the committed rows.                             *)

Prepared == {w \in Workpapers: preparedBy[w] # None}

ReviewApproved(w) == \E u \in Users: <<u, "APPROVED">> \in reviews[w]

\* The rows that keep engagement_review_ready or engagement_report_ready
\* false.  An issue counts until a finding formalizes it (0026).
Unreviewed    == {w \in Prepared: ~ReviewApproved(w)}
Formalized(i) == \E f \in Findings: SourceOf[f] = i /\ finding[f] # "none"
OpenIssues    == {i \in raised: ~Formalized(i)}
OpenFindings  == {f \in Findings: finding[f] = "open"}
OpenPbcs      == {p \in Pbcs: pbc[p] = "open"}
PendingReport == {v \in Versions: v = reports /\ approvedBy[v] = None}

Unresolved ==
  Unreviewed \cup OpenIssues \cup OpenFindings \cup OpenPbcs \cup PendingReport

\* engagement_review_ready (0026).
ReviewReady ==
  /\ Prepared # {}
  /\ Unreviewed = {}
  /\ OpenIssues = {}
  /\ OpenFindings = {}
  /\ OpenPbcs = {}

\* engagement_report_ready: the latest version is approved, not by the user
\* who generated it.
ReportReady ==
  \E v \in Versions:
    v = reports /\ approvedBy[v] # None /\ approvedBy[v] # generatedBy[v]

\* Mutant: closure does not ask for a sign-off.
ClosureReadyUnsigned == ReviewReady /\ ReportReady

\* engagement_closure_ready.
ClosureReady == ReviewReady /\ signoffs # {} /\ ReportReady

\* Mutant: what the closure found is not looked at again.
FreezeReadyOnStatus == status = "CLOSED" /\ ~frozen

\* engagement_freeze_ready.
FreezeReady == status = "CLOSED" /\ ~frozen /\ ClosureReady

\* The role test of the review, sign-off and report-approval triggers.
Assurer(u) == RoleOf[u] \in AssuranceRoles

\* Mutant: only the closure gate is enforced, not the order of the statuses.
TransitionUnordered(to) ==
  status = "REVIEW" /\ to = "CLOSED" => ClosureReady

\* enforce_engagement_transition, for the statuses this stage starts from;
\* rewriting the status it already has is accepted.
TransitionAccepted(to) ==
  \/ status = to
  \/ status = "TESTING" /\ to \in {"REVIEW", "CLOSED"}
  \/ status = "REVIEW" /\ to = "CLOSED" /\ ClosureReady

-----------------------------------------------------------------------------
Init ==
  /\ status = "TESTING"
  /\ frozen = FALSE
  /\ preparedBy = [w \in Workpapers |-> None]
  /\ reviews = [w \in Workpapers |-> {}]
  /\ raised = {}
  /\ finding = [f \in Findings |-> "none"]
  /\ pbc = [p \in Pbcs |-> "none"]
  /\ reports = 0
  /\ generatedBy = [v \in Versions |-> None]
  /\ approvedBy = [v \in Versions |-> None]
  /\ signoffs = {}
  /\ freezes = 0
  /\ tx = [s \in Sessions |-> Idle]
  /\ late = {}

(***************************************************************************)
(* BEGIN: the permission test and the service's own reads and checks.      *)
(***************************************************************************)
Begin(s, op, u, on) ==
  /\ tx[s].stage = "idle"
  /\ HasPermission(RoleOf[u], PermissionFor[op])
  /\ tx' = [tx EXCEPT ![s] = [stage |-> "checked", op |-> op, by |-> u,
                              on |-> on, blind |-> ~frozen]]
  /\ UNCHANGED <<status, frozen, rows, freezes, late>>

\* No open transaction already uses the id (gen_random_uuid).
Fresh(x) == \A s \in Sessions: tx[s].on # x

CreateWorkpaper(s, u, w) ==
  /\ status = "TESTING"                              \* requireTesting
  /\ preparedBy[w] = None /\ Fresh(w)
  /\ Begin(s, "createWorkpaper", u, w)

\* reviewWorkpaper looks at no status: a review may come at any time.
ReviewWorkpaper(s, u, w) ==
  /\ w \in Prepared
  /\ \/ Begin(s, "approveWorkpaper", u, w)
     \/ Begin(s, "rejectWorkpaper", u, w)

\* createException and createObservation, of a test result, which is of a
\* workpaper.
RaiseIssue(s, u, i) ==
  /\ status \in {"TESTING", "REVIEW"}                \* requireExecutionState
  /\ Prepared # {}
  /\ i \notin raised /\ Fresh(i)
  /\ Begin(s, "raiseIssue", u, i)

\* The same issue may be formalized more than once.
CreateFinding(s, u, f) ==
  /\ status \in {"TESTING", "REVIEW"}
  /\ SourceOf[f] \in raised
  /\ finding[f] = "none" /\ Fresh(f)
  /\ Begin(s, "createFinding", u, f)

\* closeFinding looks at no status either.
CloseFinding(s, u, f) ==
  /\ finding[f] # "none"
  /\ Begin(s, "closeFinding", u, f)

CreatePbcRequest(s, u, p) ==
  /\ status = "TESTING"
  /\ pbc[p] = "none" /\ Fresh(p)
  /\ Begin(s, "createPbcRequest", u, p)

\* accept_privacy_assurance_candidate (0016) makes an OPEN request for an
\* accepted EVIDENCE_REQUEST candidate and looks at no status, only at the
\* freeze (FreezeGuarded).  SettlePbcRequest asks for TESTING, so a request made
\* later stays open and with it the closure and freeze gates shut.  Candidates
\* themselves are Registers'; each makes a request of its own.
AcceptPrivacyAssuranceCandidate(s, u, p) ==
  /\ pbc[p] = "none" /\ Fresh(p)
  /\ Begin(s, "acceptPrivacyAssuranceCandidate", u, p)

\* completePbcRequest or cancelPbcRequest.
SettlePbcRequest(s, u, p) ==
  /\ status = "TESTING"                              \* getTestingRequest
  /\ pbc[p] = "open"
  /\ Begin(s, "settlePbcRequest", u, p)

EnterReview(s, u) ==
  /\ status = "TESTING"
  /\ Begin(s, "enterReview", u, None)

SignoffEngagement(s, u) ==
  /\ status = "REVIEW"
  /\ Assurer(u)
  /\ Begin(s, "signoffEngagement", u, None)

\* The version is read here: coalesce(max(version),0)+1.
GenerateReport(s, u) ==
  /\ reports < MaxReports
  /\ Begin(s, "generateReport", u, reports + 1)

ApproveReport(s, u, v) ==
  /\ v <= reports
  /\ generatedBy[v] # u
  /\ Begin(s, "approveReport", u, v)

CloseEngagement(s, u) ==
  /\ status = "REVIEW"
  /\ Begin(s, "closeEngagement", u, None)

\* The freeze version is read here, like the report's.
FreezeEngagement(s, u) ==
  /\ status = "CLOSED"
  /\ Begin(s, "freezeEngagement", u, freezes + 1)

(***************************************************************************)
(* The statement, its triggers and its constraints.                        *)
(***************************************************************************)

UpdatesEngagement == {"enterReview", "closeEngagement", "freezeEngagement"}

\* Updates of one existing row, or inserts under a unique index.
WritesOneRow ==
  {"closeFinding", "settlePbcRequest", "generateReport", "approveReport"}

\* Mutant: the reports table has no freeze trigger on UPDATE.
FreezeGuardedInserts ==
  Operations \ (UpdatesEngagement \cup {"createWorkpaper", "approveReport"})

\* Child tables with a *_post_freeze_guard trigger.  Inserts into workpapers
\* have none (workpapers_freeze_guard fires on UPDATE only).
FreezeGuarded == Operations \ (UpdatesEngagement \cup {"createWorkpaper"})

\* Two statements one of which waits for the other's transaction to end.
Conflict(a, b) ==
  \/ a.op \in UpdatesEngagement /\ b.op \in UpdatesEngagement
  \/ a.op \in WritesOneRow /\ b.op \in WritesOneRow /\ a.on = b.on

\* Mutant: the services lock what they read and check.
BlockedByReaders(s) ==
  \E t \in Sessions \ {s}:
    tx[t].stage \in {"checked", "written"} /\ Conflict(tx[s], tx[t])

Blocked(s) ==
  \E t \in Sessions \ {s}: tx[t].stage = "written" /\ Conflict(tx[s], tx[t])

\* No trigger raises and no constraint fails.
Accepted(r) ==
  /\ r.op \in FreezeGuarded => ~frozen
  /\ r.op \in {"approveWorkpaper", "rejectWorkpaper"} =>
       Assurer(r.by) /\ preparedBy[r.on] # r.by
  /\ r.op = "settlePbcRequest" => pbc[r.on] = "open"
  /\ r.op = "signoffEngagement" => Assurer(r.by)
  /\ r.op = "generateReport" => r.on > reports
  /\ r.op = "approveReport" => Assurer(r.by) /\ generatedBy[r.on] # r.by
  /\ r.op = "enterReview" => ~frozen /\ TransitionAccepted("REVIEW")
  /\ r.op = "closeEngagement" => ~frozen /\ TransitionAccepted("CLOSED")

\* Part one of the freeze: the BEFORE INSERT trigger, which waits for nobody.
FreezeAccepted(r) == FreezeReady /\ r.on = freezes + 1

\* Mutant: no unique index on the freeze version.
VersionUnchecked(r) == TRUE

\* Part two: the unique index on (engagement_id, version).
VersionFree(r) == r.on > freezes

Execute(s) ==
  /\ tx[s].stage = "checked" /\ tx[s].op # "freezeEngagement"
  /\ ~Blocked(s)
  /\ Accepted(tx[s])
  /\ tx' = [tx EXCEPT ![s].stage = "written",
                      ![s].blind = IF tx[s].op \in FreezeGuarded
                                     THEN ~frozen ELSE @]
  /\ UNCHANGED <<status, frozen, rows, freezes, late>>

GateFreeze(s) ==
  /\ tx[s].stage = "checked" /\ tx[s].op = "freezeEngagement"
  /\ FreezeAccepted(tx[s])
  /\ tx' = [tx EXCEPT ![s].stage = "gated"]
  /\ UNCHANGED <<status, frozen, rows, freezes, late>>

InsertFreeze(s) ==
  /\ tx[s].stage = "gated"
  /\ ~Blocked(s)
  /\ VersionFree(tx[s])
  /\ tx' = [tx EXCEPT ![s].stage = "written"]
  /\ UNCHANGED <<status, frozen, rows, freezes, late>>

(***************************************************************************)
(* ROLLBACK and COMMIT.                                                    *)
(***************************************************************************)

\* Another session has passed the freeze gate and has not ended.
FreezePending(s) ==
  \E t \in Sessions \ {s}:
    tx[t].op = "freezeEngagement" /\ tx[t].stage \in {"gated", "written"}

Rollback(s) ==
  /\ tx' = [tx EXCEPT ![s] = Idle]
  /\ late' = IF frozen \/ FreezePending(s) THEN late ELSE {}
  /\ UNCHANGED <<status, frozen, rows, freezes>>

\* A trigger raises or a constraint fails.
Reject(s) ==
  /\ \/ /\ tx[s].stage = "checked" /\ tx[s].op # "freezeEngagement"
        /\ ~Blocked(s) /\ ~Accepted(tx[s])
     \/ /\ tx[s].stage = "checked" /\ tx[s].op = "freezeEngagement"
        /\ ~FreezeAccepted(tx[s])
     \/ /\ tx[s].stage = "gated" /\ ~Blocked(s) /\ ~VersionFree(tx[s])
  /\ Rollback(s)

\* The request throws, the process dies or the connection is lost.  This is
\* also how a closeFinding ends whose finding is not closure-ready.
Fail(s) ==
  /\ tx[s].stage # "idle"
  /\ Rollback(s)

Commit(s, op) ==
  /\ tx[s].stage = "written" /\ tx[s].op = op
  /\ tx' = [tx EXCEPT ![s] = Idle]

(***************************************************************************)
(* Late is the set of rows that became visible after a freeze had passed   *)
(* its gate (or had committed), written by transactions that had last      *)
(* looked before the freeze was visible: those that overlapped it.         *)
(***************************************************************************)
Late(s) ==
  late' = IF (frozen \/ FreezePending(s)) /\ tx[s].blind
            THEN late \cup {tx[s].on} ELSE late

InsertWorkpaper(s) ==
  /\ Commit(s, "createWorkpaper")
  /\ preparedBy' = [preparedBy EXCEPT ![tx[s].on] = tx[s].by]
  /\ Late(s)
  /\ UNCHANGED <<status, frozen, reviews, raised, finding, pbc, reports,
                 generatedBy, approvedBy, signoffs, freezes>>

InsertReview(s) ==
  /\ \/ /\ Commit(s, "approveWorkpaper")
        /\ reviews' = [reviews EXCEPT ![tx[s].on] =
                         @ \cup {<<tx[s].by, "APPROVED">>}]
     \/ /\ Commit(s, "rejectWorkpaper")
        /\ reviews' = [reviews EXCEPT ![tx[s].on] =
                         @ \cup {<<tx[s].by, "REJECTED">>}]
  /\ UNCHANGED <<status, frozen, preparedBy, raised, finding, pbc, reports,
                 generatedBy, approvedBy, signoffs, freezes, late>>

InsertIssue(s) ==
  /\ Commit(s, "raiseIssue")
  /\ raised' = raised \cup {tx[s].on}
  /\ Late(s)
  /\ UNCHANGED <<status, frozen, preparedBy, reviews, finding, pbc, reports,
                 generatedBy, approvedBy, signoffs, freezes>>

WriteFinding(s) ==
  /\ \/ /\ Commit(s, "createFinding")
        /\ finding' = [finding EXCEPT ![tx[s].on] = "open"]
     \/ /\ Commit(s, "closeFinding")
        /\ finding' = [finding EXCEPT ![tx[s].on] = "closed"]
  /\ Late(s)
  /\ UNCHANGED <<status, frozen, preparedBy, reviews, raised, pbc, reports,
                 generatedBy, approvedBy, signoffs, freezes>>

WritePbcRequest(s) ==
  /\ \/ /\ \/ Commit(s, "createPbcRequest")
           \/ Commit(s, "acceptPrivacyAssuranceCandidate")
        /\ pbc' = [pbc EXCEPT ![tx[s].on] = "open"]
     \/ /\ Commit(s, "settlePbcRequest")
        /\ pbc' = [pbc EXCEPT ![tx[s].on] = "settled"]
  /\ Late(s)
  /\ UNCHANGED <<status, frozen, preparedBy, reviews, raised, finding, reports,
                 generatedBy, approvedBy, signoffs, freezes>>

\* Mutant: the sign-off does not record its user.
InsertSignoffAnonymous(s) ==
  /\ Commit(s, "signoffEngagement")
  /\ signoffs' = signoffs \cup {None}
  /\ UNCHANGED <<status, frozen, preparedBy, reviews, raised, finding, pbc,
                 reports, generatedBy, approvedBy, freezes, late>>

InsertSignoff(s) ==
  /\ Commit(s, "signoffEngagement")
  /\ signoffs' = signoffs \cup {tx[s].by}
  /\ UNCHANGED <<status, frozen, preparedBy, reviews, raised, finding, pbc,
                 reports, generatedBy, approvedBy, freezes, late>>

InsertReport(s) ==
  /\ Commit(s, "generateReport")
  /\ reports' = tx[s].on
  /\ generatedBy' = [generatedBy EXCEPT ![tx[s].on] = tx[s].by]
  /\ Late(s)
  /\ UNCHANGED <<status, frozen, preparedBy, reviews, raised, finding, pbc,
                 approvedBy, signoffs, freezes>>

\* An approved version may be approved again: the last approver stays.
UpdateReport(s) ==
  /\ Commit(s, "approveReport")
  /\ approvedBy' = [approvedBy EXCEPT ![tx[s].on] = tx[s].by]
  /\ UNCHANGED <<status, frozen, preparedBy, reviews, raised, finding, pbc,
                 reports, generatedBy, signoffs, freezes, late>>

UpdateStatus(s) ==
  /\ \/ Commit(s, "enterReview") /\ status' = "REVIEW"
     \/ Commit(s, "closeEngagement") /\ status' = "CLOSED"
  /\ UNCHANGED <<frozen, rows, freezes, late>>

\* The audit_freezes row and what apply_audit_freeze does.
ApplyFreeze(s) ==
  /\ Commit(s, "freezeEngagement")
  /\ freezes' = freezes + 1
  /\ frozen' = TRUE
  /\ UNCHANGED <<status, rows, late>>

-----------------------------------------------------------------------------
Request(s) ==
  \E u \in Users:
    \/ \E w \in Workpapers: CreateWorkpaper(s, u, w) \/ ReviewWorkpaper(s, u, w)
    \/ \E i \in Issues: RaiseIssue(s, u, i)
    \/ \E f \in Findings: CreateFinding(s, u, f) \/ CloseFinding(s, u, f)
    \/ \E p \in Pbcs: \/ CreatePbcRequest(s, u, p) \/ SettlePbcRequest(s, u, p)
                      \/ AcceptPrivacyAssuranceCandidate(s, u, p)
    \/ EnterReview(s, u)
    \/ SignoffEngagement(s, u)
    \/ GenerateReport(s, u)
    \/ \E v \in Versions: ApproveReport(s, u, v)
    \/ CloseEngagement(s, u)
    \/ FreezeEngagement(s, u)

Statement(s) == Execute(s) \/ GateFreeze(s) \/ InsertFreeze(s) \/ Reject(s)

CommitAny(s) ==
  \/ InsertWorkpaper(s) \/ InsertReview(s) \/ InsertIssue(s) \/ WriteFinding(s)
  \/ WritePbcRequest(s) \/ InsertSignoff(s) \/ InsertReport(s)
  \/ UpdateReport(s) \/ UpdateStatus(s) \/ ApplyFreeze(s)

Next ==
  \E s \in Sessions:
    Request(s) \/ Statement(s) \/ CommitAny(s) \/ Fail(s)

Spec == Init /\ [][Next]_vars

\* PostgreSQL grants row locks in the order they were asked for, so a waiting
\* statement is not overtaken for ever, and the service commits what it wrote.
Fairness ==
  \A s \in Sessions: SF_vars(Statement(s)) /\ WF_vars(CommitAny(s))

FairSpec == Spec /\ Fairness

-----------------------------------------------------------------------------
(***************************************************************************)
(* Properties.                                                             *)
(***************************************************************************)

\* The freeze happens once: overlapping freezes of one engagement leave one
\* audit_freezes row, and the engagement is frozen exactly when it is there,
\* although neither request locks anything before its gate is evaluated.
SingleFreeze == freezes <= 1 /\ (frozen <=> freezes = 1)

\* A frozen engagement holds final sign-off and a reviewed workpaper, and
\* every row that leaves it unresolved (unreviewed workpaper, open issue or
\* PBC request, unapproved latest report) was written by a transaction that
\* overlapped the freeze.  There is no other way to get one in.
FrozenResolvedUnlessRaced ==
  frozen =>
    /\ status = "CLOSED"
    /\ signoffs # {}
    /\ \E w \in Prepared: ReviewApproved(w)
    /\ Unresolved \subseteq late

\* A closed engagement keeps the evidence its closure gate saw: a sign-off by
\* an assurer, a workpaper approved by an assurer who did not prepare it, and
\* a report version approved by somebody who did not generate it.
ClosedOnIndependentEvidence ==
  status = "CLOSED" =>
    /\ \E u \in signoffs: Assurer(u)
    /\ \E w \in Prepared, u \in Users:
         <<u, "APPROVED">> \in reviews[w] /\ Assurer(u) /\ u # preparedBy[w]
    /\ \E v \in 1..reports:
         /\ approvedBy[v] # None /\ Assurer(approvedBy[v])
         /\ approvedBy[v] # generatedBy[v]

\* A transaction commits whose last look at the freeze did not see it.
RacedCommit ==
  \E s \in Sessions:
    tx[s].blind /\ tx[s].stage = "written" /\ tx'[s].stage = "idle"

\* FREEZE-001 (docs/RULES-CATALOG.md): once the freeze is visible, a child
\* row changes only by the commit of a transaction that last looked before.
FrozenRowsOnlyRaced == [][frozen /\ rows' # rows => RacedCommit]_vars

\* The engagement keeps the promise of AssuranceLifecycle.
EvidenceOnFile ==
  (IF \E w \in Prepared: ReviewApproved(w) THEN {"review"} ELSE {}) \cup
  (IF signoffs # {} THEN {"signoff"} ELSE {}) \cup
  (IF \E v \in Versions: approvedBy[v] # None THEN {"report"} ELSE {})

Lifecycle == INSTANCE AssuranceLifecycle
               WITH Start <- "TESTING", evidence <- EvidenceOnFile

LifecyclePromise == Lifecycle!Spec

\* Reports are approved by four eyes (FourEyes), whatever versions are being
\* generated and approved at once.
Reports ==
  INSTANCE FourEyes WITH People <- Users, Items <- Versions,
                         author <- generatedBy, approver <- approvedBy

ReportsByFourEyes == Reports!Spec

\* No request waits for ever: every transaction that begins ends.
EveryRequestEnds ==
  \A s \in Sessions: tx[s].stage # "idle" ~> tx[s].stage = "idle"

\* "Frozen engagements cannot be silently mutated" (docs/DOMAIN-DESIGN.md): no
\* assurance row changes once the freeze is visible.  The code does not keep
\* it: a request that overlaps the freeze commits into the frozen engagement.
FrozenNeverMutated == [][frozen => rows' = rows]_vars

=============================================================================
