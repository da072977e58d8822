# DPM-Assure in TLA+

Specifications, TLC model checks and TLAPS proofs for DPM-Assure, the multi-tenant
data-protection assurance application in this repository (TypeScript services on PostgreSQL).
Paths below are relative to the repository root.

The application runs every request in one PostgreSQL `READ COMMITTED` transaction
(`src/db/tenant-transaction.ts`). A service function reads what it checks, without locking it,
then writes; the triggers of `db/migrations` check again, against what is committed when the
statement runs. The tests run one request at a time. What they hardly reach is what this project
is about: requests that overlap, checks that are stale when the write happens, and long
sequences of legal requests.

## Inventory

| component | state | operations | interacts with | what makes it correct |
|---|---|---|---|---|
| Final assurance and freeze (`domain/engagement/finalization-service.ts`, 0011, 0026) | engagement status and `frozen_at`, reviews, sign-offs, report versions, freezes | enter review, review workpaper, sign off, generate and approve report, close, freeze | counts what execution, outcomes and PBC wrote; its freeze closes them all | closure only on independent evidence; the freeze is single, final and keeps out later changes |
| Organizations, memberships, invitations (`domain/organization`, 0020) | membership role and status, invitations | invite, cancel, accept, change role or status | every other component reads the role at the start of its transaction | an administrator remains; an invitation is used once |
| Permissions (`auth/rbac.ts`, `auth/authorize.ts`) | none | `requirePermission` | called by every service | roles get what the matrix says |
| Login tokens and sessions (`auth/session-store.ts`, `auth/cookie-session.ts`, 0019, 0024) | tokens, sessions | issue, consume, resolve, revoke | e-mail, rate limit | a token opens one session; expiry, revocation and deactivation are honoured |
| Rate limiting (`security/rate-limit.ts`, 0023) | counters per fixed window | consume | the sign-in route | at most the limit per window |
| Planning and governance (`domain/engagement/governance-service.ts`, `service.ts`, 0005) | assignments, independence, risk assessment, plan, status | assign, declare, assess, approve, start testing | gate of TESTING, with scope | testing starts only when every gate holds |
| Framework scope (`scope-service.ts`, 0006) | selected frameworks, applicability decisions | select, define scope, decide | governance gate | every requirement of a selected framework is decided, and decisions stay |
| Execution (`execution-service.ts`, 0007) | workpapers, populations, samples, procedures, results | create, update, sample, test, link | frozen by finalization | a review covers the content it approved; no change after the freeze |
| PBC requests (`pbc-service.ts`, 0008) and client portal (`domain/client-portal`, 0021) | PBC status, assignee, client access, responses (which nothing modelled reads) | create, assign, complete, close, cancel; grant, revoke, respond, upload | accepted privacy candidates create requests too; evidence, finalization gate | completion only with evidence; clients write for what is assigned to them |
| Evidence and object store (`domain/evidence`, `storage`, 0022) | evidence rows, upload intents, stored objects | create intent, PUT through a signed URL, finalize, register | S3 service | the recorded digest is the object's; no engagement loses the objects of its evidence |
| Outcomes: exceptions, findings, remediation, retests, risk acceptance (`outcome-service.ts`, 0009, 0010, 0025) | rows and statuses of each | create, assess, remediate, retest, accept, close | finalization gate | a finding closes only on verified remediation or live acceptance |
| Post-audit (`postaudit-service.ts`, 0012) | archives, monitoring events, reassessment triggers | archive, record, decide | after the freeze | archive only of a frozen engagement |
| Deletion (`deletion-service.ts`) | none of its own | delete a planning engagement | evidence, object store | only engagements without evidence lose objects |
| Privacy registers, workflows, alerts, assurance candidates (`domain/privacy`, 0013-0016) | ten registers with a status each, alerts, candidates | create, edit, move, approve, refresh, decide | engagements, PBC requests | approval by a second person; what a status says is on file, whatever updates overlap |
| Compliance obligations and monitoring (`domain/compliance`, 0017, 0018) | profile and its facts, determinations, obligations, alerts, impacts | determine, oblige, acknowledge, assess, resolve | published rules and sources | an obligation rests on a determination, that on established facts |
| Tenant transaction and RLS (`db`, 0002, 0003) | transaction-local identity | begin, commit, roll back | everything | organizations never see each other |
| Audit log, notifications, AI, e-mail, HTTP routes, pages, schema mirror | append-only rows or none | | | not modelled, see below |

The hard behaviours are the interleaving of transactions (checks without locks, row locks,
unique indexes that wait, triggers that read committed state), failures at any point of a
transaction, expiry against a clock, and the object store outside the transaction. There is no
background process and no in-memory state that outlives a request. `PROJECT.json` lists each
hazard at its line with the properties that watch it, and every component with its status.

## Modules

| module | what it is |
|---|---|
| `Rbac` | The permission matrix for the permissions modelled operations ask for. |
| `AssuranceLifecycle` | Abstract promise of an engagement: statuses move along `docs/TRUTH-TABLES.md`, closure and freeze only with all evidence, the freeze is one way. |
| `FourEyes` | Abstract segregation of duties: an item keeps its author, somebody else approves it, an approval is never withdrawn. |
| `OneTimeGrant` | Abstract one-time grant: offered, then taken once or withdrawn, never both and never again. |
| `Finalization` | The stage from TESTING to the freeze, all its requests as overlapping transactions. Implements `AssuranceLifecycle`. |
| `MCFinalization` | Its small instances. |
| `FinalizationProofs` | Its types, the freeze and the invariant they need. |
| `ClosureProofs` | Closure on independent evidence, and that `Finalization` implements `AssuranceLifecycle`. |
| `FindingClosure` | Remediation, retest, risk acceptance and the closing of findings. |
| `MCFindingClosure`, `FindingClosureProofs` | Its small instance and theorems. |
| `Governance` | The planning of an engagement up to TESTING: team, independence, risk assessment, plan, frameworks and scope. |
| `MCGovernance`, `GovernanceProofs` | Its small instance and theorems. |
| `Membership` | Members, administrators and invitations of one organization. |
| `MCMembership`, `MembershipProofs` | Its small instances and theorems. |
| `EvidencePortal` | PBC requests, client access, uploads, the object store and the deletion of an engagement, around one engagement's evidence. |
| `MCEvidencePortal`, `EvidencePortalProofs` | Its small instance and theorems. |
| `Registers` | The privacy registers, alerts and candidates, and compliance profile, obligations, alerts and impacts: sixteen kinds of row, one transaction model. |
| `MCRegisters`, `RegistersProofs` | Its small instances and theorems. |
| `SignIn` | Sign-in links, their two limits, sessions and what is done under them. |
| `MCSignIn`, `SignInProofs` | Its small instance and theorems. |

### The abstract specifications

Three small specifications say what the components promise in the words of the documents; the
detailed modules instantiate them with a refinement mapping.

| specification | implemented by | property |
|---|---|---|
| `AssuranceLifecycle` | `Finalization` | `LifecyclePromise` |
| `FourEyes`: author and approver of an item | report versions (`Finalization`), audit plan versions (`Governance`), risk acceptances (`FindingClosure`), reviewed rows of the registers (`Registers`) | `ReportsByFourEyes`, `PlansByFourEyes`, `AcceptancesByFourEyes`, `ReviewsByFourEyes` |
| `OneTimeGrant`: state of a grant, and what it gave | invitations and the memberships they gave (`Membership`), login tokens and the sessions they opened (`SignIn`), upload intents and the evidence they became (`EvidencePortal`) | `InvitationPromise`, `TokenPromise`, `UploadPromise` |

`FourEyes` lets an approval be replaced by another one, because `approveAuditPlan` and the update of
a retired notice do that, and `OneTimeGrant` knows no expiry of its own: an expired token or
invitation stays offered, as its row does, and is merely refused. What an abstract step may be is
decided by committed rows; a request that is rolled back is a stutter.

The other modules share state with each other only through what the next one takes as an input
(roles, the status of the engagement); each keeps the part of the other that its own requests read,
such as `AdvanceEngagement` in `EvidencePortal` or `EndReview` in `FindingClosure`.

### How a transaction is modelled

`tx[s]` is the transaction of the pooled connection `s`. All modules but `SignIn`, whose handlers
are described below, split a request at the points where other transactions can matter:

| step | code | what it sees |
|---|---|---|
| `Begin` through one action per service function: idle to checked | the role read, `requirePermission`, the service's reads and early throws | rows committed so far, none of them locked |
| `Execute`: checked to written | the writing statement, after its lock waits, with its BEFORE triggers | rows committed by then, and the transaction's own |
| `Commit...`: written to idle | COMMIT | its rows become visible to everybody at once |
| `Reject`, `Fail` | a RAISE, a thrown error, a lost connection | ROLLBACK, nothing remains |

A waiting statement (`Blocked`, `Waits`) is one whose row lock or unique key an uncommitted transaction
holds. After the wait PostgreSQL evaluates the triggers on the latest committed row, which is
what `Accepted` reads. Foreign keys take `FOR KEY SHARE` on the engagement, which does not
conflict with an update of its status: an insert into a child table never waits for a status
change or a freeze. All reads of a service before its write are one step. Reading them apart
would only add checks that are older still; the triggers decide again at the write.

### Finalization

- `freezeEngagement` has a two-part insert. The BEFORE trigger
  (`enforce_audit_freeze_readiness`) waits for nobody and decides on what is committed
  (`GateFreeze`). The unique index and the AFTER trigger's update of the engagement wait
  (`InsertFreeze`). Everything committed between the two is missed by the gate.
- `FreezeGuarded` are the statements with a freeze trigger. Inserting a workpaper has none:
  `workpapers_freeze_guard` is an UPDATE and DELETE trigger.
- `createException` and `createObservation` are one action (`RaiseIssue`), `completePbcRequest`
  and `cancelPbcRequest` another (`SettlePbcRequest`): the gate does not tell them apart.
  Whether a PBC request has its evidence, or a finding its verified remediation, only restricts
  when these succeed, and `Fail` covers the refusal.
- A PBC request has two creators: `createPbcRequest`, which asks for TESTING, and the acceptance of a
  privacy candidate (`accept_privacy_assurance_candidate`, `0016:109`), which looks only at the freeze
  (`AcceptPrivacyAssuranceCandidate`). An OPEN request may so appear in REVIEW or CLOSED, where no
  service settles it: closure and freeze stay shut, unless their gate has already been read. A freeze
  that overlaps the acceptance is one more way to the violation of `finalization_frozen`.
- Issues are raised about a test result or a workpaper; a test result belongs to a workpaper, so
  `RaiseIssue` asks for one (`Prepared`).
- Rejected reviews are recorded and no gate reads them, as in the code. Repeated equal reviews
  and sign-offs of one user collapse in a set; no gate counts them.
- Roles do not change in this module. The service uses the role read when its transaction began;
  membership changes are `Membership`'s. The 0011 triggers do ask for an active membership at
  the statement, and a role lost in between only makes a statement fail, which `Fail` covers.
- `late` and the `blind` flag are history: the rows that became visible after a freeze had passed
  its gate, written by a transaction that had last looked at `frozen_at` before it was visible.
- The engagement starts in TESTING; PLANNING and its gates are `Governance`'s.
- Abstracted: the content of workpapers and reports, snapshot counts and hashes, audit records,
  the setting of `workpapers.frozen_at` by `apply_audit_freeze` (updates of content are not
  actions here).

### FindingClosure

- One engagement in execution, its findings open at first. Remediations, retests and acceptances
  are created and decided by overlapping requests; `EndReview` is the only step of `Finalization`
  that matters here, and its gate wants every finding closed.
- `completeRemediation` and `approveRiskAcceptance` read their row `FOR UPDATE`, so what they
  check is what they update: their checks are in `Passes`, evaluated with the lock held.
  `recordRetest` and `closeFinding` lock nothing of what they rest on; the triggers of 0010 and
  0025 look again at the insert or update.
- `now()` in the triggers is the start of the transaction, so `ClosureReady` is evaluated at
  `tx[s].at`. `until` is the last time at which both `expires_at > now()` and
  `review_due_at >= now()` hold. Nothing asks for it to lie ahead when an acceptance is proposed.
- The result of a retest is PASS, FAIL or neither. Its evidence and the evidence gate are a reason
  to fail (`Fail`); retests without a remediation are read by no gate and left out.
- Nothing reopens a finding, and any PASS retest by somebody other than the completer counts,
  whatever retest came after it. Both are as the code has them.

### Governance

- One action per function of `governance-service.ts` and `scope-service.ts`. Each checks PLANNING
  without a lock (`Begin`), writes (`Execute`) and commits; each commit has its own action, named
  for the row it writes.
- `startEngagementTesting` reads the gates twice: the service asks for
  `engagement_governance_ready`, the trigger for that and for `engagement_scope_ready`. Between the
  trigger and the end of everybody else's transactions lies the race.
- `check[c].at` is `created_at`, the start of the inserting transaction; the gate takes the latest
  by that time and then by id. `Checks` are numbers for that order.
- `approveAuditPlan` and `resolveIndependenceConflict` update by id whatever is there, after an
  unlocked check. A second approval replaces the approver of the first, as in the code.
- A plan version is the latest committed one plus one; of two creations of the same version the
  second waits for the unique key and fails. Selecting a framework twice waits and fails likewise;
  its trigger seeds a PENDING decision for each requirement.
- APPLICABLE and NOT_APPLICABLE are one value, DECIDED, because no gate tells them apart. Scopes
  that are not in scope open no gate and are left out, and so are scores and texts.
- No service ends an assignment, withdraws a plan or a framework, returns a decision to PENDING, or
  closes an engagement in PLANNING, though tables and triggers would let it. No such action exists.
- `late` is history: the members and requirements about which rows were committed when the start
  of testing had already passed its gate.

### Membership

- `updateOrganizationMember`, `inviteOrganizationMember`, `cancelOrganizationInvitation` and
  `acceptOrganizationInvitation`. The acceptance has two statements with separate waits:
  `LockInvitation` (`SELECT ... FOR UPDATE` and the checks) and `UpsertMembership`.
- `now()` is the time a transaction began, so whether an invitation has expired is decided in
  `AcceptInvitation`. Nothing writes the status EXPIRED: an expired invitation stays PENDING and
  keeps its address from being invited again until somebody cancels it.
- The audit record of a change is inserted by the acting user after the change, under a policy
  that asks for the user's active membership (`Recorded`). That is what keeps users from
  deactivating themselves; no check in the service does.
- `provision_invited_identity` asks once more for an active administrator; that check is merged
  with the service's. A user's own status is never changed by the application.
- The first ORG_ADMIN comes from trusted provisioning (`db/migrations/0004`), which `Init` and
  `InitAssumption` stand for.
- `raced` is history: two removals of active ORG_ADMINs were written and uncommitted at once.

### EvidencePortal

- The object store takes part in no transaction. `Put` is the browser, with a URL signed for ten
  minutes: it may write before the server looks, between HEAD and GET, after the finalization, or
  never. `Expire` ages an intent and then its URL, which is signed a moment later.
- `finalizeEvidenceUpload` and its portal counterpart hold the intent's row lock from their first
  read to their commit. HEAD (content type) is part of their checks, GET (length and digest) of their
  statements; a client's finalization checks assignment and access once, before both.
- `complete`, `close` and `cancel` lock the PBC request first (`getTestingRequest`), so checks and
  update are of one row version. `assignPbcToClientUser` is a single UPDATE that looks at no status:
  a CLOSED or CANCELLED request can be assigned. `createEvidenceUploadIntent` looks at no status of
  the request either, and an auditor may finalize a client's intent.
- `deletePlanningEngagement` lists the engagement's evidence (`ListEvidence`), deletes the objects one by
  one (`DeleteObject`) and then the row (`ExecuteDelete`), which a foreign key may still refuse; the
  objects are gone then. Others may come between any two of these, and it may fail at any of them.
- Requests come from `createPbcRequest`, in TESTING, or from an accepted privacy candidate
  (`0016:109`), in any status before the freeze: an OPEN request may be there in PLANNING, REVIEW or
  CLOSED. `OnlyInTesting` therefore names the operations whose service asks for TESTING and says nothing of
  the two writes of requests that look at no status, this one and `assignPbcToClientUser`.
  Candidates and who decides them are `Registers`'.
- `AdvanceEngagement` moves the status on without the gates of closure and freeze, which are
  `Finalization`'s: more behaviours than the program has, and the properties hold in them.
- A response (`SubmitPbcResponse`) passes its checks and takes its locks; the row is not kept, because
  nothing modelled reads it.
- `registerEvidence` locks no intent: under the key of an intent whose finalization is under way it
  inserts first, and the finalization is then refused by the unique storage key. Of two inserts under
  one key the second waits for the first (`Inserts`). `Obstructs` says for whom a statement waits.
- The update of an intent to EXPIRED is rolled back by the error thrown after it, so no intent is
  ever stored as EXPIRED.
- `changed` in a transaction is history: which of the things it had checked have changed since. A
  statement that checks again, by its trigger, takes them off (`Rechecked`). `overwritten` is history
  too: objects written after their digest was taken.
- The revocation of a user whose CLIENT membership is inactive, which the trigger of 0021 refuses,
  is left out: here clients are active members.

### Registers

- A record is a row of one of sixteen registers (`kind`), with a status, its creator and approver,
  and the *facts* its other columns establish (a verified identity, a containment date, the file of a
  processor). `Layouts` says which registers the records of an instance belong to.
- Nearly every service function reads its row, checks what it read, and updates by id. `Begin` is
  the read, `Passes` what the trigger compares with the row as it has become, `stale` history: what
  the request had read has changed. A statement that keeps the status meets no status check in
  the triggers, and columns it does not name keep their values.
- Approving a retired notice is possible and overwrites its approver. A DSR may go from
  IDENTITY_VERIFICATION to ON_HOLD by the service, never by the trigger.
- Alerts are raised for what services write; no service writes a breach's `notification_due_at` or a
  DPIA's `next_review_at`, so no alert of those kinds is raised. Obligations stay OPEN.
- A decision of a candidate asks once more for PROPOSED, under the row lock, and makes the scope row
  or PBC request in the same transaction (`made`).
- One obligation rule and one profile. Rules, sources and their publication are external: nothing
  in the services writes them. `materialize_source_change_impacts`, which no service calls, is
  `MaterializeImpact`.

### SignIn

- A handler is one HTTP request. Asking for a link is five statements, each its own transaction: the
  two counters at once (`Promise.all`), the count of recent tokens, the user, the insert. The counters
  are consumed one by one in either order (`ConsumeRateLimit`, with what is `due`), each in the window
  that is on then, and both even when one of them refuses. Tokens are counted by e-mail or by address, in a window that slides, while the
  counters' windows are fixed.
- Following a link is one transaction, which holds the token's row lock from `ConsumeLoginToken` to its
  end. `now()` is its start. If it fails, the token is as it was.
- `ResolveSession` reads session and user; the work that follows asks for the membership only, and
  does not look at either again. Deactivating a user leaves the sessions in place, so they work
  again after a reactivation.
- `window`, `overtaken`, `by` and `late` are history.

## Runs

| run | expect | instance | shows |
|---|---|---|---|
| `finalization_race` | pass | 2 sessions, an AUDIT_MANAGER and a REVIEWER, one workpaper, issue, finding, PBC request, 2 report versions; 607,102 states | `TypeOK`, `SingleFreeze`, `FrozenResolvedUnlessRaced`, `ClosedOnIndependentEvidence`, `FrozenRowsOnlyRaced`, and the refinement `LifecyclePromise` |
| `finalization_live` | pass | the same, without the PBC request and with 1 version; 91,487 states | `EveryRequestEnds`: lock waits form no cycle |
| `finalization_frozen` | violation | the same as `finalization_live` | `FrozenNeverMutated` does not hold: see Findings |
| `finding_closure` | pass | 2 sessions, an AUDIT_MANAGER and an AUDITOR, one finding, remediation and acceptance, 2 points of time; 105,263 states | `TypeOK`, `ClosedOnRemedy`, `RetestsIndependent`, `DecidedOnce`, `ClosedInTerm` |
| `governance_gate` | pass | 2 sessions, an AUDIT_MANAGER and a REVIEWER, 2 checks, 1 plan version, framework and requirement, 2 points of time; 2,408,276 states | `TypeOK`, `UnreadyOnlyLate`, `PlanApprovedIndependently`, `DecisionsKept` |
| `governance_started` | violation | the same | `TestingIndependent` does not hold: see Findings |
| `membership_race` | pass | 2 sessions, 2 administrators, an outsider, one invitation, roles ORG_ADMIN and VIEWER; 909,552 states | `TypeOK`, `AdminLostOnlyByRace` |
| `membership_invitations` | pass | the same with 2 invitations to the outsider and role VIEWER; 613,051 states | `InvitationPromise`: invitations implement `OneTimeGrant` |
| `membership_admin` | violation | the instance of `membership_race` | `AdminRetained` does not hold: see Findings |
| `evidence_portal` | pass | 2 sessions, an administrator, a reviewer and a client, one PBC request and one storage key, contents right, of the wrong type and of the wrong length; 2,882,382 states | `TypeOK`, `CompletedOnEvidence`, `DigestOfObject`, `ClientCredited`, `VerifiedUpload`, `WithinAssignment`, `OnlyInTesting`, `ObjectsKept`, `LocksOrdered` |
| `registers` | pass | 2 sessions, 2 administrators, each register in turn with what refers to it; 81,568 states | `TypeOK`, `ApprovedIndependently`, `VerifiedBeforeWork`, `BreachNotifiedBeforeClose`, `ActiveOnFile`, `CandidateMadeOnce`, `FinalStays`, `Grounded` |
| `sign_in` | pass | 2 handlers, one address, one network or none, 2 tokens and sessions, windows of 2 in 4 points of time; 5,583,204 states | `TypeOK`, `SingleUse`, `IssueLimited`, `SessionHonoured` |

Why the bounds are enough to be interesting: every hazard modelled is a race of two transactions,
so two sessions show it; a third adds only further overlaps (the instance of `finalization_race` also
passes with three sessions and no PBC request, 1.47 million states, and with two findings, 1.83
million). Two report versions are needed for an approved version to be overtaken by
an unapproved one. Two users whose approvals count are needed for independence to be satisfiable,
and with two every violation of independence is possible as well. Two administrators are the least
that can both be removed; two invitations to one address are the least that can compete for the
pending index. That an acceptance overwrites the role of an administrator reactivated meanwhile takes
three users and two invitations with both roles, more than a run of minutes; `AdminLoss` is proved
for any number. In `finding_closure` two points of time are enough for an acceptance to be current
when a closing request begins and run out before it commits, and for one to have run out before.
In `governance_gate` two checks are the
least of which one can be the latest, and one of each other kind of row opens its gate.
In `evidence_portal` one key and one request are enough, because every check and every lock is about
one of each, and the two sessions can be about the same ones; the three contents are the least that
fail each comparison apart, and a second one passes what the first did not. With its one client
an assignment is undone by a cancellation; a reassignment to another client changes the same column,
and the theorems are about any number of clients; so are they about a deletion of several objects,
where this run has one. In `registers` a row moves
by itself except for a consent, which reads a notice, and an obligation, which reads a determination,
which reads a profile; the layouts have each of these chains and every register by itself. In `sign_in`
the limits of one address are 1, so that two handlers compete for the last hit, and the clock passes from the first
window into the second, where tokens of both count.
`MaxReports`, `MaxPlans` and `MaxTime` are the only caps on counters; `freezes` is bounded by `SingleFreeze`.

`CHECK_DEADLOCK FALSE` is set in the two passing membership runs: an organization that has lost
its administrators to a race, and has no pending invitation, has no request left to make. It is
set in the governance runs because planning ends at TESTING: no request of `Governance` is left. It is
set in `registers` because a row in a final status leaves nothing to request, and in `evidence_portal`
because nothing is left once the engagement is frozen or deleted, the URLs are dead and every grant is
made. There `LocksOrdered` watches for deadlock. In the other runs TLC checks that the system never stops.

Symmetry: sessions are interchangeable, and so are the two administrators a and b of the membership
runs, and in `sign_in` handlers, tokens and logins. No run with symmetry checks liveness.

Fairness (`FairSpec`, only in `finalization_live`): `SF` of a session's statement, because
PostgreSQL queues waiting transactions for a row lock, so one whose lock becomes free again and
again is not passed over for ever; `WF` of the commit, because the service goes on after its
statement. There is no fairness on users' requests or on failures.

## Proofs

TLAPS proves these for every value of the constants (any users, roles, sessions, rows), under the
`ASSUME`s of the modules (each user has a role, each finding a source, bounds are naturals,
`None` is none of them, an organization starts with an ORG_ADMIN, addresses and networks are apart,
the limits are positive). `SignIn` counts handlers and tokens, so these are assumed to be finite sets.

| theorem | states |
|---|---|
| `FinalizationProofs!TypeCorrect` | `Spec => []TypeOK` |
| `FinalizationProofs!Invariance` | the inductive invariant |
| `FinalizationProofs!FreezeIsSingle` | `Spec => []SingleFreeze` |
| `FinalizationProofs!FreezeIsFinal` | `Spec => []FrozenResolvedUnlessRaced` |
| `FinalizationProofs!FreezeIsKept` | `Spec => FrozenRowsOnlyRaced` |
| `FinalizationProofs!SerialFreezeIsFinal` | `Spec /\ []Serial => FrozenNeverMutated /\ [](frozen => Unresolved = {})` |
| `ClosureProofs!ClosureIsIndependent` | `Spec => []ClosedOnIndependentEvidence` |
| `ClosureProofs!LifecycleKept` | `Spec => LifecyclePromise`, a refinement |
| `ClosureProofs!ReportsKeptApart` | `Spec => ReportsByFourEyes`, a refinement |
| `FindingClosureProofs!TypeCorrect` | `Spec => []TypeOK` |
| `FindingClosureProofs!ClosuresRest` | `Spec => []ClosedOnRemedy` |
| `FindingClosureProofs!RetestersIndependent` | `Spec => []RetestsIndependent` |
| `FindingClosureProofs!DecisionsFinal` | `Spec => DecidedOnce` |
| `FindingClosureProofs!ClosesInTerm` | `Spec => ClosedInTerm` |
| `FindingClosureProofs!AcceptancesKeptApart` | `Spec => AcceptancesByFourEyes`, a refinement |
| `GovernanceProofs!TypeCorrect` | `Spec => []TypeOK` |
| `GovernanceProofs!StartsPrepared` | `Spec => []UnreadyOnlyLate` |
| `GovernanceProofs!PlansApprovedByOthers` | `Spec => []PlanApprovedIndependently` |
| `GovernanceProofs!DecisionsStay` | `Spec => DecisionsKept` |
| `GovernanceProofs!PlansKeptApart` | `Spec => PlansByFourEyes`, a refinement |
| `GovernanceProofs!SerialStartsIndependent` | `Spec /\ []Serial => []TestingIndependent` |
| `MembershipProofs!TypeCorrect` | `Spec => []TypeOK` |
| `MembershipProofs!Invariance` | the inductive invariant |
| `MembershipProofs!AdminLoss` | `Spec => []AdminLostOnlyByRace` |
| `MembershipProofs!InvitationsAreSingleUse` | `Spec => []SingleUse` |
| `MembershipProofs!MembersStay` | `Spec => NoSelfDeactivation` |
| `MembershipProofs!InvitationsAreGrants` | `Spec => InvitationPromise`, a refinement |
| `MembershipProofs!SerialRemovalsKeepAdmin` | `Spec /\ []OneRemoval => []AdminRetained` |
| `EvidencePortalProofs!Invariance` | the inductive invariant |
| `EvidencePortalProofs!TypeCorrect` | `Spec => []TypeOK` |
| `EvidencePortalProofs!CompletionsProven` | `Spec => []CompletedOnEvidence` |
| `EvidencePortalProofs!DigestsTrue` | `Spec => []DigestOfObject` |
| `EvidencePortalProofs!ClientsCredited` | `Spec => []ClientCredited` |
| `EvidencePortalProofs!UploadsVerified` | `Spec => VerifiedUpload` |
| `EvidencePortalProofs!ClientsWithin` | `Spec => WithinAssignment` |
| `EvidencePortalProofs!TestingOnly` | `Spec => OnlyInTesting`, for the operations it names |
| `EvidencePortalProofs!ObjectsStay` | `Spec => ObjectsKept` |
| `EvidencePortalProofs!UploadsAreGrants` | `Spec => UploadPromise`, a refinement |
| `EvidencePortalProofs!LocksAreOrdered` | `Spec => []LocksOrdered` |
| `EvidencePortalProofs!RequestsMoveForward` | `Spec => RequestsForward` |
| `EvidencePortalProofs!SerialClientsWithin` | `Spec /\ []Serial =>` what a client commits is for an open request assigned to them, with access |
| `RegistersProofs!Invariance` | the inductive invariant |
| `RegistersProofs!TypeCorrect` | `Spec => []TypeOK` |
| `RegistersProofs!Independence` | `Spec => []ApprovedIndependently` |
| `RegistersProofs!IdentityFirst` | `Spec => []VerifiedBeforeWork` |
| `RegistersProofs!NotifiedFirst` | `Spec => []BreachNotifiedBeforeClose` |
| `RegistersProofs!FileStays` | `Spec => []ActiveOnFile` |
| `RegistersProofs!MadeOnce` | `Spec => []CandidateMadeOnce` |
| `RegistersProofs!FinalKept` | `Spec => FinalStays` |
| `RegistersProofs!GroundedCommits` | `Spec => Grounded` |
| `RegistersProofs!ReviewsKeptApart` | `Spec => ReviewsByFourEyes`, a refinement |
| `RegistersProofs!SerialRegistersHold` | `Spec /\ []Serial =>` a request on hold is verified, an approval in force has its file |
| `SignInProofs!Invariance` | the inductive invariant |
| `SignInProofs!TypeCorrect` | `Spec => []TypeOK` |
| `SignInProofs!TokensSingleUse` | `Spec => []SingleUse` |
| `SignInProofs!IssueStaysLimited` | `Spec => []IssueLimited` |
| `SignInProofs!SessionsHonoured` | `Spec => SessionHonoured` |
| `SignInProofs!TokensAreGrants` | `Spec => TokenPromise`, a refinement |
| `SignInProofs!OvershootIsBounded` | `Spec => []OvershootBounded` |

Finalization. `SingleFreeze` is not inductive: it must be known that two freezes past the gate
cannot both reach their commit. The invariant says that the engagement row lock admits one
uncommitted update, that a freeze past its gate carries version 1 and found a CLOSED engagement,
that whoever holds uncommitted rows and is not blind looked after the freeze (so it holds none of
a guarded table), and that what a pending freeze's gate saw still holds except for rows in `late`.
`FrozenResolvedUnlessRaced` follows when the freeze commits, because the exceptions are exactly
`late`, and is kept because only blind transactions can add to `Unresolved` afterwards.

Closure. The gate looks at rows, the triggers of those rows looked at who wrote them, and each at
a time of its own. The invariant connects them: the columns a trigger compared (the preparer of a
workpaper, the generator of a report version) never change again, because a new workpaper has one
creator and a report version one uncommitted writer; what a written transaction has passed
stays true until it commits; and a CLOSED engagement keeps the rows the gate asked for. The
refinement then goes commit by commit: a change of status is a transition the abstract table
allows with all evidence on file, a freeze is of a CLOSED engagement, and every other commit only
gathers evidence.

FindingClosure. A retest and a closure rest on rows they do not lock. The invariant says that each
of these facts is final: a completion and an approval are written once, by the one transaction that
holds the row (`SingleWriters`), so what an unlocked read found, and what a trigger passed, still
holds at the commit (`Pending`).

Governance. What the gates asked for can be undone only by inserting a row about a member or a
requirement (`Kept`, `IndependentStays`): resolutions settle, decisions and approvals stay.
`StartPrepared` carries `UnreadyOnlyLate` from the moment the trigger has passed the gate, not only
from the commit. It needs that a check, a plan version and a selection are each inserted by one
transaction (`SingleWriters`) onto nothing (`Found`, `Passed`), or else an insert could replace a
row the gate had seen. `PlanApprovedIndependently` rests on an unlocked read of the creator; that
is enough because the creator of a version never changes.

Membership. `AdminLostOnlyByRace` needs, for each uncommitted removal, another administrator who
survives it. The invariant says that an uncommitted removal is of one row that no other transaction
has written, and that as long as `raced` is false it is the only removal and another administrator
is committed. `SingleUse` needs that at most one transaction holds an invitation, and that it is
PENDING while held. `NoSelfDeactivation` needs that a written update of the actor's own
membership does not deactivate it.

EvidencePortal. Each request has read its PBC request, its storage key and the engagement, and what it
read must be true when it commits or be noted in `changed`. `Held` says so for each operation, part by
part: a locked request (`OfRequest`) and a locked intent (`OfIntent`) cannot change, because `Apart`
keeps two transactions from holding one lock or inserting one key; a client's assignment (`OfClient`)
and the engagement (`OfEngagement`) can, and every commit that changes them is noticed. The object
(`OfObject`) has no lock: what GET has read is the object or the object is `overwritten`.
`CompletedOnEvidence` is then kept because evidence is never changed or withdrawn once it is there,
and `ObjectsKept` because nothing is registered while the engagement is in PLANNING or when it is
deleted (`Bare`), so a deletion that has something left to remove was overtaken (`OfDeletion`).

Registers. What a request writes is settled when it begins, so the invariant says of it in turn what
it may write at all (`Fits`), what it read and no operation ever changes (`Rests`), what it read and
holds unless it is `stale` (`Current`), and what its trigger has seen of the row it now has locked
(`Passed`). A property of a row is kept when the written columns and those kept from the locked row
together satisfy it; for updates that keep the status no trigger looks, and the exceptions in
`VerifiedBeforeWork` and `ActiveOnFile` are what is left.

SignIn. `SingleUse` needs that one transaction at a time has consumed a token (`OneConsumer`) and that
a token in its hands has opened nothing yet. `IssueLimited` is a count: the tokens issued for an address
in a window, together with the requests under way that have passed it (`Asking`), are at most the hits let
through (`LimitsHold`), and in a sliding window the tokens that were not overtaken are those the last of
them had counted (`SlicesHold`). `SessionHonoured` needs for each handler that the session it resolved
is valid or that it is late (`Knows`).

### Refinements

Each proof goes from `Init` to the abstract `Init` and from a step to an abstract step or a stutter,
with the inductive invariant of its module. `FourEyes` needs one thing more than the independence
invariants did: that an author, once on record, is never rewritten (`Recorded`, in `Registers`
`Authored`). In three modules that is because the row is inserted once, by the transaction that holds
its key; in `Registers` it is because every row on record names its maker and no edit writes that column,
so a reviewer who read it without a lock has read what is there when the review lands. `OneTimeGrant` needs that what a
grant gave is counted with it: the memberships of an invitation (`granted`), the sessions that name
a token, and for an upload that a FINALIZED intent has its evidence (`Spent`), so that no other
finalization or registration can put a row of its own in the place. Rolling back a consumption gives
the token back, and that is a stutter, because the token was never seen to be taken.

### One request at a time

The three violations and the exceptions that some properties name (`late`, `stale`, `changed`) are all
said to be due to overlaps. Five theorems prove it: under `[]Serial`, that no two transactions are ever
open together, the documents' own words hold without an exception (`FrozenNeverMutated`,
`TestingIndependent`, and the strict forms of `WithinAssignment`, `VerifiedBeforeWork` and
`ActiveOnFile`), and in `Membership` it is enough that at most one removal of an administrator is
uncommitted (`OneRemoval`). `Serial` constrains only who is open at once, not what is requested or
in which order. It is satisfiable: an instance with one session satisfies it in every behaviour, and
there TESTING, the freeze, a request on hold, an active processor and an upload by a client are all
reached. In `EvidencePortal` the browser's writes through a signed URL and the transitions of the
engagement are no transactions of this module, so they may still come between (`Undisturbed`).

### Bounds and order

`OvershootBounded` sharpens the exception of `IssueLimited`: requests that overtake each other between
their count and their insert send an address fewer than `LoginLimit` links plus the number of handlers
in any stretch of a window's length. The induction counts the tokens together with the requests that
have counted and not inserted yet (`Overshoot`): a count that lets a request through has found fewer
than `LoginLimit`, and whatever is inserted after the last such count is due to a handler that had counted
before, one token each. `RequestsForward` says that the
status of a PBC request and its fulfiller only move forward; it needs that a completion or a
cancellation under way holds the row of a request that is OPEN or IN_PROGRESS (`OfRequest`).

`LocksOrdered` is that no set of transactions around the evidence waits for each other: whoever waits is of
a higher rank than those it waits for, a transaction that has written being lowest and one that holds
a PBC request next. It is the one property of waiting for which the locks held before the statement
matter (a finalization holds its intent while it waits), and it rests on `Apart`: no two
transactions hold one request. In `Membership` an acceptance also waits with a lock in hand, for a
membership, but only for a transaction that has written, and those wait for nothing.

All these invariants were checked with TLC on the instances above before they were proved, and so were
the refinements (`UploadPromise` with two contents instead of three), `OvershootBounded` and `RequestsForward`. `LifecyclePromise` and
`InvitationPromise` stay among the runs; for the others the runs keep `ClosedOnIndependentEvidence`,
`PlanApprovedIndependently`, `ApprovedIndependently` and `SingleUse`, which relate the same columns to more.

Only model-checked: `EveryRequestEnds` (liveness under fairness is beyond this prover). Every other
property of a passing run is proved. The properties of the three violation runs are false as they stand;
the theorems above say under which hypothesis each is true.

## Findings

- `finalization_frozen`: `docs/DOMAIN-DESIGN.md:42` and `docs/RULES-CATALOG.md:15` say a frozen
  record cannot be silently mutated. A request whose statement ran before the freeze committed
  commits after it; the frozen engagement then holds rows its freeze gate never saw.
  `FrozenRowsOnlyRaced` and `FrozenResolvedUnlessRaced` say that this overlap is the only way.
- `governance_started`: `docs/AUDIT-METHODOLOGY.md:11` says an engagement must pass independence
  and conflict checks before assurance work proceeds. An assignment or a CONFLICT that commits after
  the start of testing has read its gates leaves TESTING with a member who is not independent, and
  no service can add or resolve a check then. `UnreadyOnlyLate` says that this overlap is the only way.
- `membership_admin`: two updates that remove two different administrators and overlap both
  commit, and the organization has none (`db/migrations/0020:162` says it must keep one).
  `AdminLostOnlyByRace` says that this overlap is the only way.

## Not modelled

- Isolation between organizations: every modelled request belongs to one organization, and the row
  level security of 0002 is a static predicate over the transaction's identity.
- The content of the execution of an engagement: texts of workpapers, populations, samples,
  procedures and test results, custody events and the evidence gate of a procedure. No gate of
  closure or freeze reads them, and no document says what an edit does to an approval.
- Post-audit: an archive is one insert behind the status check of its trigger; monitoring events
  and reassessment triggers are rows no gate reads.
- The audit log, domain events and notifications are append-only rows that commit with their change
  and are read by no gate, with the one exception named under Membership.
- AI, e-mail, HTTP routes and pages keep no state that a gate reads. The schema mirror and the
  scripts have no behaviour at run time.
- Formats, hashes and texts are abstracted.

## Plan

Proved next, in this order:

1. That `Governance` and `FindingClosure` hand over what `Finalization` assumes of its initial state: an
   engagement in TESTING whose findings are open, with its start prepared.
2. The serial form of `ClosedInTerm` and `SessionHonoured`, whose exceptions are a clock and a
   deactivation rather than a transaction.
3. The remaining helpers of the proofs (rows kept by a rollback, one writer per key) as lemmas of one
   shape in all modules, to shorten the longest proofs.

Modelled next:

1. `Execution`: versions of a workpaper against its reviews, sampling, and the coverage of the freeze
   triggers table by table.
2. `PostAudit`: archive, monitoring and reassessment, after `Finalization`.
3. Two organizations in `Membership` and `EvidencePortal`, with the policies of 0002.
