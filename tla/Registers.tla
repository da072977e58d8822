----------------------------- MODULE Registers -----------------------------
(***************************************************************************)
(* The registers of an organization that move through statuses: the        *)
(* privacy registers, alerts and assurance candidates                      *)
(* (src/src/domain/privacy over db/migrations/0013 to 0016), the           *)
(* compliance profile and what it obliges the organization to              *)
(* (src/src/domain/compliance/service.ts over 0017), and the alerts and    *)
(* source change impacts of compliance monitoring                          *)
(* (src/src/domain/compliance/monitoring-service.ts over 0018).            *)
(*                                                                         *)
(* Nearly every service function reads its row without a lock, checks what *)
(* it read, and then updates by id; a trigger looks at the row as it is by *)
(* then, but not when the status stays the same.  Requests are             *)
(* transactions as in FindingClosure: idle, checked, written, idle.        *)
(***************************************************************************)
EXTENDS Integers, FiniteSets, Rbac

CONSTANTS
  Users,        \* members of the organization
  RoleOf,       \* their membership roles
  Sessions,     \* pooled database connections, one transaction at a time
  Records,      \* ids of rows that may be inserted, of any register
  Layouts,      \* the registers they may belong to, one choice a behaviour
  None          \* no user, no record, a column an UPDATE does not name

ASSUME RoleAssumption == RoleOf \in [Users -> Roles]

Kinds ==
  {"ACTIVITY", "DPIA", "PROCESSOR", "TRANSFER", "RETENTION", "NOTICE",
   "CONSENT", "DSR", "BREACH", "ALERT", "CANDIDATE", "DUTY_ALERT", "IMPACT",
   "PROFILE", "DETERMINATION", "OBLIGATION"}

ASSUME LayoutAssumption == Layouts \subseteq [Records -> Kinds]

\* One obligation rule and one profile, hence one determination.
ASSUME OneProfileAssumption ==
  \A layout \in Layouts, k \in {"PROFILE", "DETERMINATION"}:
    \A x, y \in Records: layout[x] = k /\ layout[y] = k => x = y

\* The status columns' values, and none before the insert.  A notice has no
\* status: REGISTERED and RETIRED stand for its retired_at.
Statuses ==
  {"none", "DRAFT", "ACTIVE", "CLOSED", "UNDER_REVIEW", "ARCHIVED",
   "NOT_REQUIRED", "REQUIRED", "IN_PROGRESS", "APPROVED", "REJECTED",
   "PROSPECTIVE", "SUSPENDED", "REGISTERED", "RETIRED", "GIVEN", "WITHDRAWN",
   "RECEIVED", "IDENTITY_VERIFICATION", "ON_HOLD", "COMPLETED", "CANCELLED",
   "DETECTED", "TRIAGE", "INVESTIGATING", "CONTAINED",
   "NOTIFICATION_ASSESSMENT", "NOTIFIED", "OPEN", "ACKNOWLEDGED", "RESOLVED",
   "PROPOSED", "ACCEPTED", "ASSESSED", "APPLICABLE", "NOT_APPLICABLE",
   "REVIEW_REQUIRED"}

\* What the other columns establish: an activity's content was edited, a
\* DPIA's risk and mitigation summaries, a processor's contract, DPA and passed
\* security review, a transfer's risk assessment where its mechanism asks for
\* one, a request's verified identity and outcome, a breach's containment,
\* notification decision (one of the two) and notification dates, an alert's
\* acknowledgement or an impact's assessment; and that a compliance profile is
\* of the rule's jurisdiction and its facts are those the rule asks for.
Facts ==
  {"edited", "summaries", "vetted", "assessed", "verified", "outcome",
   "contained", "required", "dismissed", "notified", "acknowledged", "local",
   "established"}

\* The facts of a statement that names no such column.
Unnamed == {"unnamed"}

ASSUME NoneAssumption == None \notin Users \cup Records \cup Statuses

VARIABLES
  kind,         \* the register of each record
  row,          \* its row
  made,         \* candidates: the scope rows and PBC requests made of each
  frozen,       \* engagements.frozen_at of the candidates' engagement is set
  late,         \* some update of the row rested on a read that was stale
  tx            \* the transaction of each session

vars == <<kind, row, made, frozen, late, tx>>

-----------------------------------------------------------------------------
\* creator: created_by, proposed_by, validated_by or evaluated_by.  approver:
\* reviewed_by, approved_by, decided_by or resolved_by.
Row ==
  [status: Statuses, creator: Users \cup {None},
   approver: Users \cup {None}, facts: SUBSET Facts]

NoRow == [status |-> "none", creator |-> None, approver |-> None, facts |-> {}]

\* What a request writes: a value for each column its statement names.  from:
\* the statuses its statement or its locked read asks for.  reads: the rows
\* whose values, read without a lock, it goes on to use.  stale: one of them
\* has changed since.
Transaction ==
  [stage: {"idle", "checked", "written"}, on: Records \cup {None},
   from: SUBSET Statuses, status: Statuses \cup {None},
   creator: Users \cup {None}, approver: Users \cup {None},
   facts: SUBSET (Facts \cup Unnamed),
   reads: SUBSET Records, stale: BOOLEAN]

Idle ==
  [stage |-> "idle", on |-> None, from |-> {}, status |-> None,
   creator |-> None, approver |-> None, facts |-> Unnamed, reads |-> {},
   stale |-> FALSE]

TypeOK ==
  /\ kind \in [Records -> Kinds]
  /\ row \in [Records -> Row]
  /\ made \in [Records -> Nat]
  /\ frozen \in BOOLEAN
  /\ late \in [Records -> BOOLEAN]
  /\ tx \in [Sessions -> Transaction]

\* Mutant: the facts are written whether or not the statement names them.
WrittenWhole(r, old) ==
  [status   |-> IF r.status = None THEN old.status ELSE r.status,
   creator  |-> IF r.creator = None THEN old.creator ELSE r.creator,
   approver |-> IF r.approver = None THEN old.approver ELSE r.approver,
   facts    |-> r.facts]

\* The row after the UPDATE of a request.
Written(r, old) ==
  [status   |-> IF r.status = None THEN old.status ELSE r.status,
   creator  |-> IF r.creator = None THEN old.creator ELSE r.creator,
   approver |-> IF r.approver = None THEN old.approver ELSE r.approver,
   facts    |-> IF r.facts = Unnamed THEN old.facts ELSE r.facts]

-----------------------------------------------------------------------------
(* The triggers of 0014, 0015 and 0018.                                    *)

\* The transitions a status trigger lets through.  ARCHIVED and TERMINATED,
\* which no code writes over these rows, are left out.
Moves ==
  [ACTIVITY |->
     {<<"DRAFT", "ACTIVE">>, <<"ACTIVE", "UNDER_REVIEW">>,
      <<"ACTIVE", "CLOSED">>, <<"UNDER_REVIEW", "ACTIVE">>,
      <<"UNDER_REVIEW", "CLOSED">>},
   DPIA |->
     {<<"REQUIRED", "IN_PROGRESS">>, <<"REQUIRED", "REJECTED">>,
      <<"IN_PROGRESS", "APPROVED">>, <<"IN_PROGRESS", "REJECTED">>,
      <<"REJECTED", "IN_PROGRESS">>},
   PROCESSOR |->
     {<<"PROSPECTIVE", "ACTIVE">>, <<"ACTIVE", "SUSPENDED">>,
      <<"SUSPENDED", "ACTIVE">>},
   TRANSFER |->
     {<<"DRAFT", "UNDER_REVIEW">>, <<"UNDER_REVIEW", "ACTIVE">>,
      <<"UNDER_REVIEW", "DRAFT">>, <<"ACTIVE", "UNDER_REVIEW">>,
      <<"ACTIVE", "CLOSED">>},
   DSR |->
     {<<"RECEIVED", "IDENTITY_VERIFICATION">>,
      <<"IDENTITY_VERIFICATION", "IN_PROGRESS">>, <<"IN_PROGRESS", "ON_HOLD">>,
      <<"IN_PROGRESS", "COMPLETED">>, <<"ON_HOLD", "IN_PROGRESS">>} \cup
     ({"RECEIVED", "IDENTITY_VERIFICATION", "IN_PROGRESS", "ON_HOLD"} \X
        {"REJECTED", "CANCELLED"}),
   BREACH |->
     {<<"DETECTED", "TRIAGE">>, <<"TRIAGE", "INVESTIGATING">>,
      <<"INVESTIGATING", "CONTAINED">>,
      <<"INVESTIGATING", "NOTIFICATION_ASSESSMENT">>,
      <<"CONTAINED", "NOTIFICATION_ASSESSMENT">>,
      <<"NOTIFICATION_ASSESSMENT", "NOTIFIED">>,
      <<"NOTIFICATION_ASSESSMENT", "CLOSED">>, <<"NOTIFIED", "CLOSED">>},
   ALERT |->
     {<<"OPEN", "ACKNOWLEDGED">>, <<"OPEN", "RESOLVED">>,
      <<"ACKNOWLEDGED", "RESOLVED">>},
   DUTY_ALERT |-> {<<"OPEN", "ACKNOWLEDGED">>, <<"ACKNOWLEDGED", "RESOLVED">>},
   IMPACT |-> {<<"OPEN", "ASSESSED">>, <<"ASSESSED", "RESOLVED">>}]

\* Mutant: the status trigger of data subject requests is missing.
TriggeredButDsr == DOMAIN Moves \ {"DSR"}

Triggered == DOMAIN Moves

\* Approved by somebody, and not by its creator.
TwoPersons(new) == new.approver \notin {None, new.creator}

DsrComplete(new) ==
  /\ new.status \in {"IN_PROGRESS", "ON_HOLD", "COMPLETED"} =>
       "verified" \in new.facts
  /\ new.status = "COMPLETED" => "outcome" \in new.facts

BreachComplete(new) ==
  /\ new.status \in {"CONTAINED", "NOTIFICATION_ASSESSMENT", "NOTIFIED",
                     "CLOSED"} => "contained" \in new.facts
  /\ new.status \in {"NOTIFICATION_ASSESSMENT", "NOTIFIED", "CLOSED"} =>
       new.facts \cap {"required", "dismissed"} # {}
  /\ new.status = "NOTIFIED" => {"required", "notified"} \subseteq new.facts
  /\ new.status = "CLOSED" /\ "required" \in new.facts =>
       "notified" \in new.facts

\* What a trigger asks of the new row.
Complete(k, new) ==
  CASE k = "ACTIVITY"  -> new.status \in {"ACTIVE", "CLOSED"} =>
                            new.approver # None
    [] k = "DPIA"      -> new.status = "APPROVED" =>
                            TwoPersons(new) /\ "summaries" \in new.facts
    [] k = "PROCESSOR" -> new.status = "ACTIVE" =>
                            TwoPersons(new) /\ "vetted" \in new.facts
    [] k = "TRANSFER"  -> new.status = "ACTIVE" =>
                            TwoPersons(new) /\ "assessed" \in new.facts
    [] k = "DSR"       -> DsrComplete(new)
    [] k = "BREACH"    -> BreachComplete(new)
    [] OTHER           -> TRUE

\* A status trigger returns at once when the status stays the same.
TriggerAccepts(k, old, new) ==
  k \in Triggered /\ old.status \notin {"none", new.status} =>
    <<old.status, new.status>> \in Moves[k] /\ Complete(k, new)

-----------------------------------------------------------------------------
Init ==
  /\ kind \in Layouts
  /\ row = [x \in Records |-> NoRow]
  /\ made = [x \in Records |-> 0]
  /\ frozen = FALSE
  /\ late = [x \in Records |-> FALSE]
  /\ tx = [s \in Sessions |-> Idle]

-----------------------------------------------------------------------------
(* Requests.                                                               *)

Begin(s, u, permission, r) ==
  /\ tx[s].stage = "idle"
  /\ HasPermission(RoleOf[u], permission)
  /\ tx' = [tx EXCEPT ![s] = r]
  /\ UNCHANGED <<kind, row, made, frozen, late>>

\* Of two inserts of one id, alert key or candidate the second is refused.
Insert(s, u, permission, x, k, status, facts) ==
  /\ kind[x] = k /\ row[x].status = "none"
  /\ Begin(s, u, permission,
           [Idle EXCEPT !.stage = "checked", !.on = x, !.from = {"none"},
                        !.status = status, !.creator = u, !.facts = facts])

CreateProcessingActivity(s, u, x) ==
  Insert(s, u, "privacy.manage", x, "ACTIVITY", "DRAFT", {})

\* What validateDpia lets a new assessment be: approval is an operation.
NewDpiaDecisions == {"NOT_REQUIRED", "REQUIRED", "IN_PROGRESS", "REJECTED"}

\* The activity it is for is on record: activities are never deleted.
CreateDpiaAssessment(s, u, x) ==
  \E decision \in NewDpiaDecisions, facts \in SUBSET {"summaries"}:
    Insert(s, u, "privacy.manage", x, "DPIA", decision, facts)

\* The contract, DPA and security review validateProcessor lets be left out.
ProcessorFiles == SUBSET {"vetted"}

RegisterProcessor(s, u, x) ==
  \E facts \in ProcessorFiles:
    Insert(s, u, "privacy.manage", x, "PROCESSOR", "PROSPECTIVE", facts)

\* The risk assessment validateTransfer lets be left out of a draft.
TransferFiles == SUBSET {"assessed"}

CreateInternationalTransfer(s, u, x) ==
  \E facts \in TransferFiles:
    Insert(s, u, "privacy.manage", x, "TRANSFER", "DRAFT", facts)

CreateRetentionRule(s, u, x) ==
  Insert(s, u, "privacy.manage", x, "RETENTION", "ACTIVE", {})

RegisterPrivacyNotice(s, u, x) ==
  Insert(s, u, "privacy.manage", x, "NOTICE", "REGISTERED", {})

CreateDataSubjectRequest(s, u, x) ==
  Insert(s, u, "privacy.dsr.manage", x, "DSR", "RECEIVED", {})

\* notificationRequired is true, false or not given: validateBreach.
NotificationDecisions == {{}, {"required"}, {"dismissed"}}

RecordPrivacyBreach(s, u, x) ==
  \E facts \in NotificationDecisions:
    Insert(s, u, "privacy.breach.manage", x, "BREACH", "DETECTED", facts)

\* The alert of a record whose due date has passed.
RefreshPrivacyAlerts(s, u, x) ==
  Insert(s, u, "privacy.alerts.manage", x, "ALERT", "OPEN", {})

RefreshComplianceAlerts(s, u, x) ==
  Insert(s, u, "compliance.monitoring.manage", x, "DUTY_ALERT", "OPEN", {})

ProposeCandidate(s, u, x) ==
  Insert(s, u, "privacy.assurance.propose", x, "CANDIDATE", "PROPOSED", {})

\* Mutant: only the approval of the notice is looked at.
RecordConsentRetired(s, u, x, notice) ==
  /\ kind[x] = "CONSENT" /\ row[x].status = "none"
  /\ kind[notice] = "NOTICE" /\ row[notice].approver # None
  /\ Begin(s, u, "privacy.manage",
           [Idle EXCEPT !.stage = "checked", !.on = x, !.from = {"none"},
                        !.status = "GIVEN", !.reads = {notice}])

\* A consent given on a notice; one without promises nothing.
RecordConsent(s, u, x, notice) ==
  /\ kind[x] = "CONSENT" /\ row[x].status = "none"
  /\ kind[notice] = "NOTICE"
  /\ row[notice].approver # None /\ row[notice].status # "RETIRED"
  /\ Begin(s, u, "privacy.manage",
           [Idle EXCEPT !.stage = "checked", !.on = x, !.from = {"none"},
                        !.status = "GIVEN", !.reads = {notice}])

\* The facts a profile is created with: its jurisdiction is the rule's or not.
CreateComplianceProfile(s, u, x) ==
  \E facts \in SUBSET {"local"}:
    Insert(s, u, "compliance.profile.manage", x, "PROFILE", "ACTIVE", facts)

\* evaluate_obligation_rule: "Missing/nonmatching facts are not silently
\* interpreted as non-applicability."
Result(facts) ==
  IF "local" \notin facts THEN "NOT_APPLICABLE"
  ELSE IF "established" \in facts THEN "APPLICABLE"
  ELSE "REVIEW_REQUIRED"

\* An upsert of what follows from the profile and its facts as read.
EvaluateApplicability(s, u, x, profile) ==
  /\ kind[x] = "DETERMINATION"
  /\ kind[profile] = "PROFILE" /\ row[profile].status = "ACTIVE"
  /\ Begin(s, u, "compliance.applicability.evaluate",
           [Idle EXCEPT !.stage = "checked", !.on = x, !.from = Statuses,
                        !.status = Result(row[profile].facts), !.creator = u,
                        !.facts = {}, !.reads = {profile}])

MaterializeObligation(s, u, x, determination) ==
  /\ kind[x] = "OBLIGATION" /\ row[x].status = "none"
  /\ kind[determination] = "DETERMINATION"
  /\ row[determination].status = "APPLICABLE"
  /\ Begin(s, u, "compliance.obligation.materialize",
           [Idle EXCEPT !.stage = "checked", !.on = x, !.from = {"none"},
                        !.status = "OPEN", !.creator = u, !.facts = {},
                        !.reads = {determination}])

\* A request about row x as read: its status is one of those given, and the
\* statement will be an UPDATE by id.
Read(x, k, statuses) == kind[x] = k /\ row[x].status \in statuses

\* A request to set the status, the approver and the facts of x.
Sets(x, status, approver, facts) ==
  [Idle EXCEPT !.stage = "checked", !.on = x, !.from = Statuses \ {"none"},
               !.status = status, !.approver = approver, !.facts = facts,
               !.reads = {x}]

\* Mutant: the creator may approve.
ActivateOwnProcessingActivity(s, u, x) ==
  /\ Read(x, "ACTIVITY", {"DRAFT"})
  /\ Begin(s, u, "privacy.approve", Sets(x, "ACTIVE", u, Unnamed))

ActivateProcessingActivity(s, u, x) ==
  /\ Read(x, "ACTIVITY", {"DRAFT"}) /\ row[x].creator # u
  /\ Begin(s, u, "privacy.approve", Sets(x, "ACTIVE", u, Unnamed))

CloseProcessingActivity(s, u, x) ==
  /\ Read(x, "ACTIVITY", {"ACTIVE"})
  /\ Begin(s, u, "privacy.manage", Sets(x, "CLOSED", None, Unnamed))

UpdateDraftProcessingActivity(s, u, x) ==
  /\ Read(x, "ACTIVITY", {"DRAFT"})
  /\ Begin(s, u, "privacy.manage", Sets(x, None, None, {"edited"}))

StartDpiaAssessment(s, u, x) ==
  /\ Read(x, "DPIA", {"REQUIRED", "REJECTED"})
  /\ Begin(s, u, "privacy.manage", Sets(x, "IN_PROGRESS", None, Unnamed))

ApproveInProgressDpia(s, u, x) ==
  /\ Read(x, "DPIA", {"IN_PROGRESS"}) /\ row[x].creator # u
  /\ Begin(s, u, "privacy.approve", Sets(x, "APPROVED", u, Unnamed))

\* Of the service, though no route of today calls it: it leaves a decision that
\* is not being worked on to the trigger.
ApproveDpiaAssessment(s, u, x) ==
  /\ Read(x, "DPIA", {"REQUIRED", "IN_PROGRESS", "REJECTED"})
  /\ row[x].creator # u
  /\ Begin(s, u, "privacy.approve", Sets(x, "APPROVED", u, Unnamed))

ActivateProcessor(s, u, x) ==
  /\ Read(x, "PROCESSOR", {"PROSPECTIVE", "SUSPENDED"}) /\ row[x].creator # u
  /\ Begin(s, u, "privacy.approve", Sets(x, "ACTIVE", u, Unnamed))

SuspendProcessor(s, u, x) ==
  /\ Read(x, "PROCESSOR", {"ACTIVE"})
  /\ Begin(s, u, "privacy.manage", Sets(x, "SUSPENDED", None, Unnamed))

\* Mutant: an ACTIVE processor may be edited.
UpdateActiveProcessor(s, u, x) ==
  /\ Read(x, "PROCESSOR", {"PROSPECTIVE", "ACTIVE", "SUSPENDED"})
  /\ \E facts \in ProcessorFiles:
       Begin(s, u, "privacy.manage", Sets(x, None, None, facts))

UpdateProcessorDueDiligence(s, u, x) ==
  /\ Read(x, "PROCESSOR", {"PROSPECTIVE", "SUSPENDED"})
  /\ \E facts \in ProcessorFiles:
       Begin(s, u, "privacy.manage", Sets(x, None, None, facts))

\* The service leaves the status to the trigger.
SubmitTransferForReview(s, u, x) ==
  /\ Read(x, "TRANSFER", Statuses \ {"none"})
  /\ Begin(s, u, "privacy.manage", Sets(x, "UNDER_REVIEW", None, Unnamed))

ApproveTransfer(s, u, x) ==
  /\ Read(x, "TRANSFER", {"UNDER_REVIEW"}) /\ row[x].creator # u
  /\ Begin(s, u, "privacy.approve", Sets(x, "ACTIVE", u, Unnamed))

CloseTransfer(s, u, x) ==
  /\ Read(x, "TRANSFER", {"ACTIVE"})
  /\ Begin(s, u, "privacy.manage", Sets(x, "CLOSED", None, Unnamed))

UpdateDraftInternationalTransfer(s, u, x) ==
  /\ Read(x, "TRANSFER", {"DRAFT"})
  /\ \E facts \in TransferFiles:
       Begin(s, u, "privacy.manage", Sets(x, None, None, facts))

RetireRetentionRule(s, u, x) ==
  /\ Read(x, "RETENTION", {"ACTIVE"})
  /\ Begin(s, u, "privacy.manage", Sets(x, "ARCHIVED", None, Unnamed))

\* Of a retired notice as well.
ApprovePrivacyNotice(s, u, x) ==
  /\ Read(x, "NOTICE", {"REGISTERED", "RETIRED"}) /\ row[x].creator # u
  /\ Begin(s, u, "privacy.approve", Sets(x, None, u, Unnamed))

RetirePrivacyNotice(s, u, x) ==
  /\ Read(x, "NOTICE", {"REGISTERED"}) /\ row[x].approver # None
  /\ Begin(s, u, "privacy.manage", Sets(x, "RETIRED", None, Unnamed))

WithdrawConsent(s, u, x) ==
  /\ Read(x, "CONSENT", {"GIVEN"})
  /\ Begin(s, u, "privacy.manage", Sets(x, "WITHDRAWN", None, Unnamed))

\* permittedTransitions of transitionDsr.
DsrTransitions ==
  {<<"RECEIVED", "IDENTITY_VERIFICATION">>,
   <<"IDENTITY_VERIFICATION", "IN_PROGRESS">>,
   <<"IDENTITY_VERIFICATION", "ON_HOLD">>,
   <<"IDENTITY_VERIFICATION", "REJECTED">>,
   <<"ON_HOLD", "IN_PROGRESS">>, <<"ON_HOLD", "CANCELLED">>,
   <<"IN_PROGRESS", "ON_HOLD">>, <<"IN_PROGRESS", "COMPLETED">>,
   <<"IN_PROGRESS", "REJECTED">>}

\* given: what the request adds; the row read fills in the rest.
TransitionDsr(s, u, x, status, given) ==
  LET facts == row[x].facts \cup given IN
  /\ kind[x] = "DSR" /\ <<row[x].status, status>> \in DsrTransitions
  /\ status \in {"IN_PROGRESS", "COMPLETED"} => "verified" \in facts
  /\ status \in {"COMPLETED", "REJECTED", "CANCELLED"} => "outcome" \in given
  /\ Begin(s, u, "privacy.dsr.manage", Sets(x, status, None, facts))

\* permittedTransitions of transitionPrivacyBreach.
BreachTransitions ==
  {<<"DETECTED", "TRIAGE">>, <<"TRIAGE", "INVESTIGATING">>,
   <<"INVESTIGATING", "CONTAINED">>,
   <<"CONTAINED", "NOTIFICATION_ASSESSMENT">>,
   <<"NOTIFICATION_ASSESSMENT", "NOTIFIED">>,
   <<"NOTIFICATION_ASSESSMENT", "CLOSED">>, <<"NOTIFIED", "CLOSED">>}

\* A decision in the request replaces the decision read.
Decided(facts, given) ==
  IF given \cap {"required", "dismissed"} = {} THEN facts \cup given
  ELSE (facts \ {"required", "dismissed"}) \cup given

\* Mutant: the containment need not be on record.
TransitionUncontainedBreach(s, u, x, status, given) ==
  LET facts == Decided(row[x].facts, given) IN
  /\ kind[x] = "BREACH" /\ <<row[x].status, status>> \in BreachTransitions
  /\ status = "NOTIFICATION_ASSESSMENT" =>
       facts \cap {"required", "dismissed"} # {}
  /\ status = "NOTIFIED" => {"required", "notified"} \subseteq facts
  /\ status = "CLOSED" /\ row[x].status = "NOTIFICATION_ASSESSMENT" =>
       "dismissed" \in facts
  /\ Begin(s, u, "privacy.breach.manage", Sets(x, status, None, facts))

TransitionPrivacyBreach(s, u, x, status, given) ==
  LET facts == Decided(row[x].facts, given) IN
  /\ kind[x] = "BREACH" /\ <<row[x].status, status>> \in BreachTransitions
  /\ status \in {"CONTAINED", "NOTIFICATION_ASSESSMENT", "NOTIFIED",
                 "CLOSED"} => "contained" \in facts
  /\ status = "NOTIFICATION_ASSESSMENT" =>
       facts \cap {"required", "dismissed"} # {}
  /\ status = "NOTIFIED" => {"required", "notified"} \subseteq facts
  /\ status = "CLOSED" /\ row[x].status = "NOTIFICATION_ASSESSMENT" =>
       "dismissed" \in facts
  /\ Begin(s, u, "privacy.breach.manage", Sets(x, status, None, facts))

AcknowledgePrivacyAlert(s, u, x) ==
  /\ Read(x, "ALERT", {"OPEN"})
  /\ Begin(s, u, "privacy.alerts.manage",
           Sets(x, "ACKNOWLEDGED", None, {"acknowledged"}))

ResolvePrivacyAlert(s, u, x) ==
  /\ Read(x, "ALERT", {"OPEN", "ACKNOWLEDGED"})
  /\ Begin(s, u, "privacy.alerts.manage", Sets(x, "RESOLVED", u, Unnamed))

\* A request whose statement, or locked read, asks for the status itself: it
\* uses nothing it read without the lock.
Updates(x, from, status, approver, facts) ==
  [Sets(x, status, approver, facts) EXCEPT !.from = {from}, !.reads = {}]

\* Mutant: the SQL functions decide whatever status they find.
DecideCandidateAgain(s, u, x, decision) ==
  /\ Read(x, "CANDIDATE", {"PROPOSED"}) /\ row[x].creator # u
  /\ Begin(s, u, "privacy.assurance.decide", Sets(x, decision, u, Unnamed))

\* acceptPrivacyAssuranceCandidate, rejectPrivacyAssuranceCandidate.
DecideCandidate(s, u, x, decision) ==
  /\ Read(x, "CANDIDATE", {"PROPOSED"}) /\ row[x].creator # u
  /\ Begin(s, u, "privacy.assurance.decide",
           Updates(x, "PROPOSED", decision, u, Unnamed))

AcknowledgeComplianceAlert(s, u, x) ==
  /\ kind[x] = "DUTY_ALERT"
  /\ Begin(s, u, "compliance.monitoring.manage",
           Updates(x, "OPEN", "ACKNOWLEDGED", None, {"acknowledged"}))

ResolveComplianceAlert(s, u, x) ==
  /\ kind[x] = "DUTY_ALERT"
  /\ Begin(s, u, "compliance.monitoring.manage",
           Updates(x, "ACKNOWLEDGED", "RESOLVED", u, Unnamed))

AssessSourceChangeImpact(s, u, x) ==
  /\ kind[x] = "IMPACT"
  /\ Begin(s, u, "compliance.monitoring.manage",
           Updates(x, "OPEN", "ASSESSED", None, {"acknowledged"}))

ResolveSourceChangeImpact(s, u, x) ==
  /\ kind[x] = "IMPACT"
  /\ Begin(s, u, "compliance.monitoring.manage",
           Updates(x, "ASSESSED", "RESOLVED", u, Unnamed))

\* Every fact but the jurisdiction may be set again; it is an upsert.
SetComplianceProfileFact(s, u, x) ==
  /\ kind[x] = "PROFILE" /\ row[x].status # "none"
  /\ \E given \in SUBSET {"established"}:
       Begin(s, u, "compliance.profile.manage",
             Updates(x, "ACTIVE", None, None,
                     (row[x].facts \cap {"local"}) \cup given))

-----------------------------------------------------------------------------
(* Statements, triggers and commits.                                       *)

\* The row, or the key of an insert, is locked until the commit.
Blocked(s) ==
  \E t \in Sessions \ {s}: tx[t].stage = "written" /\ tx[t].on = tx[s].on

Accepts(r) ==
  r.status \in {"PROPOSED", "ACCEPTED"} /\ kind[r.on] = "CANDIDATE"

Passes(r) ==
  /\ row[r.on].status \in r.from
  /\ TriggerAccepts(kind[r.on], row[r.on], Written(r, row[r.on]))
  /\ Accepts(r) => ~frozen

Execute(s) ==
  /\ tx[s].stage = "checked"
  /\ ~Blocked(s)
  /\ Passes(tx[s])
  /\ tx' = [tx EXCEPT ![s].stage = "written"]
  /\ UNCHANGED <<kind, row, made, frozen, late>>

\* Passes is false, the input is refused, or the connection is lost.
Fail(s) ==
  /\ tx[s].stage # "idle"
  /\ tx' = [tx EXCEPT ![s] = Idle]
  /\ UNCHANGED <<kind, row, made, frozen, late>>

\* The named columns change; who read the row before uses what is now stale.
Commit(s) ==
  LET r == tx[s] x == r.on IN
  /\ r.stage = "written"
  /\ row' = [row EXCEPT ![x] = Written(r, @)]
  /\ late' = [late EXCEPT ![x] = @ \/ r.stale]
  /\ made' = [made EXCEPT ![x] = IF r.status = "ACCEPTED" THEN @ + 1 ELSE @]
  /\ tx' = [t \in Sessions |->
              IF t = s THEN Idle
              ELSE IF x \in tx[t].reads THEN [tx[t] EXCEPT !.stale = TRUE]
              ELSE tx[t]]
  /\ UNCHANGED <<kind, frozen>>

\* materialize_source_change_impacts, which no service calls, inserts an
\* impact.
MaterializeImpact(x) ==
  /\ kind[x] = "IMPACT" /\ row[x].status = "none"
  /\ row' = [row EXCEPT ![x].status = "OPEN"]
  /\ UNCHANGED <<kind, made, frozen, late, tx>>

\* The engagement of the candidates is frozen (Finalization).
Freeze ==
  /\ ~frozen /\ \E x \in Records: kind[x] = "CANDIDATE"
  /\ frozen' = TRUE
  /\ UNCHANGED <<kind, row, made, late, tx>>

\* The actions of the privacy API that insert and edit.
EditsRegister(s, u, x) ==
  \/ CreateProcessingActivity(s, u, x) \/ UpdateDraftProcessingActivity(s, u, x)
  \/ CreateDpiaAssessment(s, u, x) \/ RegisterProcessor(s, u, x)
  \/ CreateInternationalTransfer(s, u, x)
  \/ UpdateDraftInternationalTransfer(s, u, x)
  \/ CreateDataSubjectRequest(s, u, x) \/ RecordPrivacyBreach(s, u, x)

\* Those that change a status.
MovesRegister(s, u, x) ==
  \/ ActivateProcessingActivity(s, u, x) \/ CloseProcessingActivity(s, u, x)
  \/ StartDpiaAssessment(s, u, x) \/ ApproveInProgressDpia(s, u, x)
  \/ ApproveDpiaAssessment(s, u, x)
  \/ ActivateProcessor(s, u, x) \/ SuspendProcessor(s, u, x)
  \/ UpdateProcessorDueDiligence(s, u, x)
  \/ SubmitTransferForReview(s, u, x) \/ ApproveTransfer(s, u, x)
  \/ CloseTransfer(s, u, x)
  \/ \E status \in Statuses, given \in SUBSET {"verified", "outcome"}:
       TransitionDsr(s, u, x, status, given)
  \/ \E status \in Statuses,
        given \in SUBSET {"contained", "required", "dismissed", "notified"}:
       /\ ~{"required", "dismissed"} \subseteq given
       /\ TransitionPrivacyBreach(s, u, x, status, given)

\* Candidates, retention rules, notices, consents and alerts.
Operates(s, u, x) ==
  \/ ProposeCandidate(s, u, x)
  \/ \E decision \in {"ACCEPTED", "REJECTED"}: DecideCandidate(s, u, x, decision)
  \/ CreateRetentionRule(s, u, x) \/ RetireRetentionRule(s, u, x)
  \/ RegisterPrivacyNotice(s, u, x) \/ ApprovePrivacyNotice(s, u, x)
  \/ RetirePrivacyNotice(s, u, x)
  \/ \E notice \in Records: RecordConsent(s, u, x, notice)
  \/ WithdrawConsent(s, u, x)
  \/ RefreshPrivacyAlerts(s, u, x) \/ AcknowledgePrivacyAlert(s, u, x)
  \/ ResolvePrivacyAlert(s, u, x)

\* The compliance API.
Obliges(s, u, x) ==
  \/ CreateComplianceProfile(s, u, x) \/ SetComplianceProfileFact(s, u, x)
  \/ \E y \in Records: EvaluateApplicability(s, u, x, y)
                      \/ MaterializeObligation(s, u, x, y)

\* The compliance monitoring API.
Monitors(s, u, x) ==
  \/ RefreshComplianceAlerts(s, u, x) \/ AcknowledgeComplianceAlert(s, u, x)
  \/ ResolveComplianceAlert(s, u, x) \/ AssessSourceChangeImpact(s, u, x)
  \/ ResolveSourceChangeImpact(s, u, x)

Request(s) ==
  \E u \in Users, x \in Records:
    \/ EditsRegister(s, u, x) \/ MovesRegister(s, u, x)
    \/ Operates(s, u, x) \/ Obliges(s, u, x) \/ Monitors(s, u, x)

Next ==
  \/ \E s \in Sessions: Request(s) \/ Execute(s) \/ Commit(s) \/ Fail(s)
  \/ \E x \in Records: MaterializeImpact(x)
  \/ Freeze

Spec == Init /\ [][Next]_vars

-----------------------------------------------------------------------------
(***************************************************************************)
(* Properties.                                                             *)
(***************************************************************************)

\* The statuses that say a second person approved or decided.
ApprovedStatuses ==
  [k \in Kinds |->
     CASE k = "ACTIVITY"  -> {"ACTIVE", "CLOSED"}
       [] k = "DPIA"      -> {"APPROVED"}
       [] k = "PROCESSOR" -> {"ACTIVE", "SUSPENDED"}
       [] k = "TRANSFER"  -> {"ACTIVE", "CLOSED"}
       [] k = "NOTICE"    -> {"RETIRED"}
       [] k = "CANDIDATE" -> {"ACCEPTED", "REJECTED"}
       [] OTHER           -> {}]

\* "Processing activity creator cannot approve the same processing activity",
\* and so for DPIAs, processors, transfers, notices and candidates: whatever
\* requests overlap, what counts as approved or decided was approved, and
\* never by whoever made it.
ApprovedIndependently ==
  \A x \in Records:
    /\ row[x].status \in ApprovedStatuses[kind[x]] => row[x].approver # None
    /\ kind[x] \in {"ACTIVITY", "DPIA", "PROCESSOR", "TRANSFER", "NOTICE",
                    "CANDIDATE"} /\ row[x].approver # None =>
         row[x].approver # row[x].creator

\* As a protocol, these registers are approved by four eyes (FourEyes): who
\* made a row is never rewritten, by edits of it or otherwise, and no
\* approval is withdrawn.
Reviewed(x) ==
  kind[x] \in {"ACTIVITY", "DPIA", "PROCESSOR", "TRANSFER", "NOTICE",
               "CANDIDATE"}

Reviews ==
  INSTANCE FourEyes
    WITH People <- Users, Items <- Records,
         author <-
           [x \in Records |-> IF Reviewed(x) THEN row[x].creator ELSE None],
         approver <-
           [x \in Records |-> IF Reviewed(x) THEN row[x].approver ELSE None]

ReviewsByFourEyes == Reviews!Spec

\* "Identity verification must be recorded before processing or completing a
\* DSR": it is on record while a request is processed and after it is
\* completed, with an outcome, although an overlapping update may write the
\* row as it was before.  A request on hold may lose it so, and only so.
VerifiedBeforeWork ==
  \A x \in Records: kind[x] = "DSR" =>
    /\ row[x].status \in {"IN_PROGRESS", "COMPLETED"} =>
         "verified" \in row[x].facts
    /\ row[x].status = "ON_HOLD" => "verified" \in row[x].facts \/ late[x]
    /\ row[x].status = "COMPLETED" => "outcome" \in row[x].facts

\* "Notifiable breach cannot close without notification timestamp": a breach
\* that is NOTIFIED, or CLOSED with a decision to notify, was notified, and
\* from CONTAINED on the containment is on record.
BreachNotifiedBeforeClose ==
  \A x \in Records: kind[x] = "BREACH" =>
    /\ row[x].status = "NOTIFIED" => {"required", "notified"} \subseteq row[x].facts
    /\ row[x].status = "CLOSED" =>
         "dismissed" \in row[x].facts \/ "notified" \in row[x].facts
    /\ row[x].status \in {"CONTAINED", "NOTIFICATION_ASSESSMENT", "NOTIFIED",
                          "CLOSED"} => "contained" \in row[x].facts

\* The file behind an approval stays while it is in force: an ACTIVE processor
\* has its contract, DPA and passed security review, an ACTIVE transfer its
\* assessment and an APPROVED DPIA its summaries, unless an edit that had
\* read the row before the approval landed after it.
ActiveOnFile ==
  \A x \in Records:
    \/ late[x]
    \/ /\ kind[x] = "PROCESSOR" /\ row[x].status = "ACTIVE" =>
            "vetted" \in row[x].facts
       /\ kind[x] = "TRANSFER" /\ row[x].status = "ACTIVE" =>
            "assessed" \in row[x].facts
       /\ kind[x] = "DPIA" /\ row[x].status = "APPROVED" =>
            "summaries" \in row[x].facts

\* A candidate is decided once: it has made one scope or PBC request when it
\* is ACCEPTED and none otherwise, however many decisions overlap.
CandidateMadeOnce ==
  \A x \in Records:
    made[x] = IF kind[x] = "CANDIDATE" /\ row[x].status = "ACCEPTED"
              THEN 1 ELSE 0

\* The statuses no operation leaves.
FinalStatuses ==
  {"CLOSED", "ARCHIVED", "RETIRED", "WITHDRAWN", "COMPLETED", "REJECTED",
   "CANCELLED", "RESOLVED", "ACCEPTED"}

\* What is closed, decided or resolved keeps its status whatever requests are
\* under way (a REJECTED DPIA may be taken up again), and what is on record
\* with it changes only by a request that had read the row before.  A retired
\* notice may be approved again.
FinalStays ==
  [][\A x \in Records:
       row[x].status \in FinalStatuses
         /\ ~(kind[x] = "DPIA" /\ row[x].status = "REJECTED") =>
           /\ row'[x].status = row[x].status
           /\ \/ row'[x] = row[x]
              \/ kind[x] = "NOTICE"
              \/ \E s \in Sessions:
                   tx[s].stage = "written" /\ tx[s].on = x /\ tx[s].stale]_vars

\* What a commit rests on in another register.  "Consent must reference an
\* approved privacy notice" and "Consent cannot reference a retired privacy
\* notice"; an APPLICABLE determination on facts of the profile that establish
\* every condition; "due dates derived only from an APPLICABLE determination"
\* (0017).  Nothing is locked, so it holds of the rows as they are at the
\* commit unless one of them changed after it was read.
Grounded ==
  [][\A s \in Sessions:
       tx[s].stage = "written" /\ tx'[s] = Idle /\ row' # row
         /\ ~tx[s].stale =>
           \A y \in tx[s].reads:
             /\ tx[s].status = "GIVEN" =>
                  row[y].approver # None /\ row[y].status # "RETIRED"
             /\ tx[s].status = "APPLICABLE" =>
                  {"local", "established"} \subseteq row[y].facts
             /\ kind[tx[s].on] = "OBLIGATION" => row[y].status = "APPLICABLE"]_vars

=============================================================================
