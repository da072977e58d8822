-------------------------- MODULE RegistersProofs --------------------------
(***************************************************************************)
(* Proofs about Registers, for any users, sessions, records and layouts.   *)
(*                                                                         *)
(* What a request writes is settled when it begins; what it read may       *)
(* change until it commits.  So the invariant splits what is known of a    *)
(* request under way: what its register makes of it, whatever the rows     *)
(* (Fits), what it read that never changes again (Rests), what it read     *)
(* that holds unless it is stale (Current), and what the trigger saw of    *)
(* the row it has locked (Passed).                                         *)
(***************************************************************************)
EXTENDS Registers, TLAPS

-----------------------------------------------------------------------------
(* The inductive invariant.                                                *)

\* The registers whose rows a second person approves or decides.
TwoPersonKinds ==
  {"ACTIVITY", "DPIA", "PROCESSOR", "TRANSFER", "NOTICE", "CANDIDATE"}

\* The status of a new row.
StartsAs(k, status) ==
  /\ k = "ACTIVITY" => status = "DRAFT"
  /\ k = "DPIA" => status # "APPROVED"
  /\ k = "PROCESSOR" => status = "PROSPECTIVE"
  /\ k = "TRANSFER" => status = "DRAFT"
  /\ k = "RETENTION" => status = "ACTIVE"
  /\ k = "NOTICE" => status = "REGISTERED"
  /\ k = "CONSENT" => status = "GIVEN"
  /\ k = "DSR" => status = "RECEIVED"
  /\ k = "BREACH" => status = "DETECTED"
  /\ k = "CANDIDATE" => status = "PROPOSED"
  /\ k \notin {"DETERMINATION", "IMPACT"}
  /\ status \notin {None, "none", "ACCEPTED"}

InsertFits(r, k) ==
  r.from = {"none"} /\ r.approver = None /\ StartsAs(k, r.status)

Results == {"APPLICABLE", "NOT_APPLICABLE", "REVIEW_REQUIRED"}

UpsertFits(r, k) ==
  k = "DETERMINATION" /\ r.approver = None /\ r.status \in Results

DsrFits(r) ==
  /\ r.facts # Unnamed /\ r.status # None
  /\ r.status \in {"IN_PROGRESS", "COMPLETED"} => "verified" \in r.facts
  /\ r.status = "COMPLETED" => "outcome" \in r.facts

BreachFits(r) ==
  /\ r.facts # Unnamed /\ r.status # None
  /\ r.status = "NOTIFIED" => {"required", "notified"} \subseteq r.facts
  /\ r.status = "CLOSED" => "dismissed" \in r.facts \/ "notified" \in r.facts
  /\ r.status \in {"CONTAINED", "NOTIFICATION_ASSESSMENT", "NOTIFIED",
                   "CLOSED"} => "contained" \in r.facts

ChangeFits(r, k) ==
  /\ "none" \notin r.from /\ r.creator = None /\ r.status # "none"
  /\ r.status = "ACCEPTED" => k = "CANDIDATE"
  /\ k = "CANDIDATE" => /\ r.from = {"PROPOSED"} /\ r.approver # None
                        /\ r.status \in {"ACCEPTED", "REJECTED"}
  /\ k \in {"PROCESSOR", "TRANSFER"} => r.status = None \/ r.facts = Unnamed
  /\ k = "DPIA" => r.facts = Unnamed
  /\ k = "RETENTION" => r.status = "ARCHIVED"
  /\ k = "CONSENT" => r.status = "WITHDRAWN"
  /\ k = "NOTICE" => r.status \in {None, "RETIRED"}
  /\ k = "DSR" => DsrFits(r)
  /\ k = "BREACH" => BreachFits(r)
  /\ k # "DETERMINATION"
  /\ k \in {"PROFILE", "OBLIGATION"} => r.on \notin r.reads
  /\ r.on \notin r.reads =>
       /\ r.from \cap FinalStatuses = {}
       /\ k \notin {"PROCESSOR", "TRANSFER", "DSR"}

\* What the register makes of a request, whatever the rows hold.
Fits(r) ==
  /\ InsertFits(r, kind[r.on]) \/ UpsertFits(r, kind[r.on])
       \/ ChangeFits(r, kind[r.on])
  /\ r.facts # Unnamed => r.facts \subseteq Facts
  /\ \A y \in r.reads: kind[y] # "IMPACT"

\* What a request read that stays so.
Rests(r) ==
  ChangeFits(r, kind[r.on]) =>
    /\ kind[r.on] \in TwoPersonKinds =>
         /\ row[r.on].status # "none"
         /\ r.approver # None => row[r.on].creator # r.approver
    /\ kind[r.on] = "NOTICE" /\ r.status = "RETIRED" =>
         row[r.on].approver # None

\* Its own row, as it read it.
CurrentRow(r) ==
  /\ \/ row[r.on].status \notin FinalStatuses
     \/ kind[r.on] = "NOTICE"
     \/ kind[r.on] = "TRANSFER" /\ r.status = "UNDER_REVIEW"
     \/ kind[r.on] = "DPIA" /\ row[r.on].status = "REJECTED"
  /\ kind[r.on] = "DSR" /\ r.status = "ON_HOLD" => row[r.on].status # "ON_HOLD"
  /\ kind[r.on] \in {"PROCESSOR", "TRANSFER"} /\ r.facts # Unnamed =>
       row[r.on].status # "ACTIVE"

\* A row of another register it rests on, as it read it.
CurrentGround(r, y) ==
  /\ r.status = "GIVEN" =>
       row[y].approver # None /\ row[y].status # "RETIRED"
  /\ r.status = "APPLICABLE" => {"local", "established"} \subseteq row[y].facts
  /\ kind[r.on] = "OBLIGATION" => row[y].status = "APPLICABLE"

\* What a request read that holds unless it is stale.
Current(r) ==
  ~r.stale =>
    /\ r.on \in r.reads => CurrentRow(r)
    /\ \A y \in r.reads: CurrentGround(r, y)

\* What its statement found in the row it has locked.
Passed(r) ==
  /\ row[r.on].status \in r.from
  /\ TriggerAccepts(kind[r.on], row[r.on], Written(r, row[r.on]))

Typed ==
  /\ TypeOK
  /\ \A s \in Sessions:
       /\ tx[s].stage # "idle" => tx[s].on \in Records
       /\ tx[s].stage = "idle" => tx[s] = Idle

Held(r) ==
  /\ r.stage # "idle" => Fits(r) /\ Rests(r) /\ Current(r)
  /\ r.stage = "written" => Passed(r)

Pending == \A s \in Sessions: Held(tx[s])

SingleWriter ==
  \A s, t \in Sessions:
    tx[s].stage = "written" /\ tx[t].stage = "written" /\ tx[s].on = tx[t].on
      => s = t

\* The statuses of a row that no trigger looks after.
RowFits(x) ==
  /\ row[x].status = "none" => row[x] = NoRow
  /\ kind[x] = "RETENTION" => row[x].status \in {"none", "ACTIVE", "ARCHIVED"}
  /\ kind[x] = "CONSENT" => row[x].status \in {"none", "GIVEN", "WITHDRAWN"}
  /\ kind[x] = "NOTICE" => row[x].status \in {"none", "REGISTERED", "RETIRED"}
  /\ kind[x] = "DETERMINATION" => row[x].status \in {"none"} \cup Results

RowsFit == \A x \in Records: RowFits(x)

IInv ==
  /\ Typed /\ Pending /\ SingleWriter /\ RowsFit
  /\ ApprovedIndependently /\ VerifiedBeforeWork /\ BreachNotifiedBeforeClose
  /\ ActiveOnFile /\ CandidateMadeOnce

rows == <<kind, row, made, frozen, late>>

-----------------------------------------------------------------------------
(* Requests begin with what they read.                                     *)

\* A new row of a register that is reviewed says who made it.
Signed(r) ==
  InsertFits(r, kind[r.on]) /\ kind[r.on] \in TwoPersonKinds =>
    r.creator \in Users

Begins(s, r) ==
  /\ r \in Transaction /\ r.stage = "checked" /\ r.on \in Records
  /\ Fits(r) /\ Rests(r) /\ Current(r) /\ Signed(r) /\ ~r.stale
  /\ tx' = [tx EXCEPT ![s] = r]
  /\ UNCHANGED rows

LEMMA NoneApart ==
  None \notin Users /\ None \notin Records /\ None \notin Statuses
BY NoneAssumption

\* A new row reads nothing, or rows of another register that it rests on.
LEMMA FirstBegins ==
  ASSUME NEW s \in Sessions, NEW u, NEW permission, NEW r \in Transaction,
         r.stage = "checked", r.on \in Records, r.from = {"none"},
         r.approver = None, r.facts # Unnamed => r.facts \subseteq Facts,
         StartsAs(kind[r.on], r.status), r.on \notin r.reads,
         \A y \in r.reads: kind[y] # "IMPACT" /\ CurrentGround(r, y),
         kind[r.on] \in TwoPersonKinds => r.creator \in Users, ~r.stale,
         Begin(s, u, permission, r)
  PROVE  \E q: Begins(s, q)
<1>1. tx' = [tx EXCEPT ![s] = r] /\ UNCHANGED rows
  BY DEF Begin, rows
<1>2. InsertFits(r, kind[r.on]) /\ ~ChangeFits(r, kind[r.on])
  BY DEF InsertFits, ChangeFits
<1>3. Fits(r) /\ Rests(r) /\ Current(r)
  BY <1>2 DEF Fits, Rests, Current
<1>4. Signed(r)
  BY DEF Signed
<1> QED BY <1>1, <1>3, <1>4 DEF Begins

LEMMA NoneIsAStatus == "none" \in Statuses
BY DEF Statuses

LEMMA InsertBegins ==
  ASSUME Typed, NEW s \in Sessions, NEW u \in Users, NEW permission,
         NEW x \in Records, NEW k, NEW status \in Statuses,
         NEW facts \in SUBSET Facts,
         StartsAs(k, status), Insert(s, u, permission, x, k, status, facts)
  PROVE  \E r: Begins(s, r)
<1> DEFINE r == [Idle EXCEPT !.stage = "checked", !.on = x, !.from = {"none"},
                             !.status = status, !.creator = u, !.facts = facts]
<1>1. /\ r \in Transaction /\ r.stage = "checked" /\ r.on = x
      /\ r.from = {"none"} /\ r.status = status /\ r.approver = None
      /\ r.facts = facts /\ r.reads = {} /\ r.creator = u
      /\ ~r.stale
  BY NoneIsAStatus DEF Idle, Transaction
<1>2. kind[x] = k /\ Begin(s, u, permission, r)
  BY DEF Insert
<1> HIDE DEF r
<1> QED BY <1>1, <1>2, FirstBegins

\* A change of a row, by a request that read it or by one that asks for a
\* status.
Changes(r, x, from, status, approver, facts, reads) ==
  /\ r \in Transaction /\ r.stage = "checked" /\ r.on = x /\ r.from = from
  /\ r.status = status /\ r.creator = None /\ r.approver = approver
  /\ r.facts = facts /\ r.reads = reads /\ r.stale = FALSE

LEMMA ChangeBegins ==
  ASSUME NEW s \in Sessions, NEW u, NEW permission,
         NEW x \in Records, NEW r, NEW from, NEW status, NEW approver,
         NEW facts, NEW reads \in SUBSET {x},
         Changes(r, x, from, status, approver, facts, reads),
         facts # Unnamed => facts \subseteq Facts,
         kind[x] \notin {"IMPACT", "OBLIGATION"} \/ reads = {},
         status \notin {"GIVEN", "APPLICABLE"},
         ChangeFits(r, kind[x]), Rests(r), reads = {} \/ CurrentRow(r),
         Begin(s, u, permission, r)
  PROVE  \E q: Begins(s, q)
<1>1. tx' = [tx EXCEPT ![s] = r] /\ UNCHANGED rows
  BY DEF Begin, rows
<1>2. Fits(r) /\ Current(r)
  BY DEF Changes, Fits, Current, CurrentGround
<1>3. Signed(r)
  BY DEF Changes, Signed, InsertFits, ChangeFits
<1> QED BY <1>1, <1>2, <1>3 DEF Begins, Changes

LEMMA SetsIs ==
  ASSUME NEW x \in Records, NEW status \in Statuses \cup {None},
         NEW approver \in Users \cup {None},
         NEW facts \in SUBSET (Facts \cup Unnamed)
  PROVE  Changes(Sets(x, status, approver, facts), x, Statuses \ {"none"},
                 status, approver, facts, {x})
<1> DEFINE r == Sets(x, status, approver, facts)
<1>1. /\ r \in Transaction /\ r.stage = "checked" /\ r.on = x
      /\ r.from = Statuses \ {"none"} /\ r.status = status
      /\ r.creator = None /\ r.approver = approver /\ r.facts = facts
      /\ r.reads = {x} /\ r.stale = FALSE
  BY DEF Sets, Idle, Transaction
<1> QED BY <1>1 DEF Changes

LEMMA UpdatesIs ==
  ASSUME NEW x \in Records, NEW from \in Statuses,
         NEW status \in Statuses \cup {None},
         NEW approver \in Users \cup {None},
         NEW facts \in SUBSET (Facts \cup Unnamed)
  PROVE  Changes(Updates(x, from, status, approver, facts), x, {from}, status,
                 approver, facts, {})
<1> DEFINE r == Updates(x, from, status, approver, facts)
<1>1. /\ r \in Transaction /\ r.stage = "checked" /\ r.on = x
      /\ r.from = {from} /\ r.status = status
      /\ r.creator = None /\ r.approver = approver /\ r.facts = facts
      /\ r.reads = {} /\ r.stale = FALSE
  BY DEF Updates, Sets, Idle, Transaction
<1> QED BY <1>1 DEF Changes

LEMMA SomeStatuses ==
  {"GIVEN", "APPLICABLE", "ACTIVE", "CLOSED", "UNDER_REVIEW", "ARCHIVED",
   "REJECTED", "IN_PROGRESS", "APPROVED", "PROPOSED", "SUSPENDED", "RETIRED",
   "WITHDRAWN", "OPEN", "ACKNOWLEDGED", "RESOLVED", "ACCEPTED",
   "ASSESSED"} \subseteq Statuses
BY DEF Statuses

LEMMA UnnamedTyped == Unnamed \in SUBSET (Facts \cup Unnamed)
OBVIOUS

LEMMA SomeFacts == {"vetted", "assessed", "edited", "acknowledged", "local",
                    "established", "summaries"} \subseteq Facts
BY DEF Facts

\* Changes of activities, DPIAs, processors and transfers.
LEMMA RegistersChange ==
  ASSUME Typed, NEW s \in Sessions, NEW u \in Users, NEW x \in Records,
         \/ ActivateProcessingActivity(s, u, x)
         \/ CloseProcessingActivity(s, u, x)
         \/ UpdateDraftProcessingActivity(s, u, x)
         \/ StartDpiaAssessment(s, u, x) \/ ApproveInProgressDpia(s, u, x)
         \/ ApproveDpiaAssessment(s, u, x) \/ ActivateProcessor(s, u, x)
         \/ SuspendProcessor(s, u, x) \/ UpdateProcessorDueDiligence(s, u, x)
         \/ SubmitTransferForReview(s, u, x) \/ ApproveTransfer(s, u, x)
         \/ CloseTransfer(s, u, x)
         \/ UpdateDraftInternationalTransfer(s, u, x)
  PROVE  \E r: Begins(s, r)
<1> USE NoneApart, NoneIsAStatus, SomeStatuses, SomeFacts
<1>1. CASE ActivateProcessingActivity(s, u, x)
  <2> DEFINE r == Sets(x, "ACTIVE", u, Unnamed)
  <2>1. Changes(r, x, Statuses \ {"none"}, "ACTIVE", u, Unnamed,
                {x})
    BY SetsIs
  <2>2. ChangeFits(r, kind[x]) /\ Rests(r) /\ CurrentRow(r)
    BY <1>1, <2>1
    DEF ActivateProcessingActivity, Read, Changes, ChangeFits, Rests,
        CurrentRow, FinalStatuses
  <2> QED BY <1>1, <2>1, <2>2, ChangeBegins
         DEF ActivateProcessingActivity, Read
<1>2. CASE CloseProcessingActivity(s, u, x)
  <2> DEFINE r == Sets(x, "CLOSED", None, Unnamed)
  <2>1. Changes(r, x, Statuses \ {"none"}, "CLOSED", None, Unnamed,
                {x})
    BY SetsIs
  <2>2. ChangeFits(r, kind[x]) /\ Rests(r) /\ CurrentRow(r)
    BY <1>2, <2>1
    DEF CloseProcessingActivity, Read, Changes, ChangeFits, Rests, CurrentRow,
        FinalStatuses
  <2> QED BY <1>2, <2>1, <2>2, ChangeBegins
         DEF CloseProcessingActivity, Read
<1>3. CASE UpdateDraftProcessingActivity(s, u, x)
  <2> DEFINE r == Sets(x, None, None, {"edited"})
  <2>1. Changes(r, x, Statuses \ {"none"}, None, None, {"edited"},
                {x})
    BY SetsIs DEF Facts
  <2>2. ChangeFits(r, kind[x]) /\ Rests(r) /\ CurrentRow(r)
    BY <1>3, <2>1
    DEF UpdateDraftProcessingActivity, Read, Changes, ChangeFits, Rests,
        CurrentRow, FinalStatuses
  <2> QED BY <1>3, <2>1, <2>2, ChangeBegins
         DEF UpdateDraftProcessingActivity, Read, Unnamed, Facts
<1>4. CASE StartDpiaAssessment(s, u, x)
  <2> DEFINE r == Sets(x, "IN_PROGRESS", None, Unnamed)
  <2>1. Changes(r, x, Statuses \ {"none"}, "IN_PROGRESS", None, Unnamed,
                {x})
    BY SetsIs
  <2>2. ChangeFits(r, kind[x]) /\ Rests(r) /\ CurrentRow(r)
    BY <1>4, <2>1
    DEF StartDpiaAssessment, Read, Changes, ChangeFits, Rests, CurrentRow,
        FinalStatuses
  <2> QED BY <1>4, <2>1, <2>2, ChangeBegins
         DEF StartDpiaAssessment, Read
<1>5. CASE ApproveInProgressDpia(s, u, x)
  <2> DEFINE r == Sets(x, "APPROVED", u, Unnamed)
  <2>1. Changes(r, x, Statuses \ {"none"}, "APPROVED", u, Unnamed,
                {x})
    BY SetsIs
  <2>2. ChangeFits(r, kind[x]) /\ Rests(r) /\ CurrentRow(r)
    BY <1>5, <2>1
    DEF ApproveInProgressDpia, Read, Changes, ChangeFits, Rests, CurrentRow,
        FinalStatuses
  <2> QED BY <1>5, <2>1, <2>2, ChangeBegins
         DEF ApproveInProgressDpia, Read
<1>6. CASE ApproveDpiaAssessment(s, u, x)
  <2> DEFINE r == Sets(x, "APPROVED", u, Unnamed)
  <2>1. Changes(r, x, Statuses \ {"none"}, "APPROVED", u, Unnamed,
                {x})
    BY SetsIs
  <2>2. ChangeFits(r, kind[x]) /\ Rests(r) /\ CurrentRow(r)
    BY <1>6, <2>1
    DEF ApproveDpiaAssessment, Read, Changes, ChangeFits, Rests, CurrentRow,
        FinalStatuses
  <2> QED BY <1>6, <2>1, <2>2, ChangeBegins
         DEF ApproveDpiaAssessment, Read
<1>7. CASE ActivateProcessor(s, u, x)
  <2> DEFINE r == Sets(x, "ACTIVE", u, Unnamed)
  <2>1. Changes(r, x, Statuses \ {"none"}, "ACTIVE", u, Unnamed,
                {x})
    BY SetsIs
  <2>2. ChangeFits(r, kind[x]) /\ Rests(r) /\ CurrentRow(r)
    BY <1>7, <2>1
    DEF ActivateProcessor, Read, Changes, ChangeFits, Rests, CurrentRow,
        FinalStatuses
  <2> QED BY <1>7, <2>1, <2>2, ChangeBegins
         DEF ActivateProcessor, Read
<1>8. CASE SuspendProcessor(s, u, x)
  <2> DEFINE r == Sets(x, "SUSPENDED", None, Unnamed)
  <2>1. Changes(r, x, Statuses \ {"none"}, "SUSPENDED", None, Unnamed,
                {x})
    BY SetsIs
  <2>2. ChangeFits(r, kind[x]) /\ Rests(r) /\ CurrentRow(r)
    BY <1>8, <2>1
    DEF SuspendProcessor, Read, Changes, ChangeFits, Rests, CurrentRow,
        FinalStatuses
  <2> QED BY <1>8, <2>1, <2>2, ChangeBegins
         DEF SuspendProcessor, Read
<1>9. CASE UpdateProcessorDueDiligence(s, u, x)
  <2>0. PICK facts \in ProcessorFiles:
          Begin(s, u, "privacy.manage", Sets(x, None, None, facts))
    BY <1>9 DEF UpdateProcessorDueDiligence
  <2> DEFINE r == Sets(x, None, None, facts)
  <2>1. Changes(r, x, Statuses \ {"none"}, None, None, facts,
                {x})
    BY SetsIs DEF ProcessorFiles, Facts
  <2>2. ChangeFits(r, kind[x]) /\ Rests(r) /\ CurrentRow(r)
    BY <1>9, <2>1
    DEF UpdateProcessorDueDiligence, Read, Changes, ChangeFits, Rests,
        CurrentRow, FinalStatuses
  <2> QED BY <1>9, <2>0, <2>1, <2>2, ChangeBegins
         DEF UpdateProcessorDueDiligence, Read, ProcessorFiles, Unnamed, Facts
<1>10. CASE SubmitTransferForReview(s, u, x)
  <2> DEFINE r == Sets(x, "UNDER_REVIEW", None, Unnamed)
  <2>1. Changes(r, x, Statuses \ {"none"}, "UNDER_REVIEW", None, Unnamed,
                {x})
    BY SetsIs
  <2>2. ChangeFits(r, kind[x]) /\ Rests(r) /\ CurrentRow(r)
    BY <1>10, <2>1
    DEF SubmitTransferForReview, Read, Changes, ChangeFits, Rests, CurrentRow,
        FinalStatuses
  <2> QED BY <1>10, <2>1, <2>2, ChangeBegins
         DEF SubmitTransferForReview, Read
<1>11. CASE ApproveTransfer(s, u, x)
  <2> DEFINE r == Sets(x, "ACTIVE", u, Unnamed)
  <2>1. Changes(r, x, Statuses \ {"none"}, "ACTIVE", u, Unnamed,
                {x})
    BY SetsIs
  <2>2. ChangeFits(r, kind[x]) /\ Rests(r) /\ CurrentRow(r)
    BY <1>11, <2>1
    DEF ApproveTransfer, Read, Changes, ChangeFits, Rests, CurrentRow,
        FinalStatuses
  <2> QED BY <1>11, <2>1, <2>2, ChangeBegins
         DEF ApproveTransfer, Read
<1>12. CASE CloseTransfer(s, u, x)
  <2> DEFINE r == Sets(x, "CLOSED", None, Unnamed)
  <2>1. Changes(r, x, Statuses \ {"none"}, "CLOSED", None, Unnamed,
                {x})
    BY SetsIs
  <2>2. ChangeFits(r, kind[x]) /\ Rests(r) /\ CurrentRow(r)
    BY <1>12, <2>1
    DEF CloseTransfer, Read, Changes, ChangeFits, Rests, CurrentRow,
        FinalStatuses
  <2> QED BY <1>12, <2>1, <2>2, ChangeBegins
         DEF CloseTransfer, Read
<1>13. CASE UpdateDraftInternationalTransfer(s, u, x)
  <2>0. PICK facts \in TransferFiles:
          Begin(s, u, "privacy.manage", Sets(x, None, None, facts))
    BY <1>13 DEF UpdateDraftInternationalTransfer
  <2> DEFINE r == Sets(x, None, None, facts)
  <2>1. Changes(r, x, Statuses \ {"none"}, None, None, facts,
                {x})
    BY SetsIs DEF TransferFiles, Facts
  <2>2. ChangeFits(r, kind[x]) /\ Rests(r) /\ CurrentRow(r)
    BY <1>13, <2>1
    DEF UpdateDraftInternationalTransfer, Read, Changes, ChangeFits, Rests,
        CurrentRow, FinalStatuses
  <2> QED BY <1>13, <2>0, <2>1, <2>2, ChangeBegins
         DEF UpdateDraftInternationalTransfer, Read, TransferFiles, Unnamed,
             Facts
<1> QED BY <1>1, <1>2, <1>3, <1>4, <1>5, <1>6, <1>7, <1>8, <1>9, <1>10, <1>11,
    <1>12, <1>13

\* Changes of retention rules, notices, consents and privacy alerts.
LEMMA OperationsChange ==
  ASSUME Typed, NEW s \in Sessions, NEW u \in Users, NEW x \in Records,
         \/ RetireRetentionRule(s, u, x) \/ ApprovePrivacyNotice(s, u, x)
         \/ RetirePrivacyNotice(s, u, x) \/ WithdrawConsent(s, u, x)
         \/ AcknowledgePrivacyAlert(s, u, x) \/ ResolvePrivacyAlert(s, u, x)
  PROVE  \E r: Begins(s, r)
<1> USE NoneApart, NoneIsAStatus, SomeStatuses, SomeFacts
<1>1. CASE RetireRetentionRule(s, u, x)
  <2> DEFINE r == Sets(x, "ARCHIVED", None, Unnamed)
  <2>1. Changes(r, x, Statuses \ {"none"}, "ARCHIVED", None, Unnamed,
                {x})
    BY SetsIs
  <2>2. ChangeFits(r, kind[x]) /\ Rests(r) /\ CurrentRow(r)
    BY <1>1, <2>1
    DEF RetireRetentionRule, Read, Changes, ChangeFits, Rests, CurrentRow,
        FinalStatuses
  <2> QED BY <1>1, <2>1, <2>2, ChangeBegins
         DEF RetireRetentionRule, Read
<1>2. CASE ApprovePrivacyNotice(s, u, x)
  <2> DEFINE r == Sets(x, None, u, Unnamed)
  <2>1. Changes(r, x, Statuses \ {"none"}, None, u, Unnamed,
                {x})
    BY SetsIs
  <2>2. ChangeFits(r, kind[x]) /\ Rests(r) /\ CurrentRow(r)
    BY <1>2, <2>1
    DEF ApprovePrivacyNotice, Read, Changes, ChangeFits, Rests, CurrentRow,
        FinalStatuses
  <2> QED BY <1>2, <2>1, <2>2, ChangeBegins
         DEF ApprovePrivacyNotice, Read
<1>3. CASE RetirePrivacyNotice(s, u, x)
  <2> DEFINE r == Sets(x, "RETIRED", None, Unnamed)
  <2>1. Changes(r, x, Statuses \ {"none"}, "RETIRED", None, Unnamed,
                {x})
    BY SetsIs
  <2>2. ChangeFits(r, kind[x]) /\ Rests(r) /\ CurrentRow(r)
    BY <1>3, <2>1
    DEF RetirePrivacyNotice, Read, Changes, ChangeFits, Rests, CurrentRow,
        FinalStatuses
  <2> QED BY <1>3, <2>1, <2>2, ChangeBegins
         DEF RetirePrivacyNotice, Read
<1>4. CASE WithdrawConsent(s, u, x)
  <2> DEFINE r == Sets(x, "WITHDRAWN", None, Unnamed)
  <2>1. Changes(r, x, Statuses \ {"none"}, "WITHDRAWN", None, Unnamed,
                {x})
    BY SetsIs
  <2>2. ChangeFits(r, kind[x]) /\ Rests(r) /\ CurrentRow(r)
    BY <1>4, <2>1
    DEF WithdrawConsent, Read, Changes, ChangeFits, Rests, CurrentRow,
        FinalStatuses
  <2> QED BY <1>4, <2>1, <2>2, ChangeBegins
         DEF WithdrawConsent, Read
<1>5. CASE AcknowledgePrivacyAlert(s, u, x)
  <2> DEFINE r == Sets(x, "ACKNOWLEDGED", None, {"acknowledged"})
  <2>1. Changes(r, x, Statuses \ {"none"}, "ACKNOWLEDGED", None,
                {"acknowledged"}, {x})
    BY SetsIs DEF Facts
  <2>2. ChangeFits(r, kind[x]) /\ Rests(r) /\ CurrentRow(r)
    BY <1>5, <2>1
    DEF AcknowledgePrivacyAlert, Read, Changes, ChangeFits, Rests, CurrentRow,
        FinalStatuses
  <2> QED BY <1>5, <2>1, <2>2, ChangeBegins
         DEF AcknowledgePrivacyAlert, Read, Unnamed, Facts
<1>6. CASE ResolvePrivacyAlert(s, u, x)
  <2> DEFINE r == Sets(x, "RESOLVED", u, Unnamed)
  <2>1. Changes(r, x, Statuses \ {"none"}, "RESOLVED", u, Unnamed,
                {x})
    BY SetsIs
  <2>2. ChangeFits(r, kind[x]) /\ Rests(r) /\ CurrentRow(r)
    BY <1>6, <2>1
    DEF ResolvePrivacyAlert, Read, Changes, ChangeFits, Rests, CurrentRow,
        FinalStatuses, TwoPersonKinds
  <2> QED BY <1>6, <2>1, <2>2, ChangeBegins
         DEF ResolvePrivacyAlert, Read
<1> QED BY <1>1, <1>2, <1>3, <1>4, <1>5, <1>6

LEMMA DsrStatuses ==
  ASSUME NEW from, NEW status, <<from, status>> \in DsrTransitions
  PROVE  /\ status \in Statuses \ {"none", "ACCEPTED", "GIVEN", "APPLICABLE"}
         /\ from \notin FinalStatuses /\ from # "none"
         /\ status = "ON_HOLD" => from # "ON_HOLD"
BY DEF DsrTransitions, Statuses, FinalStatuses

LEMMA DsrChanges ==
  ASSUME Typed, NEW s \in Sessions, NEW u \in Users, NEW x \in Records,
         NEW status \in Statuses, NEW given \in SUBSET {"verified", "outcome"},
         TransitionDsr(s, u, x, status, given)
  PROVE  \E r: Begins(s, r)
<1> DEFINE facts == row[x].facts \cup given
           r == Sets(x, status, None, facts)
<1>1. facts \subseteq Facts /\ facts # Unnamed
  BY DEF Typed, TypeOK, Row, Facts, Unnamed
<1>2. Changes(r, x, Statuses \ {"none"}, status, None, facts, {x})
  BY <1>1, SetsIs
<1>3. /\ kind[x] = "DSR" /\ <<row[x].status, status>> \in DsrTransitions
      /\ status \in {"IN_PROGRESS", "COMPLETED"} => "verified" \in facts
      /\ status = "COMPLETED" => "outcome" \in facts
      /\ Begin(s, u, "privacy.dsr.manage", r)
  BY DEF TransitionDsr
<1> HIDE DEF facts, r
<1>4. ChangeFits(r, kind[x])
  BY <1>1, <1>2, <1>3, DsrStatuses, NoneApart
     DEF Changes, ChangeFits, DsrFits
<1>5. Rests(r) /\ CurrentRow(r)
  BY <1>1, <1>2, <1>3, DsrStatuses, NoneApart
     DEF Changes, Rests, CurrentRow, TwoPersonKinds
<1> QED BY <1>1, <1>2, <1>3, <1>4, <1>5, DsrStatuses, ChangeBegins

LEMMA BreachStatuses ==
  ASSUME NEW from, NEW status, <<from, status>> \in BreachTransitions
  PROVE  /\ status \in Statuses \ {"none", "ACCEPTED", "GIVEN", "APPLICABLE"}
         /\ from \notin FinalStatuses /\ from # "none"
         /\ status = "CLOSED" =>
              from \in {"NOTIFICATION_ASSESSMENT", "NOTIFIED"}
BY DEF BreachTransitions, Statuses, FinalStatuses

LEMMA BreachChanges ==
  ASSUME Typed, BreachNotifiedBeforeClose,
         NEW s \in Sessions, NEW u \in Users, NEW x \in Records,
         NEW status \in Statuses,
         NEW given \in
           SUBSET {"contained", "required", "dismissed", "notified"},
         TransitionPrivacyBreach(s, u, x, status, given)
  PROVE  \E r: Begins(s, r)
<1> DEFINE facts == Decided(row[x].facts, given)
           r == Sets(x, status, None, facts)
<1>1. facts \subseteq Facts /\ facts # Unnamed
  BY DEF Typed, TypeOK, Row, Facts, Unnamed, Decided
<1>2. Changes(r, x, Statuses \ {"none"}, status, None, facts, {x})
  BY <1>1, SetsIs
<1>3. /\ kind[x] = "BREACH" /\ <<row[x].status, status>> \in BreachTransitions
      /\ status \in {"CONTAINED", "NOTIFICATION_ASSESSMENT", "NOTIFIED",
                     "CLOSED"} => "contained" \in facts
      /\ status = "NOTIFIED" => {"required", "notified"} \subseteq facts
      /\ status = "CLOSED" /\ row[x].status = "NOTIFICATION_ASSESSMENT" =>
           "dismissed" \in facts
      /\ Begin(s, u, "privacy.breach.manage", r)
  BY DEF TransitionPrivacyBreach
<1>4. status = "CLOSED" => "dismissed" \in facts \/ "notified" \in facts
  <2>1. row[x].status = "NOTIFIED" => "notified" \in facts
    BY <1>3 DEF BreachNotifiedBeforeClose, Decided
  <2> QED BY <1>3, <2>1, BreachStatuses
<1> HIDE DEF facts, r
<1>5. ChangeFits(r, kind[x])
  BY <1>1, <1>2, <1>3, <1>4, BreachStatuses, NoneApart
     DEF Changes, ChangeFits, BreachFits
<1>6. Rests(r) /\ CurrentRow(r)
  BY <1>1, <1>2, <1>3, BreachStatuses, NoneApart
     DEF Changes, Rests, CurrentRow, TwoPersonKinds
<1> QED BY <1>1, <1>2, <1>3, <1>5, <1>6, BreachStatuses, ChangeBegins

\* Requests that ask for the status they change.
LEMMA AskedChanges ==
  ASSUME Typed, NEW s \in Sessions, NEW u \in Users, NEW x \in Records,
         \/ \E decision \in {"ACCEPTED", "REJECTED"}:
              DecideCandidate(s, u, x, decision)
         \/ AcknowledgeComplianceAlert(s, u, x)
         \/ ResolveComplianceAlert(s, u, x)
         \/ AssessSourceChangeImpact(s, u, x)
         \/ ResolveSourceChangeImpact(s, u, x)
         \/ SetComplianceProfileFact(s, u, x)
  PROVE  \E r: Begins(s, r)
<1> USE NoneApart, NoneIsAStatus, SomeStatuses, SomeFacts, UnnamedTyped
<1>1. ASSUME NEW decision \in {"ACCEPTED", "REJECTED"},
             DecideCandidate(s, u, x, decision)
      PROVE  \E r: Begins(s, r)
  <2> DEFINE r == Updates(x, "PROPOSED", decision, u, Unnamed)
  <2>1. Changes(r, x, {"PROPOSED"}, decision, u, Unnamed, {})
    BY UpdatesIs
  <2>2. ChangeFits(r, kind[x]) /\ Rests(r)
    BY <1>1, <2>1
    DEF DecideCandidate, Read, Changes, ChangeFits, Rests, FinalStatuses,
        TwoPersonKinds
  <2> QED BY <1>1, <2>1, <2>2, ChangeBegins
         DEF DecideCandidate
<1>2. CASE AcknowledgeComplianceAlert(s, u, x)
  <2> DEFINE r == Updates(x, "OPEN", "ACKNOWLEDGED", None, {"acknowledged"})
  <2>1. Changes(r, x, {"OPEN"}, "ACKNOWLEDGED", None, {"acknowledged"}, {})
    BY UpdatesIs DEF Facts
  <2>2. ChangeFits(r, kind[x]) /\ Rests(r)
    BY <1>2, <2>1
    DEF AcknowledgeComplianceAlert, Changes, ChangeFits, Rests, FinalStatuses,
        TwoPersonKinds
  <2> QED BY <1>2, <2>1, <2>2, ChangeBegins
         DEF AcknowledgeComplianceAlert, Unnamed, Facts
<1>3. CASE ResolveComplianceAlert(s, u, x)
  <2> DEFINE r == Updates(x, "ACKNOWLEDGED", "RESOLVED", u, Unnamed)
  <2>1. Changes(r, x, {"ACKNOWLEDGED"}, "RESOLVED", u, Unnamed, {})
    BY UpdatesIs
  <2>2. ChangeFits(r, kind[x]) /\ Rests(r)
    BY <1>3, <2>1
    DEF ResolveComplianceAlert, Changes, ChangeFits, Rests, FinalStatuses,
        TwoPersonKinds
  <2> QED BY <1>3, <2>1, <2>2, ChangeBegins
         DEF ResolveComplianceAlert
<1>4. CASE AssessSourceChangeImpact(s, u, x)
  <2> DEFINE r == Updates(x, "OPEN", "ASSESSED", None, {"acknowledged"})
  <2>1. Changes(r, x, {"OPEN"}, "ASSESSED", None, {"acknowledged"}, {})
    BY UpdatesIs DEF Facts
  <2>2. ChangeFits(r, kind[x]) /\ Rests(r)
    BY <1>4, <2>1
    DEF AssessSourceChangeImpact, Changes, ChangeFits, Rests, FinalStatuses,
        TwoPersonKinds
  <2> QED BY <1>4, <2>1, <2>2, ChangeBegins
         DEF AssessSourceChangeImpact, Unnamed, Facts
<1>5. CASE ResolveSourceChangeImpact(s, u, x)
  <2> DEFINE r == Updates(x, "ASSESSED", "RESOLVED", u, Unnamed)
  <2>1. Changes(r, x, {"ASSESSED"}, "RESOLVED", u, Unnamed, {})
    BY UpdatesIs
  <2>2. ChangeFits(r, kind[x]) /\ Rests(r)
    BY <1>5, <2>1
    DEF ResolveSourceChangeImpact, Changes, ChangeFits, Rests, FinalStatuses,
        TwoPersonKinds
  <2> QED BY <1>5, <2>1, <2>2, ChangeBegins
         DEF ResolveSourceChangeImpact
<1>6. ASSUME SetComplianceProfileFact(s, u, x)
      PROVE  \E r: Begins(s, r)
  <2>1. PICK given \in SUBSET {"established"}:
          Begin(s, u, "compliance.profile.manage",
                Updates(x, "ACTIVE", None, None,
                        (row[x].facts \cap {"local"}) \cup given))
    BY <1>6 DEF SetComplianceProfileFact
  <2> DEFINE facts == (row[x].facts \cap {"local"}) \cup given
             r == Updates(x, "ACTIVE", None, None, facts)
  <2>2. facts \subseteq Facts /\ facts # Unnamed
    BY DEF Facts, Unnamed
  <2>3. Changes(r, x, {"ACTIVE"}, None, None, facts, {})
    BY <2>2, UpdatesIs
  <2>4. Begin(s, u, "compliance.profile.manage", r)
    BY <2>1
  <2> HIDE DEF facts, r
  <2>5. ChangeFits(r, kind[x]) /\ Rests(r)
    BY <1>6, <2>2, <2>3
    DEF SetComplianceProfileFact, Changes, ChangeFits, Rests, FinalStatuses,
        TwoPersonKinds
  <2> QED BY <2>2, <2>3, <2>4, <2>5, ChangeBegins
<1> QED BY <1>1, <1>2, <1>3, <1>4, <1>5, <1>6

\* New rows.
LEMMA Inserts ==
  ASSUME Typed, NEW s \in Sessions, NEW u \in Users, NEW x \in Records,
         \/ CreateProcessingActivity(s, u, x)
         \/ CreateDpiaAssessment(s, u, x) \/ RegisterProcessor(s, u, x)
         \/ CreateInternationalTransfer(s, u, x)
         \/ CreateRetentionRule(s, u, x) \/ RegisterPrivacyNotice(s, u, x)
         \/ CreateDataSubjectRequest(s, u, x) \/ RecordPrivacyBreach(s, u, x)
         \/ RefreshPrivacyAlerts(s, u, x) \/ RefreshComplianceAlerts(s, u, x)
         \/ ProposeCandidate(s, u, x) \/ CreateComplianceProfile(s, u, x)
  PROVE  \E r: Begins(s, r)
<1>1. {"DRAFT", "NOT_REQUIRED", "REQUIRED", "IN_PROGRESS", "REJECTED",
       "PROSPECTIVE", "ACTIVE", "REGISTERED", "RECEIVED", "DETECTED", "OPEN",
       "PROPOSED"} \subseteq Statuses
  BY DEF Statuses
<1>2. \A status \in {"DRAFT", "NOT_REQUIRED", "REQUIRED", "IN_PROGRESS",
                     "REJECTED", "PROSPECTIVE", "ACTIVE", "REGISTERED",
                     "RECEIVED", "DETECTED", "OPEN", "PROPOSED"}: status # None
  BY <1>1, NoneApart
<1>3. CASE CreateProcessingActivity(s, u, x)
  <2>1. Insert(s, u, "privacy.manage", x, "ACTIVITY", "DRAFT", {})
    BY <1>3 DEF CreateProcessingActivity
  <2>2. StartsAs("ACTIVITY", "DRAFT")
    BY <1>2 DEF StartsAs
  <2> QED BY <1>1, <2>1, <2>2, InsertBegins
<1>4. CASE CreateDpiaAssessment(s, u, x)
  <2>1. PICK facts \in SUBSET Facts, decision \in NewDpiaDecisions:
          Insert(s, u, "privacy.manage", x, "DPIA", decision, facts)
    BY <1>4 DEF CreateDpiaAssessment, Facts
  <2>2. StartsAs("DPIA", decision)
    BY <1>2 DEF StartsAs, NewDpiaDecisions
  <2> QED BY <1>1, <2>1, <2>2, InsertBegins DEF NewDpiaDecisions
<1>5. CASE RegisterProcessor(s, u, x)
  <2>1. PICK facts \in SUBSET Facts:
          Insert(s, u, "privacy.manage", x, "PROCESSOR", "PROSPECTIVE", facts)
    BY <1>5 DEF RegisterProcessor, Facts, ProcessorFiles
  <2>2. StartsAs("PROCESSOR", "PROSPECTIVE")
    BY <1>2 DEF StartsAs
  <2> QED BY <1>1, <2>1, <2>2, InsertBegins
<1>6. CASE CreateInternationalTransfer(s, u, x)
  <2>1. PICK facts \in SUBSET Facts:
          Insert(s, u, "privacy.manage", x, "TRANSFER", "DRAFT", facts)
    BY <1>6 DEF CreateInternationalTransfer, Facts, TransferFiles
  <2>2. StartsAs("TRANSFER", "DRAFT")
    BY <1>2 DEF StartsAs
  <2> QED BY <1>1, <2>1, <2>2, InsertBegins
<1>7. CASE CreateRetentionRule(s, u, x)
  <2>1. Insert(s, u, "privacy.manage", x, "RETENTION", "ACTIVE", {})
    BY <1>7 DEF CreateRetentionRule
  <2>2. StartsAs("RETENTION", "ACTIVE")
    BY <1>2 DEF StartsAs
  <2> QED BY <1>1, <2>1, <2>2, InsertBegins
<1>8. CASE RegisterPrivacyNotice(s, u, x)
  <2>1. Insert(s, u, "privacy.manage", x, "NOTICE", "REGISTERED", {})
    BY <1>8 DEF RegisterPrivacyNotice
  <2>2. StartsAs("NOTICE", "REGISTERED")
    BY <1>2 DEF StartsAs
  <2> QED BY <1>1, <2>1, <2>2, InsertBegins
<1>9. CASE CreateDataSubjectRequest(s, u, x)
  <2>1. Insert(s, u, "privacy.dsr.manage", x, "DSR", "RECEIVED", {})
    BY <1>9 DEF CreateDataSubjectRequest
  <2>2. StartsAs("DSR", "RECEIVED")
    BY <1>2 DEF StartsAs
  <2> QED BY <1>1, <2>1, <2>2, InsertBegins
<1>10. CASE RecordPrivacyBreach(s, u, x)
  <2>1. PICK facts \in SUBSET Facts:
          Insert(s, u, "privacy.breach.manage", x, "BREACH", "DETECTED", facts)
    BY <1>10 DEF RecordPrivacyBreach, Facts, NotificationDecisions
  <2>2. StartsAs("BREACH", "DETECTED")
    BY <1>2 DEF StartsAs
  <2> QED BY <1>1, <2>1, <2>2, InsertBegins
<1>11. CASE RefreshPrivacyAlerts(s, u, x)
  <2>1. Insert(s, u, "privacy.alerts.manage", x, "ALERT", "OPEN", {})
    BY <1>11 DEF RefreshPrivacyAlerts
  <2>2. StartsAs("ALERT", "OPEN")
    BY <1>2 DEF StartsAs
  <2> QED BY <1>1, <2>1, <2>2, InsertBegins
<1>12. CASE RefreshComplianceAlerts(s, u, x)
  <2>1. Insert(s, u, "compliance.monitoring.manage", x, "DUTY_ALERT", "OPEN",
               {})
    BY <1>12 DEF RefreshComplianceAlerts
  <2>2. StartsAs("DUTY_ALERT", "OPEN")
    BY <1>2 DEF StartsAs
  <2> QED BY <1>1, <2>1, <2>2, InsertBegins
<1>13. CASE ProposeCandidate(s, u, x)
  <2>1. Insert(s, u, "privacy.assurance.propose", x, "CANDIDATE", "PROPOSED",
               {})
    BY <1>13 DEF ProposeCandidate
  <2>2. StartsAs("CANDIDATE", "PROPOSED")
    BY <1>2 DEF StartsAs
  <2> QED BY <1>1, <2>1, <2>2, InsertBegins
<1>14. CASE CreateComplianceProfile(s, u, x)
  <2>1. PICK facts \in SUBSET Facts:
          Insert(s, u, "compliance.profile.manage", x, "PROFILE", "ACTIVE",
                 facts)
    BY <1>14 DEF CreateComplianceProfile, Facts
  <2>2. StartsAs("PROFILE", "ACTIVE")
    BY <1>2 DEF StartsAs
  <2> QED BY <1>1, <2>1, <2>2, InsertBegins
<1> QED BY <1>3, <1>4, <1>5, <1>6, <1>7, <1>8, <1>9, <1>10, <1>11, <1>12, <1>13,
    <1>14

LEMMA ConsentBegins ==
  ASSUME Typed, NEW s \in Sessions, NEW u \in Users, NEW x \in Records,
         NEW notice \in Records, RecordConsent(s, u, x, notice)
  PROVE  \E r: Begins(s, r)
<1> DEFINE r == [Idle EXCEPT !.stage = "checked", !.on = x, !.from = {"none"},
                             !.status = "GIVEN", !.reads = {notice}]
<1>1. /\ r \in Transaction /\ r.stage = "checked" /\ r.on = x
      /\ r.from = {"none"} /\ r.status = "GIVEN" /\ r.approver = None
      /\ r.facts = Unnamed /\ r.reads = {notice} /\ ~r.stale
  BY NoneIsAStatus, SomeStatuses, UnnamedTyped DEF Idle, Transaction
<1>2. kind[x] = "CONSENT" /\ kind[notice] = "NOTICE"
      /\ row[notice].approver # None /\ row[notice].status # "RETIRED"
      /\ Begin(s, u, "privacy.manage", r)
  BY DEF RecordConsent
<1> HIDE DEF r
<1>3. StartsAs(kind[x], r.status) /\ CurrentGround(r, notice)
      /\ kind[x] \notin TwoPersonKinds
  BY <1>1, <1>2, NoneApart, SomeStatuses
     DEF StartsAs, CurrentGround, TwoPersonKinds
<1> QED BY <1>1, <1>2, <1>3, FirstBegins

LEMMA ObligationBegins ==
  ASSUME Typed, NEW s \in Sessions, NEW u \in Users, NEW x \in Records,
         NEW y \in Records, MaterializeObligation(s, u, x, y)
  PROVE  \E r: Begins(s, r)
<1> DEFINE r == [Idle EXCEPT !.stage = "checked", !.on = x, !.from = {"none"},
                             !.status = "OPEN", !.creator = u, !.facts = {},
                             !.reads = {y}]
<1>1. /\ r \in Transaction /\ r.stage = "checked" /\ r.on = x
      /\ r.from = {"none"} /\ r.status = "OPEN" /\ r.approver = None
      /\ r.facts = {} /\ r.reads = {y} /\ ~r.stale
  BY NoneIsAStatus, SomeStatuses DEF Idle, Transaction
<1>2. kind[x] = "OBLIGATION" /\ kind[y] = "DETERMINATION"
      /\ row[y].status = "APPLICABLE"
      /\ Begin(s, u, "compliance.obligation.materialize", r)
  BY DEF MaterializeObligation
<1> HIDE DEF r
<1>3. StartsAs(kind[x], r.status) /\ CurrentGround(r, y)
      /\ kind[x] \notin TwoPersonKinds
  BY <1>1, <1>2, NoneApart, SomeStatuses
     DEF StartsAs, CurrentGround, TwoPersonKinds
<1> QED BY <1>1, <1>2, <1>3, FirstBegins

LEMMA DeterminationBegins ==
  ASSUME Typed, NEW s \in Sessions, NEW u \in Users, NEW x \in Records,
         NEW y \in Records, EvaluateApplicability(s, u, x, y)
  PROVE  \E r: Begins(s, r)
<1> DEFINE status == Result(row[y].facts)
           r == [Idle EXCEPT !.stage = "checked", !.on = x, !.from = Statuses,
                             !.status = status, !.creator = u, !.facts = {},
                             !.reads = {y}]
<1>1. status \in Results /\ status \in Statuses
      /\ (status = "APPLICABLE" =>
            {"local", "established"} \subseteq row[y].facts)
  BY DEF Result, Results, Statuses
<1>2. kind[x] = "DETERMINATION" /\ kind[y] = "PROFILE"
      /\ Begin(s, u, "compliance.applicability.evaluate", r)
  BY DEF EvaluateApplicability
<1> HIDE DEF status
<1>3. /\ r \in Transaction /\ r.stage = "checked" /\ r.on = x
      /\ r.status = status /\ r.approver = None /\ r.facts = {}
      /\ r.reads = {y} /\ ~r.stale
  BY <1>1 DEF Idle, Transaction
<1>4. tx' = [tx EXCEPT ![s] = r] /\ UNCHANGED rows
  BY <1>2 DEF Begin, rows
<1> HIDE DEF r
<1>5. UpsertFits(r, kind[x]) /\ ~ChangeFits(r, kind[x])
  BY <1>1, <1>2, <1>3 DEF UpsertFits, ChangeFits
<1>6. x # y /\ r.status # "GIVEN"
  BY <1>1, <1>2, <1>3 DEF Results
<1>7. Fits(r) /\ Rests(r) /\ Current(r)
  BY <1>1, <1>2, <1>3, <1>5, <1>6
     DEF Fits, Rests, Current, CurrentGround
<1>8. Signed(r)
  BY <1>2, <1>3 DEF Signed, TwoPersonKinds
<1> QED BY <1>3, <1>4, <1>7, <1>8 DEF Begins

LEMMA RequestBegins ==
  ASSUME Typed, BreachNotifiedBeforeClose, NEW s \in Sessions, Request(s)
  PROVE  \E r: Begins(s, r)
<1>1. PICK u \in Users, x \in Records:
        \/ EditsRegister(s, u, x) \/ MovesRegister(s, u, x)
        \/ Operates(s, u, x) \/ Obliges(s, u, x) \/ Monitors(s, u, x)
  BY DEF Request
<1>2. CASE EditsRegister(s, u, x)
  BY <1>2, Inserts, RegistersChange DEF EditsRegister
<1>3. CASE MovesRegister(s, u, x)
  BY <1>3, RegistersChange, DsrChanges, BreachChanges DEF MovesRegister
<1>4. CASE Operates(s, u, x)
  BY <1>4, Inserts, OperationsChange, AskedChanges, ConsentBegins
     DEF Operates
<1>5. CASE Obliges(s, u, x)
  BY <1>5, Inserts, AskedChanges, DeterminationBegins, ObligationBegins
     DEF Obliges
<1>6. CASE Monitors(s, u, x)
  BY <1>6, Inserts, AskedChanges DEF Monitors
<1> QED BY <1>1, <1>2, <1>3, <1>4, <1>5, <1>6

-----------------------------------------------------------------------------
(* Requests, statements and rollbacks, which change no row.                *)

LEMMA IdleTyped == Idle \in Transaction /\ Idle.stage = "idle" /\ Held(Idle)
BY UnnamedTyped DEF Idle, Transaction, Held

LEMMA RowsStay ==
  ASSUME UNCHANGED <<kind, row>>
  PROVE  \A r: Held(r) => Held(r)'
BY DEF Held, Fits, Rests, Current, CurrentRow, CurrentGround, Passed

\* What is known of the rows.
RowsInv ==
  /\ RowsFit /\ ApprovedIndependently /\ VerifiedBeforeWork
  /\ BreachNotifiedBeforeClose /\ ActiveOnFile /\ CandidateMadeOnce

LEMMA RowsInvStays ==
  ASSUME RowsInv, UNCHANGED <<kind, row, made, late>>
  PROVE  RowsInv'
BY DEF RowsInv, RowsFit, RowFits, ApprovedIndependently, VerifiedBeforeWork,
       BreachNotifiedBeforeClose, ActiveOnFile, CandidateMadeOnce,
       ApprovedStatuses

\* One session changes, into a transaction about which all is known.
LEMMA SessionSteps ==
  ASSUME Typed, Pending, SingleWriter, RowsInv, UNCHANGED rows,
         NEW s \in Sessions, NEW r \in Transaction,
         tx' = [tx EXCEPT ![s] = r], Held(r),
         r.stage # "idle" => r.on \in Records, r.stage = "idle" => r = Idle,
         r.stage = "written" =>
           \A t \in Sessions \ {s}: tx[t].stage = "written" => tx[t].on # r.on
  PROVE  IInv'
<1>1. \A t \in Sessions: tx'[t] = IF t = s THEN r ELSE tx[t]
  BY DEF Typed, TypeOK
<1>2. Typed'
  BY <1>1 DEF Typed, TypeOK, rows
<1>3. SingleWriter'
  BY <1>1 DEF SingleWriter
<1>4. Pending'
  <2>1. ASSUME NEW t \in Sessions PROVE Held(tx[t])'
    <3>1. PICK q: tx'[t] = q /\ Held(q)
      BY <1>1 DEF Pending
    <3>2. Held(q)'
      BY <3>1, RowsStay DEF rows
    <3> QED BY <3>1, <3>2
  <2> QED BY <2>1 DEF Pending
<1> QED BY <1>2, <1>3, <1>4, RowsInvStays DEF IInv, RowsInv, rows

LEMMA RequestKeeps ==
  ASSUME IInv, NEW s \in Sessions, Request(s)
  PROVE  IInv'
<1>1. PICK r: Begins(s, r)
  BY RequestBegins DEF IInv
<1>2. Held(r)
  BY <1>1 DEF Begins, Held
<1> QED BY <1>1, <1>2, SessionSteps DEF Begins, IInv, RowsInv

LEMMA ExecuteKeeps ==
  ASSUME IInv, NEW s \in Sessions, Execute(s)
  PROVE  IInv'
<1> DEFINE r == [tx[s] EXCEPT !.stage = "written"]
<1>1. /\ tx[s] \in Transaction /\ tx[s].stage = "checked"
      /\ tx' = [tx EXCEPT ![s] = r] /\ Held(tx[s]) /\ tx[s].on \in Records
  BY DEF Execute, IInv, Typed, TypeOK, Pending
<1>2. /\ r \in Transaction /\ r.stage = "written" /\ r.on = tx[s].on
      /\ r.from = tx[s].from /\ r.status = tx[s].status
      /\ r.creator = tx[s].creator /\ r.approver = tx[s].approver
      /\ r.facts = tx[s].facts /\ r.reads = tx[s].reads
      /\ r.stale = tx[s].stale
  BY <1>1 DEF Transaction
<1>3. Passes(tx[s]) /\ ~Blocked(s) /\ UNCHANGED rows
  BY DEF Execute, rows
<1> HIDE DEF r
<1>4. Fits(r) /\ Rests(r)
  BY <1>1, <1>2
     DEF Held, Fits, Rests, InsertFits, UpsertFits, ChangeFits, DsrFits,
         BreachFits
<1>5. Current(r) /\ Passed(r)
  BY <1>1, <1>2, <1>3
     DEF Held, Current, CurrentRow, CurrentGround, Passes, Passed, Written
<1>6. \A t \in Sessions \ {s}: tx[t].stage = "written" => tx[t].on # r.on
  BY <1>2, <1>3 DEF Blocked
<1> QED BY <1>1, <1>2, <1>3, <1>4, <1>5, <1>6, SessionSteps
        DEF Held, IInv, RowsInv

LEMMA FailKeeps ==
  ASSUME IInv, NEW s \in Sessions, Fail(s)
  PROVE  IInv'
<1>1. tx' = [tx EXCEPT ![s] = Idle] /\ UNCHANGED rows
  BY DEF Fail, rows
<1> QED BY <1>1, IdleTyped, SessionSteps DEF IInv, RowsInv

-----------------------------------------------------------------------------
(* Commits.                                                                *)

Commits(s, r, x) ==
  /\ r = tx[s] /\ x = r.on /\ x \in Records /\ r \in Transaction
  /\ r.stage = "written"
  /\ Fits(r) /\ Rests(r) /\ Current(r) /\ Passed(r)
  /\ row[x] \in Row /\ kind[x] \in Kinds /\ made[x] \in Nat
  /\ \A y \in Records: row'[y] = IF y = x THEN Written(r, row[x]) ELSE row[y]
  /\ \A y \in Records:
       late'[y] = IF y = x THEN late[y] \/ r.stale ELSE late[y]
  /\ \A y \in Records:
       made'[y] = IF y = x /\ r.status = "ACCEPTED" THEN made[y] + 1
                  ELSE made[y]
  /\ \A t \in Sessions:
       tx'[t] = IF t = s THEN Idle
                ELSE IF x \in tx[t].reads THEN [tx[t] EXCEPT !.stale = TRUE]
                ELSE tx[t]
  /\ kind' = kind

LEMMA CommitIs ==
  ASSUME Typed, Pending, NEW s \in Sessions, Commit(s)
  PROVE  Commits(s, tx[s], tx[s].on)
<1>1. tx[s].stage = "written" /\ tx[s].on \in Records /\ tx[s] \in Transaction
  BY DEF Commit, Typed, TypeOK
<1>2. Held(tx[s])
  BY DEF Pending
<1>3. Fits(tx[s]) /\ Rests(tx[s]) /\ Current(tx[s]) /\ Passed(tx[s])
  BY <1>1, <1>2 DEF Held
<1> QED BY <1>1, <1>3 DEF Commit, Commits, Typed, TypeOK

LEMMA WrittenIs ==
  ASSUME NEW r \in Transaction, NEW old \in Row,
         r.facts # Unnamed => r.facts \subseteq Facts
  PROVE  /\ Written(r, old) \in Row
         /\ Written(r, old).status =
              IF r.status = None THEN old.status ELSE r.status
         /\ Written(r, old).creator =
              IF r.creator = None THEN old.creator ELSE r.creator
         /\ Written(r, old).approver =
              IF r.approver = None THEN old.approver ELSE r.approver
         /\ Written(r, old).facts =
              IF r.facts = Unnamed THEN old.facts ELSE r.facts
BY DEF Written, Transaction, Row

LEMMA StaleIs ==
  ASSUME NEW r \in Transaction, NEW q, q = [r EXCEPT !.stale = TRUE]
  PROVE  /\ q \in Transaction /\ q.stage = r.stage /\ q.on = r.on
         /\ q.from = r.from /\ q.status = r.status
         /\ q.creator = r.creator /\ q.approver = r.approver
         /\ q.facts = r.facts /\ q.reads = r.reads /\ q.stale = TRUE
BY DEF Transaction

\* What a commit leaves of another transaction.
LEMMA CommitMarks ==
  ASSUME Typed, NEW s \in Sessions, NEW r, NEW x, Commits(s, r, x),
         NEW t \in Sessions, t # s
  PROVE  /\ tx'[t] \in Transaction /\ tx'[t].stage = tx[t].stage
         /\ tx'[t].on = tx[t].on /\ tx'[t].from = tx[t].from
         /\ tx'[t].status = tx[t].status /\ tx'[t].creator = tx[t].creator
         /\ tx'[t].approver = tx[t].approver /\ tx'[t].facts = tx[t].facts
         /\ tx'[t].reads = tx[t].reads
         /\ ~tx'[t].stale => ~tx[t].stale /\ x \notin tx[t].reads
         /\ tx[t].stage = "idle" => tx'[t] = Idle
<1>1. tx[t] \in Transaction
  BY DEF Typed, TypeOK
<1>2. tx[t].stage = "idle" => tx[t] = Idle /\ tx[t].reads = {}
  <2>1. tx[t].stage = "idle" => tx[t] = Idle
    BY DEF Typed
  <2>2. Idle.reads = {}
    BY DEF Idle
  <2> QED BY <2>1, <2>2
<1>3. CASE x \in tx[t].reads
  <2>1. tx'[t] = [tx[t] EXCEPT !.stale = TRUE]
    BY <1>3 DEF Commits
  <2> QED BY <1>1, <1>2, <1>3, <2>1, StaleIs
<1>4. CASE x \notin tx[t].reads
  <2>1. tx'[t] = tx[t]
    BY <1>4 DEF Commits
  <2> QED BY <1>1, <1>2, <1>4, <2>1
<1> QED BY <1>3, <1>4

LEMMA CommitTyped ==
  ASSUME Typed, Pending, NEW s \in Sessions, Commit(s)
  PROVE  Typed'
<1> DEFINE r == tx[s]
           x == r.on
<1>1. Commits(s, r, x)
  BY CommitIs
<1>2. Written(r, row[x]) \in Row
  BY <1>1, WrittenIs DEF Commits, Fits
<1>3. row' \in [Records -> Row] /\ late' \in [Records -> BOOLEAN]
      /\ made' \in [Records -> Nat] /\ UNCHANGED <<kind, frozen>>
  BY <1>1, <1>2 DEF Commit, Commits, Typed, TypeOK, Transaction
<1>4. ASSUME NEW t \in Sessions
      PROVE  /\ tx'[t] \in Transaction
             /\ tx'[t].stage # "idle" => tx'[t].on \in Records
             /\ tx'[t].stage = "idle" => tx'[t] = Idle
  <2>1. CASE t = s
    BY <1>1, <2>1, IdleTyped DEF Commits
  <2>2. CASE t # s
    BY <1>1, <2>2, CommitMarks DEF Typed
  <2> QED BY <2>1, <2>2
<1>5. tx' \in [Sessions -> Transaction]
  BY <1>4 DEF Commit
<1> QED BY <1>3, <1>4, <1>5 DEF Typed, TypeOK

LEMMA CommitLeavesOne ==
  ASSUME Typed, Pending, SingleWriter, NEW s \in Sessions, Commit(s)
  PROVE  SingleWriter'
<1>1. Commits(s, tx[s], tx[s].on)
  BY CommitIs
<1>2. ASSUME NEW t \in Sessions, (tx[t].stage = "written")'
      PROVE  tx[t].stage = "written" /\ tx'[t].on = tx[t].on
  <2>1. t # s
    <3>1. tx'[s] = Idle
      BY <1>1 DEF Commits
    <3> QED BY <1>2, <3>1, IdleTyped
  <2> QED BY <1>1, <1>2, <2>1, CommitMarks
<1> QED BY <1>2 DEF SingleWriter

\* A row keeps its creator and its approver, and is there to stay.
LEMMA CommitKeeps ==
  ASSUME Typed, NEW s \in Sessions, NEW r, NEW x, Commits(s, r, x),
         NEW y \in Records
  PROVE  /\ row[y].approver # None => row'[y].approver # None
         /\ row[y].status # "none" => row'[y].status # "none"
         /\ row[y].status # "none" /\ kind[y] # "DETERMINATION" =>
              row'[y].creator = row[y].creator
<1>1. CASE y # x
  BY <1>1 DEF Commits
<1>2. CASE y = x
  <2>1. /\ row'[x] = Written(r, row[x]) /\ row[x] \in Row /\ r \in Transaction
        /\ Fits(r) /\ r.on = x
    BY DEF Commits
  <2>2. row[x].status \in r.from
    BY DEF Commits, Passed
  <2>3. r.status # "none" /\ (r.creator # None =>
          row[x].status = "none" \/ kind[x] = "DETERMINATION")
    BY <2>1, <2>2
       DEF Fits, InsertFits, StartsAs, UpsertFits, Results, ChangeFits
  <2> QED BY <1>2, <2>1, <2>3, WrittenIs DEF Fits
<1> QED BY <1>1, <1>2

\* What other transactions know stays, or is stale.
LEMMA CommitHolds ==
  ASSUME Typed, Pending, SingleWriter, NEW s \in Sessions, Commit(s)
  PROVE  Pending'
<1> DEFINE x == tx[s].on
<1>1. Commits(s, tx[s], x)
  BY CommitIs
<1> SUFFICES ASSUME NEW t \in Sessions PROVE Held(tx[t])'
  BY DEF Pending
<1>2. CASE t = s
  <2>1. tx'[t] = Idle /\ Idle.stage = "idle"
    BY <1>1, <1>2, IdleTyped DEF Commits
  <2> QED BY <2>1 DEF Held
<1>3. CASE t # s /\ tx[t].stage # "idle"
  <2> DEFINE r == tx[t]
  <2>1. /\ r \in Transaction /\ r.on \in Records /\ r.reads \in SUBSET Records
        /\ Held(r) /\ Fits(r) /\ Rests(r) /\ Current(r)
    BY <1>3 DEF Pending, Held, Typed, TypeOK, Transaction
  <2>2. PICK q: q = tx'[t]
    OBVIOUS
  <2>3. /\ q \in Transaction /\ q.stage = r.stage /\ q.on = r.on
        /\ q.from = r.from /\ q.status = r.status /\ q.creator = r.creator
        /\ q.approver = r.approver /\ q.facts = r.facts /\ q.reads = r.reads
        /\ ~q.stale => ~r.stale /\ x \notin r.reads
    BY <1>1, <1>3, <2>2, CommitMarks
  <2> HIDE DEF r
  <2>4. kind' = kind /\ \A y \in Records \ {x}: row'[y] = row[y]
    BY <1>1 DEF Commits
  <2>5. Fits(q)'
    BY <2>1, <2>3, <2>4
       DEF Fits, InsertFits, UpsertFits, ChangeFits, DsrFits, BreachFits
  <2>6. Rests(q)'
    <3>1. /\ row[r.on].approver # None => row'[r.on].approver # None
          /\ row[r.on].status # "none" => row'[r.on].status # "none"
          /\ row[r.on].status # "none" /\ kind[r.on] # "DETERMINATION" =>
               row'[r.on].creator = row[r.on].creator
      BY <1>1, <2>1, CommitKeeps
    <3>2. ChangeFits(q, kind[r.on]) => ChangeFits(r, kind[r.on])
      BY <2>1, <2>3 DEF ChangeFits, DsrFits, BreachFits
    <3> QED BY <2>1, <2>3, <2>4, <3>1, <3>2 DEF Rests, TwoPersonKinds
  <2>7. Current(q)'
    BY <2>1, <2>3, <2>4 DEF Current, CurrentRow, CurrentGround
  <2>8. r.stage = "written" => Passed(q)'
    <3> SUFFICES ASSUME r.stage = "written" PROVE Passed(q)'
      OBVIOUS
    <3>1. r.on # x
      BY <1>1, <1>3 DEF SingleWriter, Commits, r
    <3>2. Passed(r)
      BY <2>1 DEF Held
    <3> QED BY <2>1, <2>3, <2>4, <3>1, <3>2 DEF Passed, Written
  <2> QED BY <2>2, <2>3, <2>5, <2>6, <2>7, <2>8 DEF Held
<1>4. CASE t # s /\ tx[t].stage = "idle"
  <2>1. tx'[t].stage = "idle"
    BY <1>1, <1>4, CommitMarks
  <2> QED BY <2>1 DEF Held
<1> QED BY <1>2, <1>3, <1>4

-----------------------------------------------------------------------------
(* The row a commit writes.                                                *)

\* What the status triggers let a row leave and reach.
LEMMA MovesAre ==
  /\ \A k \in Triggered, old, new \in Statuses:
       <<old, new>> \in Moves[k] /\ old \in FinalStatuses =>
         k = "DPIA" /\ old = "REJECTED"
  /\ \A old, new \in Statuses:
       /\ <<old, "SUSPENDED">> \in Moves["PROCESSOR"] => old = "ACTIVE"
       /\ <<old, "CLOSED">> \in Moves["TRANSFER"] => old = "ACTIVE"
  /\ Triggered = {"ACTIVITY", "DPIA", "PROCESSOR", "TRANSFER", "DSR", "BREACH",
                  "ALERT", "DUTY_ALERT", "IMPACT"}
<1>1. Triggered = {"ACTIVITY", "DPIA", "PROCESSOR", "TRANSFER", "DSR", "BREACH",
                   "ALERT", "DUTY_ALERT", "IMPACT"}
  BY DEF Triggered, Moves
<1>2. ASSUME NEW k \in Triggered, NEW old, NEW new,
             <<old, new>> \in Moves[k], old \in FinalStatuses
      PROVE  k = "DPIA" /\ old = "REJECTED"
  <2> USE <1>2 DEF Moves, FinalStatuses
  <2>1. CASE k = "ACTIVITY"   BY <2>1
  <2>2. CASE k = "DPIA"       BY <2>2
  <2>3. CASE k = "PROCESSOR"  BY <2>3
  <2>4. CASE k = "TRANSFER"   BY <2>4
  <2>5. CASE k = "DSR"        BY <2>5
  <2>6. CASE k = "BREACH"     BY <2>6
  <2>7. CASE k = "ALERT"      BY <2>7
  <2>8. CASE k = "DUTY_ALERT" BY <2>8
  <2>9. CASE k = "IMPACT"     BY <2>9
  <2> QED BY <1>1, <2>1, <2>2, <2>3, <2>4, <2>5, <2>6, <2>7, <2>8, <2>9
<1>3. ASSUME NEW old
      PROVE  /\ <<old, "SUSPENDED">> \in Moves["PROCESSOR"] => old = "ACTIVE"
             /\ <<old, "CLOSED">> \in Moves["TRANSFER"] => old = "ACTIVE"
  BY DEF Moves
<1> QED BY <1>1, <1>2, <1>3

\* The row that is written, as a function of the row it replaces.
Writes(r, x, old, new) ==
  /\ r \in Transaction /\ r.on = x /\ x \in Records
  /\ old = row[x] /\ old \in Row /\ new \in Row
  /\ new.status = IF r.status = None THEN old.status ELSE r.status
  /\ new.creator = IF r.creator = None THEN old.creator ELSE r.creator
  /\ new.approver = IF r.approver = None THEN old.approver ELSE r.approver
  /\ new.facts = IF r.facts = Unnamed THEN old.facts ELSE r.facts
  /\ Fits(r) /\ Rests(r) /\ Current(r)
  /\ old.status \in r.from /\ TriggerAccepts(kind[x], old, new)

LEMMA CommitWrites ==
  ASSUME NEW s \in Sessions, NEW r, NEW x, Commits(s, r, x)
  PROVE  Writes(r, x, row[x], row'[x])
<1>1. row'[x] = Written(r, row[x]) /\ row[x] \in Row /\ r \in Transaction
      /\ (r.facts # Unnamed => r.facts \subseteq Facts)
  BY DEF Commits, Fits
<1> QED BY <1>1, WrittenIs DEF Commits, Passed, Writes

\* A statement inserts, evaluates again, or changes a row that is there.
LEMMA WriteKinds ==
  ASSUME RowsInv, NEW r, NEW x, NEW old, NEW new, Writes(r, x, old, new)
  PROVE  \/ InsertFits(r, kind[x]) /\ old = NoRow /\ new.status = r.status
              /\ new.approver = None
         \/ UpsertFits(r, kind[x]) /\ new.status = r.status
         \/ ChangeFits(r, kind[x]) /\ old.status # "none"
              /\ new.creator = old.creator
<1>1. old.status = "none" => old = NoRow
  BY DEF RowsInv, RowsFit, RowFits, Writes
<1>2. CASE InsertFits(r, kind[x])
  BY <1>1, <1>2 DEF Writes, InsertFits, StartsAs, NoRow
<1>3. CASE UpsertFits(r, kind[x])
  <2>1. r.status # None
    BY <1>3, NoneApart DEF UpsertFits, Results, Statuses
  <2> QED BY <1>3, <2>1 DEF Writes
<1>4. CASE ChangeFits(r, kind[x])
  BY <1>4 DEF Writes, ChangeFits
<1> QED BY <1>2, <1>3, <1>4 DEF Writes, Fits

LEMMA WritesFit ==
  ASSUME RowsInv, NEW r, NEW x, NEW old, NEW new, Writes(r, x, old, new)
  PROVE  /\ new.status # "none"
         /\ kind[x] = "RETENTION" => new.status \in {"ACTIVE", "ARCHIVED"}
         /\ kind[x] = "CONSENT" => new.status \in {"GIVEN", "WITHDRAWN"}
         /\ kind[x] = "NOTICE" => new.status \in {"REGISTERED", "RETIRED"}
         /\ kind[x] = "DETERMINATION" => new.status \in Results
<1>1. CASE InsertFits(r, kind[x]) /\ new.status = r.status
  BY <1>1 DEF InsertFits, StartsAs
<1>2. CASE UpsertFits(r, kind[x]) /\ new.status = r.status
  BY <1>2 DEF UpsertFits, Results
<1>3. CASE ChangeFits(r, kind[x]) /\ old.status # "none"
  <2>1. RowFits(x) /\ old = row[x]
    BY DEF RowsInv, RowsFit, Writes
  <2> QED BY <1>3, <2>1, NoneApart, SomeStatuses
          DEF Writes, ChangeFits, RowFits
<1> QED BY <1>1, <1>2, <1>3, WriteKinds

\* A change that leaves the approver or writes one it is allowed to.
LEMMA WritesApproved ==
  ASSUME RowsInv, NEW r, NEW x, NEW old, NEW new, Writes(r, x, old, new),
         kind[x] \in Kinds
  PROVE  /\ new.status \in ApprovedStatuses[kind[x]] => new.approver # None
         /\ kind[x] \in TwoPersonKinds /\ new.approver # None =>
              new.approver # new.creator
<1> DEFINE k == kind[x]
<1>1. CASE InsertFits(r, k) /\ new.status = r.status /\ new.approver = None
  BY <1>1 DEF InsertFits, StartsAs, ApprovedStatuses
<1>2. CASE UpsertFits(r, k)
  BY <1>2 DEF UpsertFits, ApprovedStatuses, TwoPersonKinds
<1>3. CASE /\ ChangeFits(r, k) /\ old.status # "none"
           /\ new.creator = old.creator
  <2>1. /\ old = row[x] /\ x \in Records /\ r.on = x /\ old \in Row
        /\ new.status = IF r.status = None THEN old.status ELSE r.status
        /\ new.approver = IF r.approver = None THEN old.approver ELSE r.approver
        /\ Rests(r) /\ TriggerAccepts(k, old, new)
    BY DEF Writes
  <2>2. /\ old.status \in ApprovedStatuses[k] => old.approver # None
        /\ k \in TwoPersonKinds /\ old.approver # None =>
             old.approver # old.creator
    BY <2>1 DEF RowsInv, ApprovedIndependently, TwoPersonKinds
  <2>3. k \in TwoPersonKinds /\ new.approver # None =>
          new.approver # new.creator
    BY <1>3, <2>1, <2>2 DEF Rests
  <2>4. old.approver # None => new.approver # None
    BY <2>1
  <2>5. SUFFICES ASSUME new.status \in ApprovedStatuses[k],
                        new.status # old.status
                 PROVE  new.approver # None
    BY <2>2, <2>3, <2>4
  <2>6. CASE k \in {"ACTIVITY", "DPIA", "PROCESSOR", "TRANSFER"}
    <3>1. <<old.status, new.status>> \in Moves[k] /\ Complete(k, new)
      BY <1>3, <2>1, <2>5, <2>6, MovesAre DEF TriggerAccepts
    <3>2. old.status \in Statuses
      BY <2>1 DEF Row
    <3>3. CASE k = "ACTIVITY"
      BY <2>5, <3>1, <3>3 DEF Complete, ApprovedStatuses
    <3>4. CASE k = "DPIA"
      BY <2>5, <3>1, <3>4 DEF Complete, ApprovedStatuses, TwoPersons
    <3>5. CASE k = "PROCESSOR"
      <4>1. new.status = "ACTIVE" => new.approver # None
        BY <3>1, <3>5 DEF Complete, TwoPersons
      <4>2. new.status = "SUSPENDED" => old.status = "ACTIVE"
        BY <3>1, <3>2, <3>5, MovesAre, SomeStatuses
      <4> QED BY <2>2, <2>4, <2>5, <3>5, <4>1, <4>2 DEF ApprovedStatuses
    <3>6. CASE k = "TRANSFER"
      <4>1. new.status = "ACTIVE" => new.approver # None
        BY <3>1, <3>6 DEF Complete, TwoPersons
      <4>2. new.status = "CLOSED" => old.status = "ACTIVE"
        BY <3>1, <3>2, <3>6, MovesAre, SomeStatuses
      <4> QED BY <2>2, <2>4, <2>5, <3>6, <4>1, <4>2 DEF ApprovedStatuses
    <3> QED BY <2>6, <3>3, <3>4, <3>5, <3>6
  <2>7. CASE k = "NOTICE"
    <3>1. r.status = "RETIRED"
      BY <2>1, <2>5, <2>7 DEF ApprovedStatuses
    <3> QED BY <1>3, <2>1, <2>4, <2>7, <3>1 DEF Rests
  <2>8. CASE k = "CANDIDATE"
    BY <1>3, <2>1, <2>8 DEF ChangeFits
  <2>9. k \in {"ACTIVITY", "DPIA", "PROCESSOR", "TRANSFER", "NOTICE",
               "CANDIDATE"}
    BY <2>5 DEF ApprovedStatuses
  <2> QED BY <2>6, <2>7, <2>8, <2>9
<1> QED BY <1>1, <1>2, <1>3, WriteKinds

LEMMA WritesVerified ==
  ASSUME RowsInv, NEW r, NEW x, NEW old, NEW new, Writes(r, x, old, new),
         kind[x] = "DSR"
  PROVE  /\ new.status \in {"IN_PROGRESS", "COMPLETED"} =>
              "verified" \in new.facts
         /\ new.status = "ON_HOLD" =>
              "verified" \in new.facts \/ late[x] \/ r.stale
         /\ new.status = "COMPLETED" => "outcome" \in new.facts
<1>1. CASE InsertFits(r, kind[x]) /\ new.status = r.status
  BY <1>1 DEF InsertFits, StartsAs
<1>2. CASE ChangeFits(r, kind[x]) /\ old.status # "none"
  <2>1. /\ r.on = x /\ DsrFits(r) /\ x \in r.reads
        /\ new.status = r.status /\ new.facts = r.facts
        /\ old = row[x] /\ Current(r) /\ TriggerAccepts("DSR", old, new)
    BY <1>2 DEF Writes, ChangeFits, DsrFits
  <2>2. /\ new.status \in {"IN_PROGRESS", "COMPLETED"} =>
             "verified" \in new.facts
        /\ new.status = "COMPLETED" => "outcome" \in new.facts
    BY <2>1 DEF DsrFits
  <2>3. ASSUME new.status = "ON_HOLD", ~r.stale
        PROVE  "verified" \in new.facts
    <3>1. old.status # "ON_HOLD"
      BY <2>1, <2>3 DEF Current, CurrentRow
    <3>2. DsrComplete(new)
      BY <1>2, <2>1, <2>3, <3>1, MovesAre DEF TriggerAccepts, Complete
    <3> QED BY <2>3, <3>2 DEF DsrComplete
  <2> QED BY <2>2, <2>3
<1> QED BY <1>1, <1>2, WriteKinds DEF UpsertFits

LEMMA WritesBreach ==
  ASSUME RowsInv, NEW r, NEW x, NEW old, NEW new, Writes(r, x, old, new),
         kind[x] = "BREACH"
  PROVE  /\ new.status = "NOTIFIED" => {"required", "notified"} \subseteq new.facts
         /\ new.status = "CLOSED" =>
              "dismissed" \in new.facts \/ "notified" \in new.facts
         /\ new.status \in {"CONTAINED", "NOTIFICATION_ASSESSMENT", "NOTIFIED",
                            "CLOSED"} => "contained" \in new.facts
<1>1. CASE InsertFits(r, kind[x]) /\ new.status = r.status
  BY <1>1 DEF InsertFits, StartsAs
<1>2. CASE ChangeFits(r, kind[x]) /\ old.status # "none"
  <2>1. BreachFits(r) /\ new.status = r.status /\ new.facts = r.facts
    BY <1>2 DEF Writes, ChangeFits, BreachFits
  <2> QED BY <2>1 DEF BreachFits
<1> QED BY <1>1, <1>2, WriteKinds DEF UpsertFits

OnFile(k, new) ==
  /\ k = "PROCESSOR" /\ new.status = "ACTIVE" => "vetted" \in new.facts
  /\ k = "TRANSFER" /\ new.status = "ACTIVE" => "assessed" \in new.facts
  /\ k = "DPIA" /\ new.status = "APPROVED" => "summaries" \in new.facts

LEMMA WritesOnFile ==
  ASSUME RowsInv, NEW r, NEW x, NEW old, NEW new, Writes(r, x, old, new),
         ~late[x], ~r.stale
  PROVE  OnFile(kind[x], new)
<1> DEFINE k == kind[x]
<1> SUFFICES ASSUME k \in {"PROCESSOR", "TRANSFER", "DPIA"} PROVE OnFile(k, new)
  BY DEF OnFile
<1>1. CASE InsertFits(r, k) /\ new.status = r.status
  BY <1>1 DEF InsertFits, StartsAs, OnFile
<1>2. CASE ChangeFits(r, k) /\ old.status # "none"
  <2>1. /\ r.on = x /\ x \in Records /\ old = row[x]
        /\ new.status = IF r.status = None THEN old.status ELSE r.status
        /\ new.facts = IF r.facts = Unnamed THEN old.facts ELSE r.facts
        /\ Current(r) /\ TriggerAccepts(k, old, new)
    BY DEF Writes
  <2>2. OnFile(k, old)
    BY <2>1 DEF RowsInv, ActiveOnFile, OnFile
  <2>3. CASE new.status = old.status
    <3>1. CASE r.facts = Unnamed
      BY <2>1, <2>2, <2>3, <3>1 DEF OnFile
    <3>2. CASE r.facts # Unnamed
      <4>1. k \in {"PROCESSOR", "TRANSFER"} /\ x \in r.reads
        BY <1>2, <2>1, <3>2 DEF ChangeFits
      <4>2. old.status # "ACTIVE"
        BY <2>1, <3>2, <4>1 DEF Current, CurrentRow
      <4> QED BY <2>3, <4>1, <4>2 DEF OnFile
    <3> QED BY <3>1, <3>2
  <2>4. CASE new.status # old.status
    <3>1. Complete(k, new)
      BY <1>2, <2>1, <2>4, MovesAre DEF TriggerAccepts
    <3> QED BY <3>1 DEF Complete, OnFile
  <2> QED BY <2>3, <2>4
<1> QED BY <1>1, <1>2, WriteKinds DEF UpsertFits

Made(k, new) == IF k = "CANDIDATE" /\ new.status = "ACCEPTED" THEN 1 ELSE 0

LEMMA WritesMade ==
  ASSUME RowsInv, NEW r, NEW x, NEW old, NEW new, Writes(r, x, old, new)
  PROVE  Made(kind[x], new) =
           IF r.status = "ACCEPTED" THEN made[x] + 1 ELSE made[x]
<1>1. made[x] = Made(kind[x], old)
  BY DEF RowsInv, CandidateMadeOnce, Made, Writes
<1>2. CASE InsertFits(r, kind[x]) /\ old = NoRow /\ new.status = r.status
  BY <1>1, <1>2 DEF InsertFits, StartsAs, Made, NoRow
<1>3. CASE UpsertFits(r, kind[x]) /\ new.status = r.status
  BY <1>1, <1>3 DEF UpsertFits, Results, Made
<1>4. CASE ChangeFits(r, kind[x])
  <2>1. CASE kind[x] = "CANDIDATE"
    <3>1. /\ old.status = "PROPOSED" /\ r.status \in {"ACCEPTED", "REJECTED"}
          /\ new.status = IF r.status = None THEN old.status ELSE r.status
      BY <1>4, <2>1 DEF ChangeFits, Writes
    <3>2. new.status = r.status
      BY <3>1, NoneApart, SomeStatuses
    <3> QED BY <1>1, <2>1, <3>1, <3>2 DEF Made
  <2>2. CASE kind[x] # "CANDIDATE"
    BY <1>1, <1>4, <2>2 DEF ChangeFits, Made
  <2> QED BY <2>1, <2>2
<1> QED BY <1>2, <1>3, <1>4, WriteKinds

\* The rows after a commit.
LEMMA CommitKeepsRows ==
  ASSUME IInv, NEW s \in Sessions, Commit(s)
  PROVE  RowsInv'
<1>1. PICK r, x: Commits(s, r, x)
  BY CommitIs DEF IInv
<1>2. RowsInv
  BY DEF IInv, RowsInv
<1>3. PICK new: new = row'[x]
  OBVIOUS
<1>4. Writes(r, x, row[x], new)
  BY <1>1, <1>3, CommitWrites
<1>5. /\ x \in Records /\ kind' = kind /\ kind[x] \in Kinds
      /\ \A y \in Records \ {x}:
           row'[y] = row[y] /\ late'[y] = late[y] /\ made'[y] = made[y]
      /\ late'[x] = (late[x] \/ r.stale)
      /\ made'[x] = IF r.status = "ACCEPTED" THEN made[x] + 1 ELSE made[x]
  BY <1>1 DEF Commits
<1>6. RowsFit'
  <2>1. /\ new.status # "none"
        /\ kind[x] = "RETENTION" => new.status \in {"ACTIVE", "ARCHIVED"}
        /\ kind[x] = "CONSENT" => new.status \in {"GIVEN", "WITHDRAWN"}
        /\ kind[x] = "NOTICE" => new.status \in {"REGISTERED", "RETIRED"}
        /\ kind[x] = "DETERMINATION" => new.status \in Results
    BY <1>2, <1>4, WritesFit
  <2> QED BY <1>2, <1>3, <1>5, <2>1 DEF RowsInv, RowsFit, RowFits
<1>7. ApprovedIndependently'
  <2>1. /\ new.status \in ApprovedStatuses[kind[x]] => new.approver # None
        /\ kind[x] \in TwoPersonKinds /\ new.approver # None =>
             new.approver # new.creator
    BY <1>2, <1>4, <1>5, WritesApproved
  <2> QED BY <1>2, <1>3, <1>5, <2>1
          DEF RowsInv, ApprovedIndependently, TwoPersonKinds, ApprovedStatuses
<1>8. VerifiedBeforeWork'
  <2>1. kind[x] = "DSR" =>
          /\ new.status \in {"IN_PROGRESS", "COMPLETED"} =>
               "verified" \in new.facts
          /\ new.status = "ON_HOLD" =>
               "verified" \in new.facts \/ late[x] \/ r.stale
          /\ new.status = "COMPLETED" => "outcome" \in new.facts
    BY <1>2, <1>4, WritesVerified
  <2> QED BY <1>2, <1>3, <1>5, <2>1 DEF RowsInv, VerifiedBeforeWork
<1>9. BreachNotifiedBeforeClose'
  <2>1. kind[x] = "BREACH" =>
          /\ new.status = "NOTIFIED" =>
               {"required", "notified"} \subseteq new.facts
          /\ new.status = "CLOSED" =>
               "dismissed" \in new.facts \/ "notified" \in new.facts
          /\ new.status \in {"CONTAINED", "NOTIFICATION_ASSESSMENT", "NOTIFIED",
                             "CLOSED"} => "contained" \in new.facts
    BY <1>2, <1>4, WritesBreach
  <2> QED BY <1>2, <1>3, <1>5, <2>1 DEF RowsInv, BreachNotifiedBeforeClose
<1>10. ActiveOnFile'
  <2>1. late'[x] \/ OnFile(kind[x], new)
    BY <1>2, <1>4, <1>5, WritesOnFile
  <2> QED BY <1>2, <1>3, <1>5, <2>1 DEF RowsInv, ActiveOnFile, OnFile
<1>11. CandidateMadeOnce'
  <2>1. made'[x] = Made(kind[x], new)
    BY <1>2, <1>4, <1>5, WritesMade
  <2> QED BY <1>2, <1>3, <1>5, <2>1 DEF RowsInv, CandidateMadeOnce, Made
<1> QED BY <1>6, <1>7, <1>8, <1>9, <1>10, <1>11 DEF RowsInv

LEMMA CommitPreserves ==
  ASSUME IInv, NEW s \in Sessions, Commit(s)
  PROVE  IInv'
<1> QED BY CommitTyped, CommitHolds, CommitLeavesOne, CommitKeepsRows
        DEF IInv, RowsInv

-----------------------------------------------------------------------------
(* The steps of the environment.                                           *)

LEMMA FreezeKeeps ==
  ASSUME IInv, Freeze
  PROVE  IInv'
<1>1. UNCHANGED <<kind, row, made, late, tx>> /\ frozen' \in BOOLEAN
  BY DEF Freeze
<1>2. Typed' /\ SingleWriter'
  BY <1>1 DEF IInv, Typed, TypeOK, SingleWriter
<1>3. Pending'
  BY <1>1, RowsStay DEF IInv, Pending
<1> QED BY <1>1, <1>2, <1>3, RowsInvStays DEF IInv, RowsInv

\* No request reads an impact, and one that inserts or changes it is known by
\* what its register makes of it.
LEMMA MaterializeKeeps ==
  ASSUME IInv, NEW x \in Records, MaterializeImpact(x)
  PROVE  IInv'
<1>1. /\ kind[x] = "IMPACT" /\ row[x] = NoRow
      /\ UNCHANGED <<kind, made, frozen, late, tx>>
  BY DEF MaterializeImpact, IInv, RowsFit, RowFits
<1>2. /\ row' \in [Records -> Row]
      /\ row'[x] = [NoRow EXCEPT !.status = "OPEN"]
      /\ \A y \in Records: y # x => row'[y] = row[y]
  BY <1>1, SomeStatuses DEF MaterializeImpact, IInv, Typed, TypeOK, Row
<1>3. row'[x].status = "OPEN"
  BY <1>2 DEF NoRow
<1>4. Typed' /\ SingleWriter'
  BY <1>1, <1>2 DEF IInv, Typed, TypeOK, SingleWriter
<1>5. RowsInv'
  <2>1. /\ RowsInv /\ row'[x].approver = None /\ row[x].status = "none"
        /\ made[x] = 0
    BY <1>1, <1>2 DEF IInv, RowsInv, CandidateMadeOnce, NoRow
  <2>2. RowsFit' /\ CandidateMadeOnce'
    BY <1>1, <1>2, <1>3, <2>1 DEF RowsInv, RowsFit, RowFits, CandidateMadeOnce
  <2>3. ApprovedIndependently'
    BY <1>1, <1>2, <1>3, <2>1
       DEF RowsInv, ApprovedIndependently, ApprovedStatuses, Kinds
  <2>4. VerifiedBeforeWork' /\ BreachNotifiedBeforeClose' /\ ActiveOnFile'
    BY <1>1, <1>2, <1>3, <2>1
       DEF RowsInv, VerifiedBeforeWork, BreachNotifiedBeforeClose, ActiveOnFile
  <2> QED BY <2>2, <2>3, <2>4 DEF RowsInv
<1>6. ASSUME NEW s \in Sessions PROVE Held(tx[s])'
  <2>1. PICK r: /\ r = tx[s] /\ tx'[s] = r /\ Held(r)
                /\ r.stage # "idle" => r.on \in Records
                /\ r.reads \subseteq Records
                /\ r.stage = "written" => r.stage # "idle"
    BY <1>1 DEF IInv, Pending, Typed, TypeOK, Transaction
  <2>2. ASSUME r.stage # "idle" PROVE Fits(r)' /\ Rests(r)' /\ Current(r)'
    <3>1. Fits(r) /\ Rests(r) /\ Current(r) /\ r.on \in Records
          /\ \A y \in r.reads: y # x /\ y \in Records
      BY <1>1, <2>1, <2>2 DEF Held, Fits
    <3>2. Fits(r)'
      BY <1>1, <3>1 DEF Fits
    <3>3. Rests(r)'
      <4>1. r.on # x => row'[r.on] = row[r.on]
        BY <1>2, <3>1
      <4>2. kind[r.on] \in TwoPersonKinds => r.on # x
        BY <1>1 DEF TwoPersonKinds
      <4> QED BY <1>1, <3>1, <4>1, <4>2 DEF Rests, TwoPersonKinds
    <3>4. Current(r)'
      <4>1. \A y \in r.reads: row'[y] = row[y]
        BY <1>2, <3>1
      <4> QED BY <1>1, <3>1, <4>1 DEF Current, CurrentRow, CurrentGround
    <3> QED BY <3>2, <3>3, <3>4
  <2>3. ASSUME r.stage = "written" PROVE Passed(r)'
    <3>1. Passed(r) /\ r.on \in Records /\ Fits(r)
      BY <2>1, <2>3 DEF Held
    <3>2. r.on # x
      <4>1. row[x].status = "none"
        BY <1>1 DEF NoRow
      <4> QED BY <1>1, <3>1, <4>1
              DEF Passed, Fits, InsertFits, StartsAs, UpsertFits, ChangeFits
    <3>3. row'[r.on] = row[r.on]
      BY <1>2, <3>1, <3>2
    <3> QED BY <1>1, <3>1, <3>3 DEF Passed, Written
  <2>4. Held(r)'
    BY <2>2, <2>3 DEF Held
  <2> QED BY <2>1, <2>4
<1> QED BY <1>4, <1>5, <1>6 DEF IInv, Pending, RowsInv

-----------------------------------------------------------------------------
(* The invariant.                                                          *)

LEMMA Initial == Init => IInv
<1> SUFFICES ASSUME Init PROVE IInv
  OBVIOUS
<1>1. /\ kind \in [Records -> Kinds] /\ row = [x \in Records |-> NoRow]
      /\ made = [x \in Records |-> 0] /\ tx = [s \in Sessions |-> Idle]
      /\ late = [x \in Records |-> FALSE] /\ frozen = FALSE
  BY LayoutAssumption DEF Init
<1>2. NoRow \in Row
  BY DEF NoRow, Row, Statuses
<1>3. Typed
  BY <1>1, <1>2, IdleTyped DEF Typed, TypeOK
<1>4. Pending /\ SingleWriter
  BY <1>1, IdleTyped DEF Pending, SingleWriter
<1>5. RowsInv
  <2>1. \A x \in Records:
          row[x] = NoRow /\ row[x].status = "none" /\ row[x].approver = None
            /\ made[x] = 0
    BY <1>1 DEF NoRow
  <2>2. RowsFit
    BY <2>1 DEF RowsFit, RowFits
  <2>3. ApprovedIndependently
    BY <1>1, <2>1 DEF ApprovedIndependently, ApprovedStatuses
  <2> QED BY <2>1, <2>2, <2>3
          DEF RowsInv, VerifiedBeforeWork, BreachNotifiedBeforeClose,
              ActiveOnFile, CandidateMadeOnce
<1> QED BY <1>3, <1>4, <1>5 DEF IInv, RowsInv

LEMMA Inductive == IInv /\ [Next]_vars => IInv'
<1> SUFFICES ASSUME IInv, [Next]_vars PROVE IInv'
  OBVIOUS
<1>1. CASE Next
  BY <1>1, RequestKeeps, ExecuteKeeps, CommitPreserves, FailKeeps,
     MaterializeKeeps, FreezeKeeps DEF Next
<1>2. CASE UNCHANGED vars
  <2>1. UNCHANGED <<kind, row, made, frozen, late, tx>>
    BY <1>2 DEF vars
  <2>2. Typed' /\ SingleWriter'
    BY <2>1 DEF IInv, Typed, TypeOK, SingleWriter
  <2>3. Pending'
    BY <2>1, RowsStay DEF IInv, Pending
  <2> QED BY <2>1, <2>2, <2>3, RowsInvStays DEF IInv, RowsInv
<1> QED BY <1>1, <1>2

\* Every reachable state satisfies the inductive invariant: what a request
\* under way knows of the rows it read and of the row it has locked.
THEOREM Invariance == Spec => []IInv
BY Initial, Inductive, PTL DEF Spec

\* Type correctness: what requests write, overlapping or not, is a row.
THEOREM TypeCorrect == Spec => []TypeOK
<1>1. IInv => TypeOK
  BY DEF IInv, Typed
<1> QED BY <1>1, Invariance, PTL

\* No activity, DPIA, processor, transfer, notice or candidate counts as
\* approved or decided without a second person, whatever requests overlap.
THEOREM Independence == Spec => []ApprovedIndependently
<1>1. IInv => ApprovedIndependently
  BY DEF IInv
<1> QED BY <1>1, Invariance, PTL

\* A data subject request is worked on and completed with its identity
\* verified; on hold it loses that only by an overlap.
THEOREM IdentityFirst == Spec => []VerifiedBeforeWork
<1>1. IInv => VerifiedBeforeWork
  BY DEF IInv
<1> QED BY <1>1, Invariance, PTL

\* A breach that had to be notified does not close before it was.
THEOREM NotifiedFirst == Spec => []BreachNotifiedBeforeClose
<1>1. IInv => BreachNotifiedBeforeClose
  BY DEF IInv
<1> QED BY <1>1, Invariance, PTL

\* An approval in force has its file on record, but for overlapping edits.
THEOREM FileStays == Spec => []ActiveOnFile
<1>1. IInv => ActiveOnFile
  BY DEF IInv
<1> QED BY <1>1, Invariance, PTL

\* A candidate makes one scope or PBC request, however many accept it.
THEOREM MadeOnce == Spec => []CandidateMadeOnce
<1>1. IInv => CandidateMadeOnce
  BY DEF IInv
<1> QED BY <1>1, Invariance, PTL

-----------------------------------------------------------------------------
(* The action properties.                                                  *)

Final(x) ==
  row[x].status \in FinalStatuses
    /\ ~(kind[x] = "DPIA" /\ row[x].status = "REJECTED")

\* A commit over a final row leaves its status, and rests on a stale read
\* unless the row is a notice.
LEMMA WritesFinal ==
  ASSUME RowsInv, NEW r, NEW x, NEW old, NEW new, Writes(r, x, old, new),
         kind[x] \in Kinds, Final(x)
  PROVE  new.status = old.status /\ (kind[x] = "NOTICE" \/ r.stale)
<1> DEFINE k == kind[x]
<1>1. /\ old = row[x] /\ r.on = x /\ x \in Records /\ old \in Row /\ new \in Row
      /\ new.status = IF r.status = None THEN old.status ELSE r.status
      /\ Current(r) /\ TriggerAccepts(k, old, new) /\ old.status \in r.from
      /\ old.status \in FinalStatuses
      /\ old.status \in Statuses /\ new.status \in Statuses
  BY DEF Writes, Final, Row
<1>2. ~InsertFits(r, k)
  BY <1>1 DEF InsertFits, FinalStatuses
<1>3. ~UpsertFits(r, k)
  BY <1>1 DEF UpsertFits, RowsInv, RowsFit, RowFits, Results, FinalStatuses
<1>4. ChangeFits(r, k) /\ old.status # "none"
  BY <1>2, <1>3, WriteKinds
<1>5. x \in r.reads
  BY <1>1, <1>4 DEF ChangeFits
<1>6. new.status = old.status
  <2>1. CASE k \in Triggered
    BY <1>1, <1>4, <2>1, MovesAre DEF TriggerAccepts, Final
  <2>2. CASE k \in {"RETENTION", "CONSENT", "NOTICE"}
    BY <1>1, <1>4, <2>2
       DEF ChangeFits, RowsInv, RowsFit, RowFits, FinalStatuses
  <2>3. CASE k \in {"CANDIDATE", "PROFILE", "DETERMINATION", "OBLIGATION"}
    BY <1>1, <1>4, <1>5, <2>3 DEF ChangeFits, FinalStatuses
  <2> QED BY <2>1, <2>2, <2>3, MovesAre DEF Kinds
<1>7. ASSUME ~r.stale, k # "NOTICE" PROVE FALSE
  <2>1. k = "TRANSFER" /\ r.status = "UNDER_REVIEW"
    BY <1>1, <1>5, <1>7 DEF Current, CurrentRow, Final
  <2>2. old.status = "UNDER_REVIEW"
    BY <1>1, <1>6, <2>1, NoneApart, SomeStatuses
  <2> QED BY <1>1, <2>2 DEF FinalStatuses
<1> QED BY <1>6, <1>7

\* What is closed, decided or resolved keeps its status, and what is on record
\* with it unless a request of before was still to land.
THEOREM FinalKept == Spec => FinalStays
<1> DEFINE Stays ==
      \A x \in Records:
       row[x].status \in FinalStatuses
         /\ ~(kind[x] = "DPIA" /\ row[x].status = "REJECTED") =>
           /\ row'[x].status = row[x].status
           /\ \/ row'[x] = row[x]
              \/ kind[x] = "NOTICE"
              \/ \E s \in Sessions:
                   tx[s].stage = "written" /\ tx[s].on = x /\ tx[s].stale
<1>1. IInv /\ [Next]_vars => [Stays]_vars
  <2> SUFFICES ASSUME IInv, Next, NEW x \in Records, Final(x)
               PROVE  /\ row'[x].status = row[x].status
                      /\ \/ row'[x] = row[x]
                         \/ kind[x] = "NOTICE"
                         \/ \E s \in Sessions: /\ tx[s].stage = "written"
                                               /\ tx[s].on = x /\ tx[s].stale
    BY DEF vars, Final
  <2>1. ASSUME NEW s \in Sessions, Request(s) PROVE row' = row
    <3>1. PICK r: Begins(s, r)
      BY <2>1, RequestBegins DEF IInv
    <3> QED BY <3>1 DEF Begins, rows
  <2>2. ASSUME NEW y \in Records, MaterializeImpact(y) PROVE row'[x] = row[x]
    <3>1. y # x
      BY <2>2 DEF MaterializeImpact, Final, FinalStatuses
    <3> QED BY <2>2, <3>1 DEF MaterializeImpact, IInv, Typed, TypeOK
  <2>3. ASSUME NEW s \in Sessions, Commit(s), row'[x] # row[x]
        PROVE  /\ row'[x].status = row[x].status
               /\ kind[x] = "NOTICE" \/ tx[s].stale
               /\ tx[s].stage = "written" /\ tx[s].on = x
    <3>1. Commits(s, tx[s], tx[s].on)
      BY <2>3, CommitIs DEF IInv
    <3>2. tx[s].on = x /\ tx[s].stage = "written" /\ kind[x] \in Kinds
      BY <2>3, <3>1 DEF Commits
    <3>3. Writes(tx[s], x, row[x], row'[x])
      BY <3>1, <3>2, CommitWrites
    <3>4. RowsInv
      BY DEF IInv, RowsInv
    <3>5. row'[x].status = row[x].status /\ (kind[x] = "NOTICE" \/ tx[s].stale)
      BY <3>2, <3>3, <3>4, WritesFinal
    <3> QED BY <3>2, <3>5
  <2>4. CASE row'[x] # row[x]
    <3>1. PICK s \in Sessions: Commit(s)
      BY <2>1, <2>2, <2>4 DEF Next, Execute, Fail, Freeze
    <3> QED BY <2>3, <2>4, <3>1
  <2> QED BY <2>4
<1> QED BY <1>1, Invariance, PTL DEF Spec, FinalStays

\* A consent, an APPLICABLE determination and an obligation rest on a notice, a
\* profile and a determination that hold at the commit, if none was changed
\* since it was read.
THEOREM GroundedCommits == Spec => Grounded
<1> DEFINE Grounds ==
      \A s \in Sessions:
       tx[s].stage = "written" /\ tx'[s] = Idle /\ row' # row
         /\ ~tx[s].stale =>
           \A y \in tx[s].reads:
             /\ tx[s].status = "GIVEN" =>
                  row[y].approver # None /\ row[y].status # "RETIRED"
             /\ tx[s].status = "APPLICABLE" =>
                  {"local", "established"} \subseteq row[y].facts
             /\ kind[tx[s].on] = "OBLIGATION" => row[y].status = "APPLICABLE"
<1>1. IInv => Grounds
  <2> SUFFICES ASSUME IInv, NEW s \in Sessions, tx[s].stage = "written",
                      ~tx[s].stale, NEW y \in tx[s].reads
               PROVE  CurrentGround(tx[s], y)
    BY DEF CurrentGround
  <2>1. Held(tx[s])
    BY DEF IInv, Pending
  <2> QED BY <2>1 DEF Held, Current
<1> QED BY <1>1, Invariance, PTL DEF Spec, Grounded

-----------------------------------------------------------------------------
(* Review by four eyes.                                                    *)

\* What is on record, or under way, in a register that is reviewed says who
\* made it.
Authored ==
  /\ \A s \in Sessions: tx[s].stage # "idle" => Signed(tx[s])
  /\ \A x \in Records:
       Reviewed(x) /\ row[x].status # "none" => row[x].creator # None

LEMMA ReviewedIs == \A x: Reviewed(x) <=> kind[x] \in TwoPersonKinds
BY DEF Reviewed, TwoPersonKinds

\* A request, a statement or a rollback leaves the rows alone.
LEMMA AuthoredStays ==
  ASSUME IInv, Authored, NEW s \in Sessions,
         Request(s) \/ Execute(s) \/ Fail(s)
  PROVE  Authored' /\ row' = row /\ kind' = kind
<1>1. ASSUME NEW r \in Transaction, UNCHANGED rows,
             tx' = [tx EXCEPT ![s] = r], r.stage # "idle" => Signed(r)
      PROVE  Authored' /\ row' = row /\ kind' = kind
  <2>1. row' = row /\ kind' = kind
        /\ \A t \in Sessions: tx'[t] = IF t = s THEN r ELSE tx[t]
    BY <1>1 DEF IInv, Typed, TypeOK, rows
  <2>2. ASSUME NEW t \in Sessions, tx'[t].stage # "idle"
        PROVE  Signed(tx'[t])
    BY <1>1, <2>1, <2>2 DEF Authored
  <2>3. ASSUME NEW t \in Sessions, tx'[t].stage # "idle"
        PROVE  Signed(tx[t])'
    <3>1. PICK q: q = tx'[t] /\ Signed(q)
      BY <2>2, <2>3
    <3>2. Signed(q)'
      BY <2>1, <3>1 DEF Signed
    <3> QED BY <3>1, <3>2
  <2> QED BY <2>1, <2>3 DEF Authored, Reviewed
<1>2. CASE Request(s)
  <2>1. PICK r: Begins(s, r)
    BY <1>2, RequestBegins DEF IInv
  <2> QED BY <1>1, <2>1 DEF Begins
<1>3. CASE Execute(s)
  <2> DEFINE r == [tx[s] EXCEPT !.stage = "written"]
  <2>1. /\ tx[s] \in Transaction /\ tx[s].stage # "idle" /\ Signed(tx[s])
        /\ tx' = [tx EXCEPT ![s] = r] /\ UNCHANGED rows
    BY <1>3 DEF Execute, IInv, Typed, TypeOK, Authored, rows
  <2>2. /\ r \in Transaction /\ r.on = tx[s].on /\ r.from = tx[s].from
        /\ r.approver = tx[s].approver /\ r.status = tx[s].status
        /\ r.creator = tx[s].creator
    BY <2>1 DEF Transaction
  <2> HIDE DEF r
  <2>3. Signed(r)
    BY <2>1, <2>2 DEF Signed, InsertFits
  <2> QED BY <1>1, <2>1, <2>2, <2>3
<1>4. CASE Fail(s)
  BY <1>1, <1>4, IdleTyped DEF Fail, rows
<1> QED BY <1>2, <1>3, <1>4

\* What a commit makes of a row of a reviewed register: it is made, by the
\* member whose request inserts it, or changed, with its maker kept and its
\* approver kept or replaced by somebody else.
LEMMA WritesReviewed ==
  ASSUME IInv, Authored, NEW s \in Sessions, Commit(s), Reviewed(tx[s].on),
         NEW x, x = tx[s].on
  PROVE  /\ row'[x].status # "none" /\ row'[x].creator # None
         /\ \/ /\ row[x].creator = None /\ row'[x].creator \in Users
               /\ row'[x].approver = row[x].approver
            \/ /\ row'[x].creator = row[x].creator
               /\ row'[x].approver = row[x].approver
            \/ /\ row'[x].creator = row[x].creator
               /\ row'[x].approver \in Users
               /\ row[x].creator # row'[x].approver
<1>1. PICK r: r = tx[s] /\ Commits(s, r, x)
  BY CommitIs DEF IInv
<1>2. PICK old, new: old = row[x] /\ new = row'[x] /\ Writes(r, x, old, new)
  BY <1>1, CommitWrites
<1>3. RowsInv /\ Signed(r) /\ kind[x] \in TwoPersonKinds /\ r.on = x
  BY <1>1, ReviewedIs DEF IInv, RowsInv, Authored, Commits
<1>4. /\ new.creator = IF r.creator = None THEN old.creator ELSE r.creator
      /\ new.approver = IF r.approver = None THEN old.approver ELSE r.approver
      /\ r.approver \in Users \cup {None} /\ Rests(r)
  BY <1>2 DEF Writes, Transaction
<1>5. new.status # "none"
  BY <1>2, <1>3, WritesFit
<1>6. CASE InsertFits(r, kind[x]) /\ old = NoRow /\ new.approver = None
  <2>1. old.creator = None /\ old.approver = None
    BY <1>6 DEF NoRow
  <2>2. r.creator \in Users
    BY <1>3, <1>6 DEF Signed
  <2> QED BY <1>2, <1>4, <1>5, <1>6, <2>1, <2>2, NoneApart
<1>7. CASE /\ ChangeFits(r, kind[x]) /\ old.status # "none"
           /\ new.creator = old.creator
  <2>1. old.creator # None
    BY <1>1, <1>2, <1>3, <1>7, ReviewedIs DEF Authored, Commits
  <2>2. r.approver # None => old.creator # r.approver
    BY <1>2, <1>3, <1>4, <1>7 DEF Rests
  <2> QED BY <1>2, <1>4, <1>5, <1>7, <2>1, <2>2
<1>8. ~UpsertFits(r, kind[x])
  BY <1>3 DEF UpsertFits, TwoPersonKinds
<1> QED BY <1>2, <1>3, <1>6, <1>7, <1>8, WriteKinds

\* A step of the registers makes a reviewed row, approves one, or does
\* neither.
LEMMA ReviewsMove ==
  ASSUME IInv, Authored, [Next]_vars
  PROVE  Authored' /\ [Reviews!Next]_Reviews!vars
<1> USE DEF Reviews!vars
<1> DEFINE Author ==
             [x \in Records |-> IF Reviewed(x) THEN row[x].creator ELSE None]
           Approver ==
             [x \in Records |-> IF Reviewed(x) THEN row[x].approver ELSE None]
<1>1. ASSUME row' = row, kind' = kind PROVE [Reviews!Next]_Reviews!vars
  BY <1>1 DEF Reviewed
<1>2. CASE UNCHANGED vars \/ Freeze
  <2>1. row' = row /\ kind' = kind /\ tx' = tx
    BY <1>2 DEF vars, Freeze
  <2>2. Authored'
    BY <2>1 DEF Authored, Signed, Reviewed
  <2> QED BY <1>1, <2>1, <2>2
<1>3. ASSUME NEW s \in Sessions, Request(s) \/ Execute(s) \/ Fail(s)
      PROVE  Authored' /\ [Reviews!Next]_Reviews!vars
  BY <1>1, <1>3, AuthoredStays
<1>4. ASSUME NEW y \in Records, MaterializeImpact(y)
      PROVE  Authored' /\ [Reviews!Next]_Reviews!vars
  <2>1. kind[y] = "IMPACT" /\ kind' = kind /\ tx' = tx
        /\ \A x \in Records: x # y => row'[x] = row[x]
    BY <1>4 DEF MaterializeImpact, IInv, Typed, TypeOK
  <2>2. ~Reviewed(y)
    BY <2>1 DEF Reviewed
  <2>3. Authored'
    BY <2>1, <2>2 DEF Authored, Signed, Reviewed
  <2>4. Author' = Author /\ Approver' = Approver
    BY <2>1, <2>2 DEF Reviewed
  <2> QED BY <2>3, <2>4
<1>5. ASSUME NEW s \in Sessions, Commit(s)
      PROVE  Authored' /\ [Reviews!Next]_Reviews!vars
  <2>1. PICK x \in Records: x = tx[s].on /\ Commits(s, tx[s], x)
    BY <1>5, CommitIs DEF IInv, Commits
  <2>2. kind' = kind /\ \A y \in Records \ {x}: row'[y] = row[y]
    BY <2>1 DEF Commits
  <2>3. \A y: Reviewed(y)' <=> Reviewed(y)
    BY <2>2 DEF Reviewed
  <2>4. Reviewed(x) =>
          /\ row'[x].status # "none" /\ row'[x].creator # None
          /\ \/ /\ row[x].creator = None /\ row'[x].creator \in Users
                /\ row'[x].approver = row[x].approver
             \/ /\ row'[x].creator = row[x].creator
                /\ row'[x].approver = row[x].approver
             \/ /\ row'[x].creator = row[x].creator
                /\ row'[x].approver \in Users
                /\ row[x].creator # row'[x].approver
    BY <1>5, <2>1, WritesReviewed
  <2>5. Authored'
    <3>1. ASSUME NEW t \in Sessions, tx'[t].stage # "idle"
          PROVE  Signed(tx[t])'
      <4>1. t # s
        <5>1. tx'[s] = Idle
          BY <2>1 DEF Commits
        <5> QED BY <3>1, <5>1, IdleTyped
      <4>2. /\ tx'[t].stage = tx[t].stage /\ tx'[t].on = tx[t].on
            /\ tx'[t].from = tx[t].from /\ tx'[t].status = tx[t].status
            /\ tx'[t].creator = tx[t].creator
            /\ tx'[t].approver = tx[t].approver
        BY <2>1, <4>1, CommitMarks DEF IInv
      <4>3. Signed(tx[t])
        BY <3>1, <4>2 DEF Authored
      <4> QED BY <2>2, <4>2, <4>3 DEF Signed, InsertFits
    <3>2. ASSUME NEW y \in Records, Reviewed(y), row'[y].status # "none"
          PROVE  row'[y].creator # None
      BY <2>2, <2>4, <3>2 DEF Authored
    <3> QED BY <2>3, <3>1, <3>2 DEF Authored
  <2>6. \A y \in Records \ {x}:
          /\ (IF Reviewed(y) THEN row[y].creator ELSE None)' =
               IF Reviewed(y) THEN row[y].creator ELSE None
          /\ (IF Reviewed(y) THEN row[y].approver ELSE None)' =
               IF Reviewed(y) THEN row[y].approver ELSE None
    BY <2>2, <2>3
  <2>7. [Reviews!Next]_Reviews!vars
    <3>1. CASE \/ ~Reviewed(x)
               \/ /\ row'[x].creator = row[x].creator
                  /\ row'[x].approver = row[x].approver
      BY <2>3, <2>6, <3>1
    <3>2. CASE /\ Reviewed(x)
               /\ row[x].creator = None /\ row'[x].creator \in Users
               /\ row'[x].approver = row[x].approver
      <4>1. PICK u \in Users: u = row'[x].creator
        BY <3>2
      <4>2. Approver' = Approver
        BY <2>3, <2>6, <3>2
      <4>3. Author' = [Author EXCEPT ![x] = u]
        <5>1. \A y \in Records:
                (IF Reviewed(y) THEN row[y].creator ELSE None)' =
                  IF y = x THEN u
                  ELSE IF Reviewed(y) THEN row[y].creator ELSE None
          BY <2>3, <2>6, <3>2, <4>1
        <5> QED BY <5>1
      <4>4. Reviews!Make(x, u)
        BY <3>2, <4>2, <4>3 DEF Reviews!Make
      <4> QED BY <4>4 DEF Reviews!Next
    <3>3. CASE /\ Reviewed(x)
               /\ row'[x].creator = row[x].creator
               /\ row'[x].approver \in Users
               /\ row[x].creator # row'[x].approver
      <4>1. PICK u \in Users: u = row'[x].approver
        BY <3>3
      <4>2. Author' = Author
        BY <2>3, <2>6, <3>3
      <4>3. Approver' = [Approver EXCEPT ![x] = u]
        <5>1. \A y \in Records:
                (IF Reviewed(y) THEN row[y].approver ELSE None)' =
                  IF y = x THEN u
                  ELSE IF Reviewed(y) THEN row[y].approver ELSE None
          BY <2>3, <2>6, <3>3, <4>1
        <5> QED BY <5>1
      <4>4. row[x].creator \notin {None, u}
        BY <2>4, <3>3, <4>1
      <4>5. Reviews!Approve(x, u)
        BY <3>3, <4>2, <4>3, <4>4 DEF Reviews!Approve
      <4> QED BY <4>5 DEF Reviews!Next
    <3> QED BY <2>4, <3>1, <3>2, <3>3
  <2> QED BY <2>5, <2>7
<1> QED BY <1>2, <1>3, <1>4, <1>5 DEF Next

\* Activities, DPIAs, processors, transfers, notices and candidates are
\* approved by four eyes, whatever requests overlap: who made a row is never
\* rewritten, only somebody else approves it, and no approval is withdrawn.
THEOREM ReviewsKeptApart == Spec => ReviewsByFourEyes
<1>1. Init => Authored /\ Reviews!Init
  <2> SUFFICES ASSUME Init PROVE Authored /\ Reviews!Init
    OBVIOUS
  <2>1. \A x \in Records: row[x] = NoRow
    BY DEF Init
  <2>2. NoRow.status = "none" /\ NoRow.creator = None /\ NoRow.approver = None
    BY DEF NoRow
  <2>3. \A s \in Sessions: tx[s].stage = "idle"
    BY IdleTyped DEF Init
  <2>4. \A x \in Records: /\ row[x].status = "none" /\ row[x].creator = None
                          /\ row[x].approver = None
    BY <2>1, <2>2
  <2>5. Authored
    BY <2>3, <2>4 DEF Authored
  <2>6. Reviews!Init
    BY <2>4 DEF Reviews!Init
  <2> QED BY <2>5, <2>6
<1>2. IInv /\ Authored /\ [Next]_vars =>
        Authored' /\ [Reviews!Next]_Reviews!vars
  BY ReviewsMove
<1> QED
  BY <1>1, <1>2, Invariance, PTL DEF Spec, ReviewsByFourEyes, Reviews!Spec

-----------------------------------------------------------------------------
(* One request at a time.                                                  *)

\* At most one request is open.
Serial ==
  \A s, t \in Sessions:
    tx[s].stage # "idle" /\ tx[t].stage # "idle" => s = t

\* No read is stale, and no row was written on one.
NothingStale ==
  /\ \A s \in Sessions: ~tx[s].stale
  /\ \A x \in Records: ~late[x]

LEMMA NothingStaleStays ==
  ASSUME IInv, NothingStale, Serial, [Next]_vars
  PROVE  NothingStale'
<1> USE DEF NothingStale
<1>1. CASE UNCHANGED vars \/ Freeze \/ \E x \in Records: MaterializeImpact(x)
  BY <1>1 DEF vars, Freeze, MaterializeImpact
<1>2. ASSUME NEW s \in Sessions, NEW r, tx' = [tx EXCEPT ![s] = r],
             UNCHANGED rows, ~r.stale
      PROVE  NothingStale'
  BY <1>2 DEF IInv, Typed, TypeOK, rows
<1>3. ASSUME NEW s \in Sessions, Request(s) PROVE NothingStale'
  <2>1. PICK r: Begins(s, r)
    BY <1>3, RequestBegins DEF IInv
  <2> QED BY <1>2, <2>1 DEF Begins
<1>4. ASSUME NEW s \in Sessions, Execute(s) PROVE NothingStale'
  <2>1. tx[s] \in Transaction
    BY DEF IInv, Typed, TypeOK
  <2>2. ~[tx[s] EXCEPT !.stage = "written"].stale
    BY <2>1 DEF Transaction
  <2> QED BY <1>2, <1>4, <2>2 DEF Execute, rows
<1>5. ASSUME NEW s \in Sessions, Fail(s) PROVE NothingStale'
  BY <1>2, <1>5 DEF Fail, rows, Idle
<1>6. ASSUME NEW s \in Sessions, Commit(s) PROVE NothingStale'
  <2>1. PICK x: Commits(s, tx[s], x)
    BY <1>6, CommitIs DEF IInv
  <2>2. \A y \in Records: ~late'[y]
    BY <2>1 DEF Commits
  <2>3. ASSUME NEW t \in Sessions PROVE ~tx'[t].stale
    <3>1. CASE t = s
      <4>1. tx'[t] = Idle
        BY <2>1, <3>1 DEF Commits
      <4> QED BY <4>1 DEF Idle
    <3>2. CASE t # s
      <4>1. tx[t].stage = "idle"
        BY <2>1, <3>2 DEF Serial, Commits
      <4>2. tx'[t] = Idle
        BY <2>1, <3>2, <4>1, CommitMarks DEF IInv
      <4> QED BY <4>2 DEF Idle
    <3> QED BY <3>1, <3>2
  <2> QED BY <2>2, <2>3
<1> QED BY <1>1, <1>3, <1>4, <1>5, <1>6 DEF Next

\* As long as requests do not overlap, the checks of the services are enough:
\* a request on hold has its identity verified too, and every approval in
\* force has its file on record.
THEOREM SerialRegistersHold ==
  Spec /\ []Serial =>
    [](\A x \in Records:
         /\ kind[x] = "DSR" /\ row[x].status = "ON_HOLD" =>
              "verified" \in row[x].facts
         /\ OnFile(kind[x], row[x]))
<1>1. Init => NothingStale
  BY DEF Init, NothingStale, Idle
<1>2. IInv /\ NothingStale /\ Serial /\ [Next]_vars => NothingStale'
  BY NothingStaleStays
<1>3. IInv /\ NothingStale =>
        \A x \in Records:
          /\ kind[x] = "DSR" /\ row[x].status = "ON_HOLD" =>
               "verified" \in row[x].facts
          /\ OnFile(kind[x], row[x])
  BY DEF IInv, NothingStale, VerifiedBeforeWork, ActiveOnFile, OnFile
<1> QED BY <1>1, <1>2, <1>3, Invariance, PTL DEF Spec
=============================================================================
