------------------------- MODULE FinalizationProofs -------------------------
(***************************************************************************)
(* Proofs about Finalization, for any sets of users, sessions, workpapers, *)
(* issues and PBC requests and any bound on the report versions.           *)
(*                                                                         *)
(* The hard part is the freeze.  Its gate is evaluated before its row is   *)
(* visible, and other requests commit between the two, so neither "one     *)
(* freeze" nor "what is unresolved overlapped the freeze" is inductive.    *)
(* The strengthening says what holds while a freeze is under way.          *)
(***************************************************************************)
EXTENDS Finalization, TLAPS

\* A freeze of session s has passed its gate and has not ended.
Freezing(s) ==
  tx[s].op = "freezeEngagement" /\ tx[s].stage \in {"gated", "written"}

Frozen == frozen \/ \E s \in Sessions: Freezing(s)

\* What a transaction writes to is of the kind its statement expects.
Target(r) ==
  /\ r.stage = "idle" => r.op = "enterReview"
  /\ r.stage # "idle" => r.by \in Users
  /\ r.stage = "gated" => r.op = "freezeEngagement"
  /\ r.op \in {"createWorkpaper", "approveWorkpaper", "rejectWorkpaper"} =>
       r.on \in Workpapers
  /\ r.op = "raiseIssue" => r.on \in Issues
  /\ r.op \in {"createFinding", "closeFinding"} => r.on \in Findings
  /\ r.op \in {"createPbcRequest", "settlePbcRequest",
              "acceptPrivacyAssuranceCandidate"} => r.on \in Pbcs
  /\ r.op \in {"generateReport", "approveReport"} => r.on \in Versions
  /\ r.op = "freezeEngagement" => r.on \in Nat

TxOK == \A s \in Sessions: Target(tx[s])

\* The row lock on the engagement: one of its updates is written at a time.
OneUpdate ==
  \A s, t \in Sessions:
    /\ tx[s].stage = "written" /\ tx[s].op \in UpdatesEngagement
    /\ tx[t].stage = "written" /\ tx[t].op \in UpdatesEngagement
    => s = t

\* The freeze gate passed with version 1, and until the freeze commits there
\* is no other freeze row.
FirstFreeze ==
  /\ frozen <=> freezes = 1
  /\ freezes \in {0, 1}
  /\ \A s \in Sessions: Freezing(s) => tx[s].on = 1
  /\ \A s \in Sessions:
       Freezing(s) /\ tx[s].stage = "written" => freezes = 0

\* Nobody takes the engagement back from CLOSED.
NoReopening ==
  \A s \in Sessions:
    tx[s].stage = "written" /\ tx[s].op = "enterReview" => status # "CLOSED"

\* Whoever holds an uncommitted child row last looked before the freeze was
\* visible: its trigger did, or for createWorkpaper, which has none, its
\* service did, as it found the engagement in TESTING.
WritersBlind ==
  \A s \in Sessions:
    \/ tx[s].blind
    \/ tx[s].op \in UpdatesEngagement
    \/ tx[s].op \in FreezeGuarded /\ tx[s].stage = "checked"

\* What the freeze gate saw still holds, but for what came late.
Gate ==
  /\ status = "CLOSED"
  /\ signoffs # {}
  /\ \E w \in Prepared: ReviewApproved(w)
  /\ Unresolved \subseteq late

GateHolds == Frozen => Gate

IInv == /\ TypeOK /\ TxOK /\ OneUpdate /\ FirstFreeze /\ NoReopening
        /\ WritersBlind /\ GateHolds

-----------------------------------------------------------------------------
(* Types.                                                                  *)

LEMMA OperationSet ==
  Operations = {"createWorkpaper", "approveWorkpaper", "rejectWorkpaper",
                "raiseIssue", "createFinding", "closeFinding",
                "createPbcRequest", "settlePbcRequest",
                "acceptPrivacyAssuranceCandidate", "enterReview",
                "signoffEngagement", "generateReport", "approveReport",
                "closeEngagement", "freezeEngagement"}
BY DEF Operations, PermissionFor

\* What every request has in common: it opens a transaction and writes nothing.
Begins(s, r) ==
  /\ tx[s].stage = "idle"
  /\ r.stage = "checked" /\ Target(r) /\ r.blind = ~frozen
  /\ r.op = "createWorkpaper" => status = "TESTING"
  /\ tx' = [tx EXCEPT ![s] = r]
  /\ UNCHANGED <<status, frozen, rows, freezes, late>>

LEMMA RequestBegins ==
  ASSUME TypeOK, NEW s \in Sessions, Request(s)
  PROVE  \E r \in Transaction: Begins(s, r)
<1> USE OperationSet DEF Begins, Begin, Transaction, Target, Targets, Stages
<1>1. PICK u \in Users:
         \/ \E w \in Workpapers:
              CreateWorkpaper(s, u, w) \/ ReviewWorkpaper(s, u, w)
         \/ \E i \in Issues: RaiseIssue(s, u, i)
         \/ \E f \in Findings: CreateFinding(s, u, f) \/ CloseFinding(s, u, f)
         \/ \E p \in Pbcs:
              \/ CreatePbcRequest(s, u, p) \/ SettlePbcRequest(s, u, p)
              \/ AcceptPrivacyAssuranceCandidate(s, u, p)
         \/ EnterReview(s, u) \/ SignoffEngagement(s, u)
         \/ GenerateReport(s, u)
         \/ \E v \in Versions: ApproveReport(s, u, v)
         \/ CloseEngagement(s, u) \/ FreezeEngagement(s, u)
  BY DEF Request
<1> DEFINE R(op, on) == [stage |-> "checked", op |-> op, by |-> u, on |-> on,
                         blind |-> ~frozen]
<1> DEFINE Done == \E r \in Transaction: Begins(s, r)
<1>2. ASSUME NEW w \in Workpapers,
             CreateWorkpaper(s, u, w) \/ ReviewWorkpaper(s, u, w)
      PROVE  Done
  <2>1. CASE CreateWorkpaper(s, u, w)
    <3>1. LET r == R("createWorkpaper", w)
          IN  r \in Transaction /\ Begins(s, r)
      BY <2>1 DEF CreateWorkpaper, TypeOK
    <3> QED BY <3>1
  <2>2. CASE ReviewWorkpaper(s, u, w)
    <3>1. PICK op \in {"approveWorkpaper", "rejectWorkpaper"}:
            Begin(s, op, u, w)
      BY <2>2 DEF ReviewWorkpaper
    <3>2. R(op, w) \in Transaction /\ Begins(s, R(op, w))
      BY <3>1 DEF TypeOK
    <3> QED BY <3>2
  <2> QED BY <1>2, <2>1, <2>2
<1>3. ASSUME NEW i \in Issues, RaiseIssue(s, u, i)
      PROVE  Done
  <2>1. LET r == R("raiseIssue", i)
        IN  r \in Transaction /\ Begins(s, r)
    BY <1>3 DEF RaiseIssue, TypeOK
  <2> QED BY <2>1
<1>9. ASSUME NEW f \in Findings,
             CreateFinding(s, u, f) \/ CloseFinding(s, u, f)
      PROVE  Done
  <2>1. PICK op \in {"createFinding", "closeFinding"}: Begin(s, op, u, f)
    BY <1>9 DEF CreateFinding, CloseFinding
  <2>2. R(op, f) \in Transaction /\ Begins(s, R(op, f))
    BY <2>1 DEF TypeOK
  <2> QED BY <2>2
<1>4. ASSUME NEW p \in Pbcs,
             \/ CreatePbcRequest(s, u, p) \/ SettlePbcRequest(s, u, p)
             \/ AcceptPrivacyAssuranceCandidate(s, u, p)
      PROVE  Done
  <2>1. PICK op \in {"createPbcRequest", "settlePbcRequest",
                     "acceptPrivacyAssuranceCandidate"}: Begin(s, op, u, p)
    BY <1>4 DEF CreatePbcRequest, SettlePbcRequest,
                AcceptPrivacyAssuranceCandidate
  <2>2. R(op, p) \in Transaction /\ Begins(s, R(op, p))
    BY <2>1 DEF TypeOK
  <2> QED BY <2>2
<1>5. ASSUME \/ EnterReview(s, u)
             \/ SignoffEngagement(s, u)
             \/ CloseEngagement(s, u)
      PROVE  Done
  <2>1. PICK op \in {"enterReview", "signoffEngagement", "closeEngagement"}:
          Begin(s, op, u, None)
    BY <1>5 DEF EnterReview, SignoffEngagement, CloseEngagement
  <2>2. R(op, None) \in Transaction /\ Begins(s, R(op, None))
    BY <2>1 DEF TypeOK
  <2> QED BY <2>2
<1>6. CASE GenerateReport(s, u)
  <2>1. reports + 1 \in Versions /\ reports + 1 \in Nat
    BY <1>6, BoundAssumption DEF GenerateReport, Versions, TypeOK
  <2>2. LET r == R("generateReport", reports + 1)
        IN  r \in Transaction /\ Begins(s, r)
    BY <1>6, <2>1 DEF GenerateReport, TypeOK
  <2> QED BY <2>2
<1>7. ASSUME NEW v \in Versions, ApproveReport(s, u, v)
      PROVE  Done
  <2>1. v \in Nat
    BY BoundAssumption DEF Versions
  <2>2. LET r == R("approveReport", v)
        IN  r \in Transaction /\ Begins(s, r)
    BY <1>7, <2>1 DEF ApproveReport, TypeOK
  <2> QED BY <2>2
<1>8. CASE FreezeEngagement(s, u)
  <2>1. freezes + 1 \in Nat
    BY DEF TypeOK
  <2>2. LET r == R("freezeEngagement", freezes + 1)
        IN  r \in Transaction /\ Begins(s, r)
    BY <1>8, <2>1 DEF FreezeEngagement, TypeOK
  <2> QED BY <2>2
<1> QED BY <1>1, <1>2, <1>3, <1>4, <1>5, <1>6, <1>7, <1>8, <1>9

\* Every other step of a session ends in one of these ways.
LEMMA StepKinds ==
  ASSUME NEW s \in Sessions,
         Request(s) \/ Statement(s) \/ CommitAny(s) \/ Fail(s)
  PROVE  \/ Request(s)
         \/ Execute(s) \/ GateFreeze(s) \/ InsertFreeze(s)
         \/ Rollback(s)
         \/ CommitAny(s)
BY DEF Statement, Reject, Fail

LEMMA IdleTyped == Idle \in Transaction /\ Target(Idle)
BY OperationSet DEF Idle, Transaction, Stages, Targets, Target

\* A commit writes the row its transaction names and ends the transaction.
LEMMA CommitEnds ==
  ASSUME NEW s \in Sessions, CommitAny(s)
  PROVE  /\ tx[s].stage = "written"
         /\ tx' = [tx EXCEPT ![s] = Idle]
BY DEF CommitAny, Commit, InsertWorkpaper, InsertReview, InsertIssue,
       WriteFinding, WritePbcRequest, InsertSignoff, InsertReport,
       UpdateReport, UpdateStatus, ApplyFreeze

\* Each step keeps every variable's type and every transaction's target.
LEMMA TypeStep ==
  ASSUME TypeOK, TxOK, [Next]_vars
  PROVE  TypeOK' /\ TxOK'
<1>1. CASE UNCHANGED vars
  BY <1>1 DEF TypeOK, TxOK, vars, rows
<1>2. ASSUME NEW s \in Sessions,
             Request(s) \/ Statement(s) \/ CommitAny(s) \/ Fail(s)
      PROVE  TypeOK' /\ TxOK'
  <2> USE DEF TypeOK, TxOK, rows
  <2>1. CASE Request(s)
    <3>1. PICK r \in Transaction: Begins(s, r)
      BY <2>1, RequestBegins
    <3> QED BY <3>1 DEF Begins
  <2>2. CASE Execute(s) \/ GateFreeze(s) \/ InsertFreeze(s)
    BY <2>2 DEF Execute, GateFreeze, InsertFreeze, Transaction, Stages, Target
  <2>3. CASE Rollback(s)
    BY <2>3, IdleTyped DEF Rollback
  <2>4. CASE CommitAny(s)
    <3> DEFINE r == tx[s]
    <3>1. /\ r \in Transaction /\ Target(r) /\ r.stage = "written"
          /\ tx' = [tx EXCEPT ![s] = Idle]
      BY <2>4, CommitEnds
    <3>2. /\ r.by \in Users /\ r.on \in Targets
          /\ tx' \in [Sessions -> Transaction]
          /\ \A t \in Sessions: Target(tx'[t])
      BY <3>1, IdleTyped DEF Target, Transaction
    <3>3. Late(s) => late' \in SUBSET Targets
      BY <3>2 DEF Late
    <3>4. CASE InsertWorkpaper(s)
      BY <3>1, <3>2, <3>3, <3>4 DEF InsertWorkpaper, Commit, Target
    <3>5. CASE InsertReview(s)
      <4>1. r.on \in Workpapers
        BY <3>1, <3>5 DEF InsertReview, Commit, Target
      <4>2. PICK verdict \in Verdicts:
              reviews' = [reviews EXCEPT ![r.on] = @ \cup {<<r.by, verdict>>}]
        BY <3>5 DEF InsertReview, Verdicts
      <4>3. reviews' \in [Workpapers -> SUBSET (Users \X Verdicts)]
        BY <3>2, <4>1, <4>2
      <4> QED BY <3>2, <3>5, <4>3 DEF InsertReview
    <3>6. CASE InsertIssue(s)
      BY <3>1, <3>2, <3>3, <3>6 DEF InsertIssue, Commit, Target
    <3>13. CASE WriteFinding(s)
      BY <3>1, <3>2, <3>3, <3>13 DEF WriteFinding, Commit, Target
    <3>7. CASE WritePbcRequest(s)
      BY <3>1, <3>2, <3>3, <3>7 DEF WritePbcRequest, Commit, Target
    <3>8. CASE InsertSignoff(s)
      BY <3>2, <3>8 DEF InsertSignoff
    <3>9. CASE InsertReport(s)
      <4>1. r.on \in Versions /\ r.on \in 0..MaxReports
        BY <3>1, <3>9, BoundAssumption DEF InsertReport, Commit, Target,
              Versions
      <4> QED BY <3>2, <3>3, <3>9, <4>1 DEF InsertReport
    <3>10. CASE UpdateReport(s)
      BY <3>2, <3>10 DEF UpdateReport
    <3>11. CASE UpdateStatus(s)
      BY <3>2, <3>11 DEF UpdateStatus
    <3>12. CASE ApplyFreeze(s)
      BY <3>2, <3>12 DEF ApplyFreeze
    <3> QED BY <2>4, <3>4, <3>5, <3>6, <3>7, <3>8, <3>9, <3>10, <3>11, <3>12,
               <3>13
            DEF CommitAny
  <2> QED BY <1>2, StepKinds, <2>1, <2>2, <2>3, <2>4
<1> QED BY <1>1, <1>2 DEF Next

LEMMA TypeInit == Init => TypeOK /\ TxOK
<1> SUFFICES ASSUME Init PROVE TypeOK /\ TxOK
  OBVIOUS
<1>1. TxOK /\ tx \in [Sessions -> Transaction]
  BY IdleTyped DEF Init, TxOK
<1>2. reports \in 0..MaxReports
  BY BoundAssumption DEF Init
<1>3. reviews \in [Workpapers -> SUBSET (Users \X Verdicts)]
  <2>1. {} \in SUBSET (Users \X Verdicts)
    OBVIOUS
  <2> QED BY <2>1 DEF Init
<1> QED BY <1>1, <1>2, <1>3 DEF Init, TypeOK

\* Type correctness: whatever the requests do and however they overlap, each
\* variable of Finalization stays in its set.
THEOREM TypeCorrect == Spec => []TypeOK
<1>1. TypeOK /\ TxOK /\ [Next]_vars => (TypeOK /\ TxOK)'
  BY TypeStep
<1> QED BY <1>1, TypeInit, PTL DEF Spec


-----------------------------------------------------------------------------
(* The engagement's row lock and the single freeze.                        *)

\* One engagement update is written at a time: the next one waits for the row.
LEMMA OneUpdateStep ==
  ASSUME TypeOK, TxOK, OneUpdate, [Next]_vars
  PROVE  OneUpdate'
<1>1. CASE UNCHANGED vars
  BY <1>1 DEF OneUpdate, vars
<1>2. ASSUME NEW s \in Sessions,
             Request(s) \/ Statement(s) \/ CommitAny(s) \/ Fail(s)
      PROVE  OneUpdate'
  <2> USE DEF TypeOK, OneUpdate
  <2>1. CASE Request(s)
    <3>1. PICK r \in Transaction: Begins(s, r)
      BY <2>1, RequestBegins
    <3> QED BY <3>1 DEF Begins
  <2>2. CASE Execute(s) \/ GateFreeze(s) \/ InsertFreeze(s)
    BY <2>2
       DEF Execute, GateFreeze, InsertFreeze, Blocked, Conflict, Transaction
  <2>3. CASE Rollback(s)
    BY <2>3 DEF Rollback, Idle
  <2>4. CASE CommitAny(s)
    BY <2>4, CommitEnds DEF Idle
  <2> QED BY <1>2, StepKinds, <2>1, <2>2, <2>3, <2>4
<1> QED BY <1>1, <1>2 DEF Next

\* Only a freeze commits a freeze.
LEMMA CommitFreezes ==
  ASSUME NEW s \in Sessions, CommitAny(s), ~ApplyFreeze(s)
  PROVE  UNCHANGED <<frozen, freezes>>
BY DEF CommitAny, InsertWorkpaper, InsertReview, InsertIssue, WriteFinding,
       WritePbcRequest, InsertSignoff, InsertReport, UpdateReport,
       UpdateStatus

LEMMA FirstFreezeStep ==
  ASSUME TypeOK, TxOK, OneUpdate, FirstFreeze, [Next]_vars
  PROVE  FirstFreeze'
<1>1. CASE UNCHANGED vars
  BY <1>1 DEF FirstFreeze, Freezing, vars
<1>2. ASSUME NEW s \in Sessions,
             Request(s) \/ Statement(s) \/ CommitAny(s) \/ Fail(s)
      PROVE  FirstFreeze'
  <2> USE DEF TypeOK, FirstFreeze, Freezing
  <2>1. CASE Request(s)
    <3>1. PICK r \in Transaction: Begins(s, r)
      BY <2>1, RequestBegins
    <3> QED BY <3>1 DEF Begins
  <2>2. CASE Execute(s)
    BY <2>2 DEF Execute, Transaction
  <2>3. CASE GateFreeze(s)
    <3>1. tx[s].on = 1
      BY <2>3 DEF GateFreeze, FreezeAccepted, FreezeReady
    <3> QED BY <2>3, <3>1 DEF GateFreeze, Transaction
  <2>4. CASE InsertFreeze(s)
    <3>1. tx[s].op = "freezeEngagement"
      BY <2>4 DEF InsertFreeze, TxOK, Target
    <3>2. tx[s].on = 1 /\ freezes = 0
      BY <2>4, <3>1 DEF InsertFreeze, VersionFree
    <3> QED BY <2>4, <3>2 DEF InsertFreeze, Transaction
  <2>5. CASE Rollback(s)
    BY <2>5 DEF Rollback, Idle
  <2>6. CASE CommitAny(s) /\ ~ApplyFreeze(s)
    BY <2>6, CommitEnds, CommitFreezes DEF Idle
  <2>7. CASE ApplyFreeze(s)
    <3>1. /\ freezes = 0
          /\ freezes' = 1 /\ frozen' = TRUE
          /\ tx' = [tx EXCEPT ![s] = Idle]
      BY <2>7 DEF ApplyFreeze, Commit
    <3>2. \A t \in Sessions: ~(Freezing(t) /\ tx[t].stage = "written")'
      BY <2>7, <3>1 DEF ApplyFreeze, Commit, OneUpdate, UpdatesEngagement, Idle
    <3> QED BY <3>1, <3>2 DEF Idle
  <2> QED BY <1>2, StepKinds, <2>1, <2>2, <2>3, <2>4, <2>5, <2>6, <2>7
          DEF CommitAny
<1> QED BY <1>1, <1>2 DEF Next

LEMMA NoReopeningStep ==
  ASSUME TypeOK, TxOK, OneUpdate, NoReopening, [Next]_vars
  PROVE  NoReopening'
<1>1. CASE UNCHANGED vars
  BY <1>1 DEF NoReopening, vars
<1>2. ASSUME NEW s \in Sessions,
             Request(s) \/ Statement(s) \/ CommitAny(s) \/ Fail(s)
      PROVE  NoReopening'
  <2> USE DEF TypeOK, NoReopening
  <2>1. CASE Request(s)
    <3>1. PICK r \in Transaction: Begins(s, r)
      BY <2>1, RequestBegins
    <3> QED BY <3>1 DEF Begins
  <2>2. CASE Execute(s)
    BY <2>2 DEF Execute, Accepted, TransitionAccepted, Transaction
  <2>3. CASE GateFreeze(s) \/ InsertFreeze(s)
    BY <2>3 DEF GateFreeze, InsertFreeze, TxOK, Target, Transaction
  <2>4. CASE Rollback(s)
    BY <2>4 DEF Rollback, Idle
  <2>5. CASE CommitAny(s) /\ ~UpdateStatus(s)
    <3>1. status' = status
      BY <2>5 DEF CommitAny, InsertWorkpaper, InsertReview, InsertIssue,
                  WriteFinding, WritePbcRequest, InsertSignoff, InsertReport,
                  UpdateReport, ApplyFreeze
    <3> QED BY <2>5, <3>1, CommitEnds DEF Idle
  <2>6. CASE UpdateStatus(s)
    BY <2>6 DEF UpdateStatus, Commit, OneUpdate, UpdatesEngagement, Idle
  <2> QED BY <1>2, StepKinds, <2>1, <2>2, <2>3, <2>4, <2>5, <2>6
          DEF CommitAny
<1> QED BY <1>1, <1>2 DEF Next

-----------------------------------------------------------------------------
(* What becomes visible around a freeze.                                   *)

LEMMA WritersBlindStep ==
  ASSUME TypeOK, TxOK, WritersBlind, GateHolds, [Next]_vars
  PROVE  WritersBlind'
<1>1. CASE UNCHANGED vars
  BY <1>1 DEF WritersBlind, vars
<1>2. ASSUME NEW s \in Sessions,
             Request(s) \/ Statement(s) \/ CommitAny(s) \/ Fail(s)
      PROVE  WritersBlind'
  <2> USE DEF TypeOK, WritersBlind
  <2>1. CASE Request(s)
    <3>1. PICK r \in Transaction: Begins(s, r)
      BY <2>1, RequestBegins
    <3>2. r.op = "createWorkpaper" => r.blind
      BY <3>1 DEF Begins, GateHolds, Gate, Frozen
    <3>3. r.op \in UpdatesEngagement \cup FreezeGuarded \cup {"createWorkpaper"}
      BY DEF Transaction, FreezeGuarded
    <3> QED BY <3>1, <3>2, <3>3 DEF Begins
  <2>2. CASE Execute(s)
    BY <2>2 DEF Execute, Accepted, Transaction
  <2>3. CASE GateFreeze(s) \/ InsertFreeze(s)
    BY <2>3 DEF GateFreeze, InsertFreeze, Transaction, UpdatesEngagement
  <2>4. CASE Rollback(s)
    BY <2>4 DEF Rollback, Idle
  <2>5. CASE CommitAny(s)
    BY <2>5, CommitEnds DEF Idle
  <2> QED BY <1>2, StepKinds, <2>1, <2>2, <2>3, <2>4, <2>5
<1> QED BY <1>1, <1>2 DEF Next

\* The freeze gate finds everything resolved.
LEMMA ReadyGate ==
  ASSUME TypeOK, FreezeReady
  PROVE  Gate
<1>1. status = "CLOSED" /\ signoffs # {} /\ ReviewReady /\ ReportReady
  BY DEF FreezeReady, ClosureReady
<1>2. \E w \in Prepared: ReviewApproved(w)
  BY <1>1 DEF ReviewReady, Unreviewed
<1>3. PendingReport = {}
  BY <1>1 DEF ReportReady, PendingReport
<1>4. Unresolved = {}
  BY <1>1, <1>3 DEF Unresolved, ReviewReady
<1> QED BY <1>1, <1>2, <1>4 DEF Gate

\* The commits that may leave a row unresolved.
Adds(s) ==
  \/ InsertWorkpaper(s) \/ InsertIssue(s) \/ WriteFinding(s)
  \/ WritePbcRequest(s) \/ InsertReport(s)

\* No commit withdraws a sign-off, a workpaper or a review, and the only row
\* it can leave unresolved is the one it wrote.
LEMMA CommitKeeps ==
  ASSUME TypeOK, TxOK, NEW s \in Sessions, CommitAny(s)
  PROVE  /\ signoffs \subseteq signoffs'
         /\ \A w \in Prepared:
              ReviewApproved(w) => w \in Prepared' /\ ReviewApproved(w)'
         /\ Unresolved' \subseteq Unresolved \cup {tx[s].on}
         /\ Adds(s) \/ Unresolved' \subseteq Unresolved
<1> DEFINE r == tx[s]
<1>1. r.by # None /\ Target(r)
  <2>1. r.by \in Users
    BY CommitEnds DEF TxOK, Target
  <2> QED BY <2>1, NoneAssumption DEF TxOK
<1> USE DEF Unresolved, Unreviewed, OpenIssues, OpenFindings, Formalized,
            OpenPbcs, PendingReport, Prepared, ReviewApproved, Adds
<1>2. CASE InsertWorkpaper(s)
  BY <1>1, <1>2 DEF InsertWorkpaper, TypeOK
<1>3. CASE InsertReview(s)
  <2>1. \A w \in Workpapers: reviews[w] \subseteq reviews'[w]
    BY <1>3 DEF InsertReview, TypeOK
  <2> QED BY <1>3, <2>1 DEF InsertReview
<1>4. CASE InsertIssue(s)
  BY <1>4 DEF InsertIssue, TypeOK
<1>10. CASE WriteFinding(s)
  BY <1>10 DEF WriteFinding, TypeOK
<1>5. CASE WritePbcRequest(s)
  BY <1>5 DEF WritePbcRequest, TypeOK
<1>6. CASE InsertSignoff(s)
  BY <1>6 DEF InsertSignoff
<1>7. CASE InsertReport(s)
  BY <1>7 DEF InsertReport
<1>8. CASE UpdateReport(s)
  BY <1>1, <1>8 DEF UpdateReport, TypeOK
<1>9. CASE UpdateStatus(s) \/ ApplyFreeze(s)
  BY <1>9 DEF UpdateStatus, ApplyFreeze, rows
<1> QED BY <1>2, <1>3, <1>4, <1>5, <1>6, <1>7, <1>8, <1>9, <1>10
    DEF CommitAny

LEMMA GateHoldsStep ==
  ASSUME TypeOK, TxOK, OneUpdate, NoReopening, WritersBlind, GateHolds,
         [Next]_vars
  PROVE  GateHolds'
<1>1. CASE UNCHANGED vars
  BY <1>1 DEF GateHolds, Gate, Frozen, Freezing, vars, rows, Unresolved,
              Unreviewed, OpenIssues, OpenFindings, Formalized, OpenPbcs,
              PendingReport, Prepared, ReviewApproved
<1>2. ASSUME NEW s \in Sessions,
             Request(s) \/ Statement(s) \/ CommitAny(s) \/ Fail(s)
      PROVE  GateHolds'
  \* Where the rows, the status and the late rows stay, so does the gate.
  <2>1. ASSUME UNCHANGED <<status, rows>>, Gate, late' = late
        PROVE  Gate'
    BY <2>1 DEF Gate, rows, Unresolved, Unreviewed, OpenIssues, OpenFindings,
                Formalized, OpenPbcs, PendingReport, Prepared, ReviewApproved
  <2>2. CASE Request(s)
    <3>1. PICK r \in Transaction: Begins(s, r)
      BY <2>2, RequestBegins
    <3>2. Frozen' => Frozen
      BY <3>1 DEF Begins, Frozen, Freezing, TypeOK
    <3> QED BY <2>1, <3>1, <3>2 DEF Begins, GateHolds
  <2>3. CASE Execute(s) \/ InsertFreeze(s)
    <3>1. Frozen' => Frozen
      BY <2>3 DEF Execute, InsertFreeze, Frozen, Freezing, TypeOK, Transaction
    <3> QED BY <2>1, <2>3, <3>1 DEF Execute, InsertFreeze, GateHolds
  <2>4. CASE GateFreeze(s)
    BY <2>1, <2>4, ReadyGate DEF GateFreeze, FreezeAccepted, GateHolds
  <2>5. CASE Rollback(s)
    <3>1. Frozen' => Frozen /\ (frozen \/ FreezePending(s))
      BY <2>5 DEF Rollback, Frozen, Freezing, FreezePending, Idle, TypeOK
    <3> QED BY <2>1, <2>5, <3>1 DEF Rollback, GateHolds
  <2>6. CASE CommitAny(s)
    <3> SUFFICES ASSUME Frozen'
                 PROVE  Gate'
      BY DEF GateHolds
    <3>1. tx[s].stage = "written" /\ tx' = [tx EXCEPT ![s] = Idle]
      BY <2>6, CommitEnds
    <3>2. Frozen
      <4>1. CASE ApplyFreeze(s)
        BY <3>1, <4>1 DEF ApplyFreeze, Commit, Frozen, Freezing
      <4>2. CASE ~ApplyFreeze(s)
        BY <2>6, <3>1, <4>2, CommitFreezes
           DEF Frozen, Freezing, Idle, TypeOK
      <4> QED BY <4>1, <4>2
    <3>3. Gate
      BY <3>2 DEF GateHolds
    <3>4. status' = "CLOSED"
      <4>1. CASE UpdateStatus(s)
        BY <3>1, <3>3, <4>1 DEF UpdateStatus, Commit, NoReopening, Gate
      <4>2. CASE ~UpdateStatus(s)
        BY <2>6, <3>3, <4>2
           DEF CommitAny, Gate, InsertWorkpaper, InsertReview, InsertIssue,
               WriteFinding, WritePbcRequest, InsertSignoff, InsertReport,
               UpdateReport, ApplyFreeze
      <4> QED BY <4>1, <4>2
    <3>5. Unresolved' \subseteq late'
      <4>1. CASE ~Adds(s)
        <5>1. late' = late
          BY <2>6, <4>1 DEF Adds, CommitAny, UpdateStatus, ApplyFreeze,
                            InsertReview, InsertSignoff, UpdateReport
        <5> QED BY <2>6, <3>3, <4>1, <5>1, CommitKeeps DEF Gate
      <4>2. CASE Adds(s)
        <5>1. Late(s) /\ tx[s].op \notin UpdatesEngagement
          BY <4>2 DEF Adds, InsertWorkpaper, InsertIssue, WriteFinding,
                      WritePbcRequest, InsertReport, Commit, UpdatesEngagement
        <5>2. tx[s].blind
          BY <3>1, <5>1 DEF WritersBlind
        <5>3. frozen \/ FreezePending(s)
          BY <3>2, <5>1 DEF Frozen, Freezing, FreezePending, UpdatesEngagement
        <5>4. late' = late \cup {tx[s].on}
          BY <5>1, <5>2, <5>3 DEF Late
        <5> QED BY <2>6, <3>3, <5>4, CommitKeeps DEF Gate
      <4> QED BY <4>1, <4>2
    <3> QED BY <2>6, <3>3, <3>4, <3>5, CommitKeeps DEF Gate
  <2> QED BY <1>2, StepKinds, <2>2, <2>3, <2>4, <2>5, <2>6
<1> QED BY <1>1, <1>2 DEF Next

-----------------------------------------------------------------------------
(* The invariant and what follows from it.                                 *)

LEMMA Initial == Init => IInv
<1> SUFFICES ASSUME Init PROVE IInv
  OBVIOUS
<1>1. ~Frozen
  BY DEF Init, Frozen, Freezing, Idle
<1>2. OneUpdate /\ FirstFreeze /\ NoReopening /\ WritersBlind
  BY DEF Init, OneUpdate, FirstFreeze, NoReopening, WritersBlind, Freezing,
         Idle
<1> QED BY <1>1, <1>2, TypeInit DEF IInv, GateHolds

LEMMA Inductive == IInv /\ [Next]_vars => IInv'
BY TypeStep, OneUpdateStep, FirstFreezeStep, NoReopeningStep, WritersBlindStep,
   GateHoldsStep DEF IInv

THEOREM Invariance == Spec => []IInv
BY Initial, Inductive, PTL DEF Spec

\* However many freezes of the engagement overlap, at most one audit_freezes
\* row is committed, and the engagement is frozen exactly when there is one.
THEOREM FreezeIsSingle == Spec => []SingleFreeze
<1>1. IInv => SingleFreeze
  BY DEF IInv, FirstFreeze, SingleFreeze
<1> QED BY <1>1, Invariance, PTL

\* A frozen engagement is CLOSED, signed off and holds a reviewed workpaper,
\* and whatever is unresolved in it was committed by a transaction that
\* overlapped the freeze.
THEOREM FreezeIsFinal == Spec => []FrozenResolvedUnlessRaced
<1>1. IInv => FrozenResolvedUnlessRaced
  BY DEF IInv, GateHolds, Gate, Frozen, FrozenResolvedUnlessRaced
<1> QED BY <1>1, Invariance, PTL

\* The committed rows of a frozen engagement change only by the commit of a
\* transaction that last looked before the freeze was visible.
THEOREM FreezeIsKept == Spec => FrozenRowsOnlyRaced
<1>1. ASSUME IInv, [Next]_vars
      PROVE  [frozen /\ rows' # rows => RacedCommit]_vars
  <2>1. CASE UNCHANGED vars
    BY <2>1
  <2>2. ASSUME NEW s \in Sessions,
               Request(s) \/ Statement(s) \/ CommitAny(s) \/ Fail(s)
        PROVE  frozen /\ rows' # rows => RacedCommit
    <3>1. CASE CommitAny(s)
      <4>1. tx[s].stage = "written" /\ tx'[s].stage = "idle"
        BY <1>1, <3>1, CommitEnds DEF IInv, TypeOK, Idle
      <4>2. CASE tx[s].op \in UpdatesEngagement
        BY <3>1, <4>2
           DEF CommitAny, UpdatesEngagement, Commit, InsertWorkpaper,
               InsertReview, InsertIssue, WriteFinding, WritePbcRequest,
               InsertSignoff, InsertReport, UpdateReport, UpdateStatus,
               ApplyFreeze, rows
      <4>3. CASE tx[s].op \notin UpdatesEngagement
        BY <1>1, <4>1, <4>3 DEF IInv, WritersBlind, RacedCommit
      <4> QED BY <4>2, <4>3
    <3>2. CASE Request(s)
      BY <1>1, <3>2, RequestBegins DEF IInv, Begins, rows
    <3>3. CASE Execute(s) \/ GateFreeze(s) \/ InsertFreeze(s) \/ Rollback(s)
      BY <3>3 DEF Execute, GateFreeze, InsertFreeze, Rollback, rows
    <3> QED BY <2>2, <3>1, <3>2, <3>3, StepKinds
  <2> QED BY <1>1, <2>1, <2>2 DEF Next
<1> QED BY <1>1, Invariance, PTL DEF Spec, FrozenRowsOnlyRaced

-----------------------------------------------------------------------------
(* One request at a time.                                                  *)

\* At most one request is open.
Serial ==
  \A s, t \in Sessions:
    tx[s].stage # "idle" /\ tx[t].stage # "idle" => s = t

\* Nothing was late, and whoever is open in a frozen engagement has seen that.
NothingRaced ==
  /\ late = {}
  /\ frozen => \A s \in Sessions: tx[s].stage = "idle" \/ ~tx[s].blind

LEMMA NothingRacedStays ==
  ASSUME IInv, NothingRaced, Serial, [Next]_vars
  PROVE  NothingRaced'
<1> USE DEF NothingRaced, IInv, TypeOK
<1>1. CASE UNCHANGED vars
  BY <1>1 DEF vars
<1>2. ASSUME NEW s \in Sessions,
             Request(s) \/ Statement(s) \/ CommitAny(s) \/ Fail(s)
      PROVE  NothingRaced'
  <2>1. CASE Request(s)
    <3>1. PICK r \in Transaction: Begins(s, r)
      BY <2>1, RequestBegins
    <3> QED BY <3>1 DEF Begins
  <2>2. CASE Execute(s)
    <3>1. \A t \in Sessions:
            /\ tx'[t].stage = "idle" <=> tx[t].stage = "idle"
            /\ tx'[t].blind => tx[t].blind \/ ~frozen
      BY <2>2 DEF Execute, Transaction
    <3> QED BY <2>2, <3>1 DEF Execute
  <2>3. CASE GateFreeze(s) \/ InsertFreeze(s)
    <3>1. \A t \in Sessions:
            /\ tx'[t].stage = "idle" <=> tx[t].stage = "idle"
            /\ tx'[t].blind = tx[t].blind
      BY <2>3 DEF GateFreeze, InsertFreeze, Transaction
    <3> QED BY <2>3, <3>1 DEF GateFreeze, InsertFreeze
  <2>4. CASE Rollback(s)
    BY <2>4 DEF Rollback, Idle
  <2>5. CASE CommitAny(s)
    <3>1. tx[s].stage = "written" /\ tx' = [tx EXCEPT ![s] = Idle]
      BY <2>5, CommitEnds
    <3>2. ~FreezePending(s)
      BY <3>1 DEF Serial, FreezePending
    <3>3. late' = late
      BY <2>5, <3>1, <3>2
         DEF CommitAny, InsertWorkpaper, InsertReview, InsertIssue,
             WriteFinding, WritePbcRequest, InsertSignoff, InsertReport,
             UpdateReport, UpdateStatus, ApplyFreeze, Late
    <3>4. \A t \in Sessions: tx'[t].stage = "idle"
      BY <3>1 DEF Serial, Idle
    <3> QED BY <3>3, <3>4
  <2> QED BY <1>2, StepKinds, <2>1, <2>2, <2>3, <2>4, <2>5
<1> QED BY <1>1, <1>2 DEF Next

\* As long as requests do not overlap, FREEZE-001 holds as the documents
\* state it: no assurance row of a frozen engagement changes, even in the
\* table that has no freeze trigger (FrozenNeverMutated), and none is
\* unresolved.
THEOREM SerialFreezeIsFinal ==
  Spec /\ []Serial => /\ FrozenNeverMutated
                      /\ [](frozen => Unresolved = {})
<1>1. Init => NothingRaced
  BY DEF Init, NothingRaced
<1>2. IInv /\ NothingRaced /\ Serial /\ [Next]_vars => NothingRaced'
  BY NothingRacedStays
<1>3. NothingRaced /\ [frozen /\ rows' # rows => RacedCommit]_vars
        => [frozen => rows' = rows]_vars
  BY DEF NothingRaced, RacedCommit
<1>4. IInv /\ NothingRaced => (frozen => Unresolved = {})
  BY DEF IInv, GateHolds, Gate, Frozen, NothingRaced
<1> QED
  BY <1>1, <1>2, <1>3, <1>4, Invariance, FreezeIsKept, PTL
     DEF Spec, FrozenNeverMutated, FrozenRowsOnlyRaced

=============================================================================
