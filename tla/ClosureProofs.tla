--------------------------- MODULE ClosureProofs ---------------------------
(***************************************************************************)
(* Proofs about the closure of an engagement, for any constants: CLOSED    *)
(* rests on independent evidence, and Finalization implements the abstract *)
(* AssuranceLifecycle.                                                     *)
(*                                                                         *)
(* The closure gate looks at rows, their triggers looked at who wrote      *)
(* them, and each at a time of its own.  What connects them is that the    *)
(* columns a trigger compared never change again: the preparer of a        *)
(* workpaper and the generator of a report version.                        *)
(***************************************************************************)
EXTENDS FinalizationProofs

\* Who stands behind each committed row.
Attributed ==
  /\ \A u \in signoffs: Assurer(u)
  /\ \A w \in Workpapers, u \in Users:
       <<u, "APPROVED">> \in reviews[w] =>
         w \in Prepared /\ Assurer(u) /\ u # preparedBy[w]
  /\ \A v \in Versions: approvedBy[v] # None =>
       v <= reports /\ Assurer(approvedBy[v]) /\ approvedBy[v] # generatedBy[v]

\* The rows ClosureReady asks for, whoever wrote them.
Evidenced ==
  /\ signoffs # {}
  /\ \E w \in Prepared: ReviewApproved(w)
  /\ \E v \in Versions: approvedBy[v] # None

\* What a transaction's service found, as far as it stays true.
Found(r) ==
  /\ r.op = "createWorkpaper" => preparedBy[r.on] = None
  /\ r.op \in {"approveWorkpaper", "rejectWorkpaper"} => r.on \in Prepared
  /\ r.op = "generateReport" => r.on <= reports + 1
  /\ r.op = "approveReport" => r.on <= reports
  /\ r.op = "closeEngagement" => status # "TESTING"

\* What its triggers and constraints found.
Passed(r) ==
  /\ r.op = "approveWorkpaper" => Assurer(r.by) /\ r.by # preparedBy[r.on]
  /\ r.op = "signoffEngagement" => Assurer(r.by)
  /\ r.op = "generateReport" => r.on > reports
  /\ r.op = "approveReport" => Assurer(r.by) /\ r.by # generatedBy[r.on]
  /\ r.op = "closeEngagement" => Evidenced

Pending ==
  \A s \in Sessions:
    Found(tx[s]) /\ (tx[s].stage = "written" => Passed(tx[s]))

\* A new workpaper has one creator, the next report version one writer.
Creates(s) == tx[s].op = "createWorkpaper"
Generates(s) == tx[s].op = "generateReport" /\ tx[s].stage = "written"

SingleWriters ==
  \A s, t \in Sessions:
    \/ Creates(s) /\ Creates(t) /\ tx[s].on = tx[t].on
    \/ Generates(s) /\ Generates(t)
    => s = t

ClosedEvidenced == status = "CLOSED" => Evidenced

CInv == TypeOK /\ TxOK /\ Attributed /\ Pending /\ SingleWriters
        /\ ClosedEvidenced

-----------------------------------------------------------------------------
(* Requests and statements.                                                *)

LEMMA RequestFinds ==
  ASSUME TypeOK, TxOK, Pending, SingleWriters,
         NEW s \in Sessions, Request(s)
  PROVE  Pending' /\ SingleWriters'
<1>1. PICK r \in Transaction: Begins(s, r)
  BY RequestBegins
<1>2. r = tx'[s]
  BY <1>1 DEF Begins, TypeOK
<1> DEFINE Good ==
      /\ Found(r)
      /\ r.op = "createWorkpaper" => \A t \in Sessions: tx[t].on # r.on
<1>3. Good
  <2> USE <1>2 DEF Begin, Found, TypeOK
  <2>1. ASSUME NEW u \in Users, NEW w \in Workpapers,
               CreateWorkpaper(s, u, w) \/ ReviewWorkpaper(s, u, w)
        PROVE  Good
    BY <2>1 DEF CreateWorkpaper, ReviewWorkpaper, Fresh
  <2>2. ASSUME NEW u \in Users, NEW i \in Issues, RaiseIssue(s, u, i)
        PROVE  Good
    BY <2>2 DEF RaiseIssue
  <2>3. ASSUME NEW u \in Users, NEW f \in Findings,
               CreateFinding(s, u, f) \/ CloseFinding(s, u, f)
        PROVE  Good
    BY <2>3 DEF CreateFinding, CloseFinding
  <2>4. ASSUME NEW u \in Users, NEW p \in Pbcs,
               \/ CreatePbcRequest(s, u, p) \/ SettlePbcRequest(s, u, p)
               \/ AcceptPrivacyAssuranceCandidate(s, u, p)
        PROVE  Good
    BY <2>4 DEF CreatePbcRequest, SettlePbcRequest,
                AcceptPrivacyAssuranceCandidate
  <2>5. ASSUME NEW u \in Users,
               \/ EnterReview(s, u) \/ SignoffEngagement(s, u)
               \/ GenerateReport(s, u) \/ CloseEngagement(s, u)
               \/ FreezeEngagement(s, u)
        PROVE  Good
    BY <2>5, BoundAssumption
       DEF EnterReview, SignoffEngagement, GenerateReport, CloseEngagement,
           FreezeEngagement
  <2>6. ASSUME NEW u \in Users, NEW v \in Versions, ApproveReport(s, u, v)
        PROVE  Good
    BY <2>6 DEF ApproveReport
  <2> QED BY <2>1, <2>2, <2>3, <2>4, <2>5, <2>6 DEF Request
<1>4. UNCHANGED <<status, rows>>
  BY <1>1 DEF Begins
<1>5. \A t \in Sessions: Found(tx[t])' /\ ((tx[t].stage = "written")' => Passed(tx[t])')
  <2>1. TAKE t \in Sessions
  <2>2. CASE t = s
    BY <1>1, <1>2, <1>3, <1>4, <2>2
       DEF Begins, Found, Prepared, rows
  <2>3. CASE t # s
    <3>1. tx'[t] = tx[t]
      BY <1>1, <2>3 DEF Begins, TypeOK
    <3> QED
      BY <1>4, <3>1 DEF Pending, Found, Passed, Evidenced, Prepared,
                        ReviewApproved, rows
  <2> QED BY <2>2, <2>3
<1>6. SingleWriters'
  BY <1>1, <1>2, <1>3
     DEF Begins, SingleWriters, Creates, Generates, TypeOK
<1> QED BY <1>5, <1>6 DEF Pending

\* The closure gate finds the rows that Evidenced asks for.
LEMMA ReadyEvidenced ==
  ASSUME ClosureReady
  PROVE  Evidenced
<1>1. signoffs # {} /\ ReviewReady /\ ReportReady
  BY DEF ClosureReady
<1>2. \E w \in Prepared: ReviewApproved(w)
  BY <1>1 DEF ReviewReady, Unreviewed
<1> QED BY <1>1, <1>2 DEF ReportReady, Evidenced

\* A statement adds to what its own transaction has passed, and changes no row.
LEMMA StatementPasses ==
  ASSUME TypeOK, TxOK, Pending, SingleWriters, ClosedEvidenced,
         NEW s \in Sessions,
         Execute(s) \/ GateFreeze(s) \/ InsertFreeze(s)
  PROVE  Pending' /\ SingleWriters'
<1> DEFINE r == tx[s]
<1>1. /\ r \in Transaction /\ Target(r) /\ Found(r)
      /\ tx'[s].op = r.op /\ tx'[s].on = r.on /\ tx'[s].by = r.by
      /\ \A t \in Sessions \ {s}: tx'[t] = tx[t]
      /\ UNCHANGED <<status, rows>>
  BY DEF Execute, GateFreeze, InsertFreeze, TypeOK, TxOK, Pending, Transaction
<1>2. CASE Execute(s)
  <2>1. ~Blocked(s) /\ Accepted(r) /\ tx[s].stage = "checked"
    BY <1>2 DEF Execute
  <2>2. Passed(r)
    <3>1. r.op = "closeEngagement" => Evidenced
      BY <1>1, <2>1, ReadyEvidenced
         DEF Accepted, TransitionAccepted, Found, ClosedEvidenced, TypeOK
    <3> QED BY <2>1, <3>1 DEF Passed, Accepted
  <2>3. ASSUME NEW t \in Sessions, Generates(t), r.op = "generateReport"
        PROVE  t = s
    <3>1. /\ r.on \in Versions /\ tx[t].on \in Versions
          /\ r.on > reports /\ r.on <= reports + 1
          /\ tx[t].on > reports /\ tx[t].on <= reports + 1
      BY <1>1, <2>2, <2>3
         DEF Pending, Found, Passed, Generates, TxOK, Target
    <3>2. r.on = tx[t].on
      BY <3>1, BoundAssumption DEF Versions, TypeOK
    <3> QED BY <2>1, <2>3, <3>2
            DEF Blocked, Conflict, WritesOneRow, Generates
  <2>4. SingleWriters'
    BY <1>1, <2>3 DEF SingleWriters, Creates, Generates
  <2> QED BY <1>1, <2>2, <2>4
          DEF Pending, Found, Passed, Evidenced, Prepared, ReviewApproved, rows
<1>3. CASE GateFreeze(s) \/ InsertFreeze(s)
  <2>1. r.op = "freezeEngagement"
    BY <1>1, <1>3 DEF GateFreeze, InsertFreeze, Target
  <2>2. SingleWriters'
    BY <1>1, <2>1 DEF SingleWriters, Creates, Generates
  <2> QED BY <1>1, <2>1, <2>2
          DEF Pending, Found, Passed, Evidenced, Prepared, ReviewApproved, rows
<1> QED BY <1>2, <1>3

-----------------------------------------------------------------------------
(* Commits.                                                                *)

\* What no commit takes away.
Grows ==
  /\ \A w \in Prepared: w \in Prepared' /\ preparedBy'[w] = preparedBy[w]
  /\ reports <= reports'
  /\ \A v \in Versions: v <= reports => generatedBy'[v] = generatedBy[v]
  /\ \A v \in Versions: approvedBy[v] # None => approvedBy'[v] # None
  /\ Evidenced => Evidenced'
  /\ status # "TESTING" => status' # "TESTING"

\* The row of the transaction that commits.
LEMMA Committed ==
  ASSUME TypeOK, TxOK, Pending, NEW s \in Sessions, CommitAny(s)
  PROVE  /\ tx[s] \in Transaction /\ Target(tx[s])
         /\ Found(tx[s]) /\ Passed(tx[s])
         /\ tx[s].by \in Users /\ tx[s].by # None
         /\ tx[s].stage = "written" /\ tx' = [tx EXCEPT ![s] = Idle]
<1>1. tx[s].by \in Users
  BY CommitEnds DEF TxOK, Target
<1> QED BY <1>1, CommitEnds, NoneAssumption DEF TypeOK, TxOK, Pending

LEMMA CommitGrows ==
  ASSUME TypeOK, TxOK, Pending, NEW s \in Sessions, CommitAny(s)
  PROVE  Grows
<1> DEFINE r == tx[s]
<1> DEFINE Kept == /\ \A w \in Prepared: preparedBy'[w] = preparedBy[w]
                   /\ reports <= reports'
                   /\ \A v \in Versions:
                        /\ v <= reports => generatedBy'[v] = generatedBy[v]
                        /\ approvedBy[v] # None => approvedBy'[v] # None
                   /\ status # "TESTING" => status' # "TESTING"
<1> USE Committed
<1>1. Kept
  <2>1. CASE InsertWorkpaper(s)
    <3>1. ASSUME NEW w \in Prepared
          PROVE  preparedBy'[w] = preparedBy[w]
      BY <2>1, <3>1 DEF InsertWorkpaper, Commit, Found, Prepared, TypeOK
    <3> QED BY <2>1, <3>1 DEF InsertWorkpaper, TypeOK
  <2>2. CASE InsertReview(s)
    BY <2>2 DEF InsertReview, TypeOK
  <2>3. CASE InsertIssue(s) \/ WriteFinding(s) \/ WritePbcRequest(s)
    BY <2>3 DEF InsertIssue, WriteFinding, WritePbcRequest, TypeOK
  <2>4. CASE InsertSignoff(s)
    BY <2>4 DEF InsertSignoff, TypeOK
  <2>5. CASE InsertReport(s)
    <3>1. r.on > reports /\ r.on \in Versions
      BY <2>5 DEF InsertReport, Commit, Passed, Target
    <3>2. reports <= reports'
      BY <2>5, <3>1, BoundAssumption DEF InsertReport, TypeOK, Versions
    <3>3. ASSUME NEW v \in Versions, v <= reports
          PROVE  generatedBy'[v] = generatedBy[v]
      <4>1. v # r.on
        BY <3>1, <3>3, BoundAssumption DEF TypeOK, Versions
      <4> QED BY <2>5, <4>1 DEF InsertReport, TypeOK
    <3> QED BY <2>5, <3>2, <3>3 DEF InsertReport
  <2>6. CASE UpdateReport(s)
    BY <2>6 DEF UpdateReport, TypeOK
  <2>7. CASE UpdateStatus(s) \/ ApplyFreeze(s)
    BY <2>7 DEF UpdateStatus, ApplyFreeze, rows, TypeOK
  <2> QED BY <2>1, <2>2, <2>3, <2>4, <2>5, <2>6, <2>7 DEF CommitAny
<1>2. \A w \in Prepared: w \in Prepared'
  BY <1>1 DEF Prepared
<1>3. Evidenced => Evidenced'
  BY <1>1, CommitKeeps DEF Evidenced
<1> QED BY <1>1, <1>2, <1>3 DEF Grows

LEMMA CommitAttributes ==
  ASSUME TypeOK, TxOK, Attributed, Pending, NEW s \in Sessions, CommitAny(s)
  PROVE  Attributed'
<1> DEFINE r == tx[s]
<1> USE Committed
<1>1. CASE InsertWorkpaper(s)
  BY <1>1, CommitGrows
     DEF InsertWorkpaper, Grows, Attributed, Prepared, Assurer, TypeOK
<1>2. CASE InsertReview(s)
  <2>1. r.on \in Workpapers
    BY <1>2 DEF InsertReview, Commit, Target
  <2>2. ASSUME NEW w \in Workpapers, NEW u \in Users,
               <<u, "APPROVED">> \in reviews'[w], <<u, "APPROVED">> \notin reviews[w]
        PROVE  w = r.on /\ u = r.by /\ r.op = "approveWorkpaper"
    BY <1>2, <2>1, <2>2 DEF InsertReview, Commit, TypeOK
  <2> QED BY <1>2, <2>2
          DEF InsertReview, Attributed, Prepared, Assurer, Found, Passed
<1>3. CASE InsertIssue(s) \/ WriteFinding(s) \/ WritePbcRequest(s)
  BY <1>3 DEF InsertIssue, WriteFinding, WritePbcRequest, Attributed, Prepared,
              Assurer
<1>4. CASE InsertSignoff(s)
  BY <1>4 DEF InsertSignoff, Commit, Passed, Attributed, Prepared, Assurer
<1>5. CASE InsertReport(s)
  <2>1. r.on > reports /\ r.on \in Versions
    BY <1>5 DEF InsertReport, Commit, Passed, Target
  <2> QED BY <1>5, <2>1, BoundAssumption
          DEF InsertReport, Attributed, Prepared, Assurer, TypeOK, Versions
<1>6. CASE UpdateReport(s)
  <2>1. r.on \in Versions
    BY <1>6 DEF UpdateReport, Commit, Target
  <2> QED BY <1>6, <2>1
          DEF UpdateReport, Commit, Found, Passed, Attributed, Prepared,
              Assurer, TypeOK
<1>7. CASE UpdateStatus(s) \/ ApplyFreeze(s)
  BY <1>7 DEF UpdateStatus, ApplyFreeze, rows, Attributed, Prepared, Assurer
<1> QED BY <1>1, <1>2, <1>3, <1>4, <1>5, <1>6, <1>7 DEF CommitAny

\* A commit leaves standing what the other transactions found and passed.
LEMMA CommitLeaves ==
  ASSUME TypeOK, TxOK, Pending, SingleWriters,
         NEW s \in Sessions, CommitAny(s)
  PROVE  Pending' /\ SingleWriters'
<1> DEFINE r == tx[s]
<1> USE Committed
<1>1. Found(Idle)' /\ Idle.stage = "idle" /\ Idle.op = "enterReview"
  BY DEF Found, Idle
<1>4. \A t \in Sessions: tx'[t] = IF t = s THEN Idle ELSE tx[t]
  BY DEF TypeOK
<1>5. SingleWriters'
  BY <1>1, <1>4 DEF SingleWriters, Creates, Generates
<1>2. ASSUME NEW t \in Sessions \ {s}
      PROVE  Found(tx[t])' /\ ((tx[t].stage = "written")' => Passed(tx[t])')
  <2> DEFINE q == tx[t]
  <2>1. /\ tx'[t] = q /\ q \in Transaction /\ Target(q) /\ Found(q)
        /\ q.stage = "written" => Passed(q)
        /\ q.op = "createWorkpaper" /\ r.op = "createWorkpaper" => q.on # r.on
        /\ ~(Generates(t) /\ Generates(s))
    BY <1>2 DEF TypeOK, TxOK, Pending, SingleWriters, Creates
  <2>2. Grows
    BY CommitGrows
  <2>3. q.op = "createWorkpaper" => preparedBy'[q.on] = None
    <3>1. CASE InsertWorkpaper(s)
      BY <2>1, <3>1 DEF InsertWorkpaper, Commit, Found, Target, TypeOK
    <3>2. CASE ~InsertWorkpaper(s)
      <4>1. preparedBy' = preparedBy
        BY <3>2 DEF CommitAny, InsertReview, InsertIssue, WriteFinding,
                    WritePbcRequest, InsertSignoff, InsertReport, UpdateReport,
                    UpdateStatus, ApplyFreeze, rows
      <4> QED BY <2>1, <4>1 DEF Found
    <3> QED BY <3>1, <3>2
  <2>4. q.op = "generateReport" /\ q.stage = "written" => q.on > reports'
    <3>1. CASE InsertReport(s)
      BY <2>1, <3>1 DEF InsertReport, Commit, Generates
    <3>2. CASE ~InsertReport(s)
      <4>1. reports' = reports
        BY <3>2 DEF CommitAny, InsertWorkpaper, InsertReview, InsertIssue,
                    WriteFinding, WritePbcRequest, InsertSignoff, UpdateReport,
                    UpdateStatus, ApplyFreeze, rows
      <4> QED BY <2>1, <4>1 DEF Passed
    <3> QED BY <3>1, <3>2
  <2>5. reports \in Nat /\ reports' \in Nat
    BY TypeStep, BoundAssumption DEF TypeOK, Next
  <2>6. q.op \in {"generateReport", "approveReport"} =>
          q.on \in Versions /\ q.on \in Nat
    BY <2>1, BoundAssumption DEF Target, Versions
  <2>7. Found(q)'
    BY <2>1, <2>2, <2>3, <2>5, <2>6 DEF Found, Grows
  <2>8. q.stage = "written" => Passed(q)'
    BY <2>1, <2>2, <2>4, <2>6 DEF Found, Passed, Grows, Assurer
  <2> QED BY <2>1, <2>7, <2>8
<1>3. Found(tx[s])' /\ ((tx[s].stage = "written")' => Passed(tx[s])')
  BY <1>1, <1>4
<1> QED BY <1>2, <1>3, <1>5 DEF Pending

LEMMA RollbackLeaves ==
  ASSUME TypeOK, Pending, SingleWriters, NEW s \in Sessions, Rollback(s)
  PROVE  Pending' /\ SingleWriters'
<1>1. Found(Idle)' /\ Idle.stage = "idle" /\ Idle.op = "enterReview"
  BY DEF Found, Idle
<1>2. \A t \in Sessions: tx'[t] = IF t = s THEN Idle ELSE tx[t]
  BY DEF Rollback, TypeOK
<1>3. SingleWriters'
  BY <1>1, <1>2 DEF SingleWriters, Creates, Generates
<1>4. UNCHANGED <<status, rows>>
  BY DEF Rollback
<1>5. ASSUME NEW t \in Sessions
      PROVE  Found(tx[t])' /\ ((tx[t].stage = "written")' => Passed(tx[t])')
  <2>1. CASE t = s
    BY <1>1, <1>2, <2>1
  <2>2. CASE t # s
    BY <1>2, <1>4, <2>2 DEF Pending, Found, Passed, Evidenced, Prepared,
                            ReviewApproved, rows
  <2> QED BY <2>1, <2>2
<1> QED BY <1>3, <1>5 DEF Pending

-----------------------------------------------------------------------------
(* The invariant and what follows from it.                                 *)

LEMMA ClosureInit == Init => CInv
<1> SUFFICES ASSUME Init PROVE CInv
  OBVIOUS
<1>1. Attributed /\ ClosedEvidenced
  BY DEF Init, Attributed, ClosedEvidenced
<1>2. Pending /\ SingleWriters
  BY DEF Init, Pending, SingleWriters, Found, Creates, Generates, Idle
<1> QED BY <1>1, <1>2, TypeInit DEF CInv

\* Only an update of the status changes it.
LEMMA StatusWritten ==
  ASSUME NEW s \in Sessions, CommitAny(s), ~UpdateStatus(s)
  PROVE  status' = status
BY DEF CommitAny, InsertWorkpaper, InsertReview, InsertIssue, WriteFinding,
       WritePbcRequest, InsertSignoff, InsertReport, UpdateReport, ApplyFreeze

LEMMA ClosureStep == CInv /\ [Next]_vars => CInv'
<1> SUFFICES ASSUME CInv, [Next]_vars PROVE CInv'
  OBVIOUS
<1>1. TypeOK' /\ TxOK'
  BY TypeStep DEF CInv
<1>2. CASE UNCHANGED vars
  BY <1>1, <1>2
     DEF CInv, vars, rows, Attributed, Pending, SingleWriters, ClosedEvidenced,
         Found, Passed, Evidenced, Prepared, ReviewApproved, Assurer, Creates,
         Generates
<1>3. ASSUME NEW s \in Sessions,
             Request(s) \/ Statement(s) \/ CommitAny(s) \/ Fail(s)
      PROVE  CInv'
  <2>1. CASE CommitAny(s)
    <3>1. Pending' /\ SingleWriters' /\ Attributed' /\ Grows
      BY <2>1, CommitLeaves, CommitAttributes, CommitGrows DEF CInv
    <3>2. ClosedEvidenced'
      <4>1. CASE UpdateStatus(s) /\ tx[s].op = "closeEngagement"
        BY <2>1, <3>1, <4>1, Committed DEF CInv, Passed, Grows, ClosedEvidenced
      <4>2. CASE UpdateStatus(s) /\ tx[s].op # "closeEngagement"
        BY <4>2 DEF UpdateStatus, Commit, ClosedEvidenced
      <4>3. CASE ~UpdateStatus(s)
        BY <2>1, <3>1, <4>3, StatusWritten DEF CInv, Grows, ClosedEvidenced
      <4> QED BY <4>1, <4>2, <4>3
    <3> QED BY <1>1, <3>1, <3>2 DEF CInv
  <2>2. CASE ~CommitAny(s)
    <3>1. UNCHANGED <<status, rows>>
      BY <1>3, <2>2, StepKinds, RequestBegins
         DEF CInv, Begins, Execute, GateFreeze, InsertFreeze, Rollback
    <3>2. Attributed' /\ ClosedEvidenced'
      BY <3>1 DEF CInv, rows, Attributed, ClosedEvidenced, Evidenced, Prepared,
                  ReviewApproved, Assurer
    <3>3. Pending' /\ SingleWriters'
      BY <1>3, <2>2, StepKinds, RequestFinds, StatementPasses, RollbackLeaves
         DEF CInv
    <3> QED BY <1>1, <3>2, <3>3 DEF CInv
  <2> QED BY <2>1, <2>2
<1> QED BY <1>2, <1>3 DEF Next

THEOREM ClosureInvariance == Spec => []CInv
BY ClosureInit, ClosureStep, PTL DEF Spec

\* A CLOSED engagement has a sign-off by an assurer, a workpaper approved by
\* an assurer who did not prepare it and a report version approved by an
\* assurer who did not generate it: the columns the triggers compared are
\* still those, whatever was committed between the triggers and the closure.
THEOREM ClosureIsIndependent == Spec => []ClosedOnIndependentEvidence
<1>1. CInv => ClosedOnIndependentEvidence
  <2> SUFFICES ASSUME CInv, status = "CLOSED"
               PROVE  ClosedOnIndependentEvidence
    BY DEF ClosedOnIndependentEvidence
  <2>1. Attributed /\ Evidenced /\ TypeOK
    BY DEF CInv, ClosedEvidenced
  <2>2. \E u \in signoffs: Assurer(u)
    BY <2>1 DEF Attributed, Evidenced
  <2>3. PICK w \in Prepared, u \in Users: <<u, "APPROVED">> \in reviews[w]
    BY <2>1 DEF Evidenced, ReviewApproved
  <2>4. Assurer(u) /\ u # preparedBy[w]
    BY <2>1, <2>3 DEF Attributed, Prepared
  <2>5. PICK v \in Versions: approvedBy[v] # None
    BY <2>1 DEF Evidenced
  <2>6. /\ v \in 1..reports
        /\ Assurer(approvedBy[v]) /\ approvedBy[v] # generatedBy[v]
    BY <2>1, <2>5, BoundAssumption DEF Attributed, Versions, TypeOK
  <2> QED BY <2>2, <2>3, <2>4, <2>5, <2>6 DEF ClosedOnIndependentEvidence
<1> QED BY <1>1, ClosureInvariance, PTL

-----------------------------------------------------------------------------
(* Finalization implements AssuranceLifecycle.                             *)

LEMMA AllEvidence ==
  ASSUME Evidenced
  PROVE  EvidenceOnFile = Lifecycle!Evidence
BY DEF Evidenced, EvidenceOnFile, Lifecycle!Evidence

\* A step that keeps status and freeze and withdraws no row gathers evidence.
LEMMA Gathers ==
  ASSUME UNCHANGED <<status, frozen>>, EvidenceOnFile \subseteq EvidenceOnFile'
  PROVE  Lifecycle!Next
<1>1. EvidenceOnFile' \in SUBSET Lifecycle!Evidence
  BY DEF EvidenceOnFile, Lifecycle!Evidence
<1>2. EvidenceOnFile' = EvidenceOnFile \cup EvidenceOnFile'
  OBVIOUS
<1> QED BY <1>1, <1>2 DEF Lifecycle!Next, Lifecycle!Gather

LEMMA LifecycleStep ==
  ASSUME IInv, CInv, [Next]_vars
  PROVE  [Lifecycle!Next]_Lifecycle!vars
<1> USE DEF Lifecycle!vars
<1>1. ASSUME UNCHANGED rows
      PROVE  EvidenceOnFile' = EvidenceOnFile
  BY <1>1 DEF EvidenceOnFile, Prepared, ReviewApproved, rows
<1>2. CASE UNCHANGED vars
  BY <1>1, <1>2 DEF vars
<1>3. ASSUME NEW s \in Sessions,
             Request(s) \/ Statement(s) \/ CommitAny(s) \/ Fail(s)
      PROVE  [Lifecycle!Next]_Lifecycle!vars
  <2> USE DEF IInv
  <2>1. CASE ~CommitAny(s)
    <3>1. UNCHANGED <<status, frozen, rows>>
      BY <1>3, <2>1, StepKinds, RequestBegins
         DEF Begins, Execute, GateFreeze, InsertFreeze, Rollback
    <3> QED BY <1>1, <3>1 DEF rows
  \* A commit that is neither of the next two gathers evidence or none.
  <2>2. CASE CommitAny(s) /\ ~UpdateStatus(s) /\ ~ApplyFreeze(s)
    <3>1. Grows /\ signoffs \subseteq signoffs'
          /\ \A w \in Prepared: ReviewApproved(w) =>
               w \in Prepared' /\ ReviewApproved(w)'
      BY <2>2, CommitGrows, CommitKeeps DEF CInv
    <3>2. EvidenceOnFile \subseteq EvidenceOnFile'
      BY <3>1 DEF EvidenceOnFile, Grows
    <3>3. UNCHANGED <<status, frozen>>
      BY <2>2, StatusWritten, CommitFreezes
    <3> QED BY <3>2, <3>3, Gathers
  <2>3. CASE UpdateStatus(s)
    <3>1. /\ tx[s].stage = "written" /\ Found(tx[s]) /\ Passed(tx[s])
          /\ UNCHANGED <<frozen, rows>>
      BY <2>3, CommitEnds DEF UpdateStatus, CInv, Pending, CommitAny
    <3>2. status # "CLOSED" => ~frozen
      BY DEF GateHolds, Gate, Frozen
    <3>3. EvidenceOnFile' = EvidenceOnFile
      BY <1>1, <3>1
    <3>4. CASE tx[s].op = "enterReview"
      <4>1. status' = "REVIEW" /\ status \in {"TESTING", "REVIEW"}
        BY <2>3, <3>1, <3>4 DEF UpdateStatus, Commit, NoReopening, TypeOK
      <4> QED BY <3>1, <3>2, <3>3, <4>1
              DEF Lifecycle!Next, Lifecycle!Advance, Lifecycle!Allowed
    <3>5. CASE tx[s].op # "enterReview"
      <4>1. tx[s].op = "closeEngagement" /\ status' = "CLOSED"
        BY <2>3, <3>5 DEF UpdateStatus, Commit
      <4>2. status \in {"REVIEW", "CLOSED"} /\ Evidenced
        BY <3>1, <4>1 DEF Found, Passed, TypeOK
      <4> QED BY <3>1, <3>2, <3>3, <4>1, <4>2, AllEvidence
              DEF Lifecycle!Next, Lifecycle!Advance, Lifecycle!Allowed
    <3> QED BY <3>4, <3>5
  <2>4. CASE ApplyFreeze(s)
    <3>1. tx[s].stage = "written" /\ tx[s].op = "freezeEngagement"
          /\ frozen' = TRUE /\ UNCHANGED <<status, rows>>
      BY <2>4 DEF ApplyFreeze, Commit
    <3>2. status = "CLOSED" /\ ~frozen
      BY <3>1 DEF GateHolds, Gate, Frozen, Freezing, FirstFreeze, TypeOK
    <3>3. Evidenced
      BY <3>2 DEF CInv, ClosedEvidenced
    <3> QED BY <1>1, <3>1, <3>2, <3>3, AllEvidence
            DEF Lifecycle!Next, Lifecycle!Freeze
  <2> QED BY <2>1, <2>2, <2>3, <2>4
<1> QED BY <1>2, <1>3 DEF Next

\* Every behaviour of the stage is one the abstract lifecycle allows: the
\* status follows the truth table, REVIEW ends and the freeze begins with all
\* evidence on file, and the freeze is one way.
THEOREM LifecycleKept == Spec => LifecyclePromise
<1>1. Init => Lifecycle!Init
  BY DEF Init, Lifecycle!Init, EvidenceOnFile, ReviewApproved, Prepared
<1>2. IInv /\ CInv /\ [Next]_vars => [Lifecycle!Next]_Lifecycle!vars
  BY LifecycleStep
<1> QED
  BY <1>1, <1>2, Invariance, ClosureInvariance, PTL
     DEF Spec, LifecyclePromise, Lifecycle!Spec

-----------------------------------------------------------------------------
(* Finalization implements FourEyes.                                       *)

\* The versions generated are those that have a generator on record.
Recorded == \A v \in Versions: v <= reports <=> generatedBy[v] # None

LEMMA ReportsMove ==
  ASSUME CInv, Recorded, [Next]_vars
  PROVE  Recorded' /\ [Reports!Next]_Reports!vars
<1> USE DEF Reports!vars
<1>1. ASSUME UNCHANGED <<reports, generatedBy, approvedBy>>
      PROVE  Recorded' /\ [Reports!Next]_Reports!vars
  BY <1>1 DEF Recorded
<1>2. CASE UNCHANGED vars
  BY <1>1, <1>2 DEF vars, rows
<1>3. ASSUME NEW s \in Sessions,
             Request(s) \/ Statement(s) \/ CommitAny(s) \/ Fail(s)
      PROVE  Recorded' /\ [Reports!Next]_Reports!vars
  <2> DEFINE r == tx[s]
  <2>1. CASE ~CommitAny(s)
    BY <1>1, <1>3, <2>1, StepKinds, RequestBegins
       DEF CInv, Begins, Execute, GateFreeze, InsertFreeze, Rollback, rows
  <2>2. CASE CommitAny(s) /\ ~InsertReport(s) /\ ~UpdateReport(s)
    BY <1>1, <2>2
       DEF CommitAny, InsertWorkpaper, InsertReview, InsertIssue, WriteFinding,
           WritePbcRequest, InsertSignoff, UpdateStatus, ApplyFreeze, rows
  <2>3. CASE InsertReport(s)
    <3>1. /\ r.on \in Versions /\ r.on > reports /\ r.on <= reports + 1
          /\ r.by \in Users /\ r.by # None
      BY <2>3, Committed
         DEF CommitAny, CInv, InsertReport, Commit, Found, Passed, Target
    <3>2. r.on = reports + 1 /\ reports \in Nat /\ Versions \subseteq Nat
      BY <3>1, BoundAssumption DEF CInv, TypeOK, Versions
    <3>3. /\ reports' = r.on /\ UNCHANGED approvedBy
          /\ generatedBy' = [generatedBy EXCEPT ![r.on] = r.by]
          /\ generatedBy \in [Versions -> Users \cup {None}]
      BY <2>3 DEF InsertReport, CInv, TypeOK
    <3>4. Reports!Make(r.on, r.by)
      BY <3>1, <3>2, <3>3 DEF Recorded, Reports!Make
    <3>5. Recorded'
      BY <3>1, <3>2, <3>3 DEF Recorded
    <3> QED BY <3>1, <3>4, <3>5 DEF Reports!Next
  <2>4. CASE UpdateReport(s)
    <3>1. /\ r.on \in Versions /\ r.on <= reports
          /\ r.by \in Users /\ r.by # generatedBy[r.on]
      BY <2>4, Committed
         DEF CommitAny, CInv, UpdateReport, Commit, Found, Passed, Target
    <3>2. /\ UNCHANGED <<reports, generatedBy>>
          /\ approvedBy' = [approvedBy EXCEPT ![r.on] = r.by]
      BY <2>4 DEF UpdateReport
    <3>3. Reports!Approve(r.on, r.by)
      BY <3>1, <3>2 DEF Recorded, Reports!Approve
    <3> QED BY <3>1, <3>2, <3>3 DEF Recorded, Reports!Next
  <2> QED BY <2>1, <2>2, <2>3, <2>4
<1> QED BY <1>2, <1>3 DEF Next

\* Every report version has one generator, whatever requests generate one at
\* a time, and only somebody else is ever on record as its approver.
THEOREM ReportsKeptApart == Spec => ReportsByFourEyes
<1>1. Init => Recorded /\ Reports!Init
  BY BoundAssumption DEF Init, Recorded, Versions, Reports!Init
<1>2. CInv /\ Recorded /\ [Next]_vars =>
        Recorded' /\ [Reports!Next]_Reports!vars
  BY ReportsMove
<1> QED
  BY <1>1, <1>2, ClosureInvariance, PTL
     DEF Spec, ReportsByFourEyes, Reports!Spec

=============================================================================
