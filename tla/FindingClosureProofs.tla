------------------------ MODULE FindingClosureProofs ------------------------
(***************************************************************************)
(* Proofs about FindingClosure, for any users, findings, remediations,     *)
(* acceptances, sessions and any bound on the clock.                       *)
(*                                                                         *)
(* A retest and a closure lock nothing of what they rest on.  They are     *)
(* safe because it is final: the users of record of a completion and of an *)
(* approval are written once, under a row lock held from the check to the  *)
(* commit.                                                                 *)
(***************************************************************************)
EXTENDS FindingClosure, TLAPS

\* What a transaction is about.
Target(r) ==
  /\ r.stage # "idle" => r.by \in Users
  /\ r.stage = "idle" => r.op = "closeFinding"
  /\ r.op \in {"createRemediation", "completeRemediation", "recordRetest"} =>
       r.on \in Remediations
  /\ r.op \in {"createRiskAcceptance", "approveRiskAcceptance"} =>
       r.on \in Acceptances
  /\ r.op = "closeFinding" /\ r.stage # "idle" => r.on \in Findings

Typed == TypeOK /\ \A s \in Sessions: Target(tx[s])

\* The columns of a row agree.
RowsAgree ==
  /\ \A r \in Remediations: completedBy[r] # None <=> remediation[r] = "COMPLETED"
  /\ \A k \in Acceptances:
       /\ approvedBy[k] # None <=> approval[k] = "APPROVED"
       /\ approval[k] = "APPROVED" => approvedBy[k] # acceptedBy[k]

\* What a transaction found, as far as it stays true.
Found(r) ==
  /\ r.op = "createRemediation" => remediation[r.on] = "none"
  /\ r.op = "recordRetest" => MayRetest(r.by, r.on)
  /\ r.op = "createRiskAcceptance" => approval[r.on] = "none"

\* What it found under its locks and in its triggers.
Passed(r) ==
  /\ r.op = "completeRemediation" => remediation[r.on] = "OPEN"
  /\ r.op = "approveRiskAcceptance" =>
       approval[r.on] = "PENDING" /\ acceptedBy[r.on] # r.by
  /\ r.op = "closeFinding" =>
       r.on \in closed \/ ClosureReady(r.on, r.at)

Pending ==
  \A s \in Sessions:
    Found(tx[s]) /\ (tx[s].stage = "written" => Passed(tx[s]))

\* The transactions that will write the status of a row: the one that inserts
\* it, or the one that holds its lock.
Inserts(s) == tx[s].op \in {"createRemediation", "createRiskAcceptance"}
Holds(s) ==
  /\ tx[s].op \in {"completeRemediation", "approveRiskAcceptance"}
  /\ tx[s].stage = "written"

SingleWriters ==
  \A s, t \in Sessions:
    /\ tx[s].op = tx[t].op /\ tx[s].on = tx[t].on
    /\ \/ Inserts(s) /\ Inserts(t)
       \/ Holds(s) /\ Holds(t)
    => s = t

IInv == Typed /\ RowsAgree /\ RetestsIndependent /\ Pending /\ SingleWriters
        /\ ClosedOnRemedy

rows == <<executing, closed, remedies, risks, now>>

-----------------------------------------------------------------------------
(* Types.                                                                  *)

\* A request puts a checked transaction into an idle session.
Begins(s, r) ==
  /\ r.stage = "checked" /\ Target(r) /\ Found(r)
  /\ r.op \in {"createRemediation", "createRiskAcceptance"} =>
       \A t \in Sessions: tx[t].on # r.on
  /\ tx' = [tx EXCEPT ![s] = r]
  /\ UNCHANGED rows

LEMMA ZeroIsATime == 0 \in Times
BY BoundAssumption DEF Times

LEMMA RequestBegins ==
  ASSUME Typed, NEW s \in Sessions, Request(s)
  PROVE  \E r \in Transaction: Begins(s, r)
<1> USE ZeroIsATime
    DEF Typed, TypeOK, Begin, Begins, Transaction, Operations, PermissionFor,
        Targets, Results, Target, Found, rows
<1> DEFINE R(op, u, x, t, result) ==
      [stage |-> "checked", op |-> op, by |-> u, on |-> x, at |-> now,
       until |-> t, result |-> result]
<1>1. PICK u \in Users:
        \/ \E r \in Remediations:
             \/ CreateRemediation(s, u, r) \/ CompleteRemediation(s, u, r)
             \/ \E result \in Results: RecordRetest(s, u, r, result)
        \/ \E k \in Acceptances:
             \/ \E t \in Times: CreateRiskAcceptance(s, u, k, t)
             \/ ApproveRiskAcceptance(s, u, k)
        \/ \E f \in Findings: CloseFinding(s, u, f)
  BY DEF Request
<1>2. ASSUME NEW r \in Remediations, CreateRemediation(s, u, r)
      PROVE  \E q \in Transaction: Begins(s, q)
  <2> WITNESS R("createRemediation", u, r, 0, "PASS") \in Transaction
  <2> QED BY <1>2 DEF CreateRemediation, Fresh
<1>3. ASSUME NEW r \in Remediations, CompleteRemediation(s, u, r)
      PROVE  \E q \in Transaction: Begins(s, q)
  <2> WITNESS R("completeRemediation", u, r, 0, "PASS") \in Transaction
  <2> QED BY <1>3 DEF CompleteRemediation
<1>4. ASSUME NEW r \in Remediations, NEW result \in Results,
             RecordRetest(s, u, r, result)
      PROVE  \E q \in Transaction: Begins(s, q)
  <2> WITNESS R("recordRetest", u, r, 0, result) \in Transaction
  <2> QED BY <1>4 DEF RecordRetest
<1>5. ASSUME NEW k \in Acceptances, NEW t \in Times,
             CreateRiskAcceptance(s, u, k, t)
      PROVE  \E q \in Transaction: Begins(s, q)
  <2> WITNESS R("createRiskAcceptance", u, k, t, "PASS") \in Transaction
  <2> QED BY <1>5 DEF CreateRiskAcceptance, Fresh
<1>6. ASSUME NEW k \in Acceptances, ApproveRiskAcceptance(s, u, k)
      PROVE  \E q \in Transaction: Begins(s, q)
  <2> WITNESS R("approveRiskAcceptance", u, k, 0, "PASS") \in Transaction
  <2> QED BY <1>6 DEF ApproveRiskAcceptance
<1>7. ASSUME NEW f \in Findings, CloseFinding(s, u, f)
      PROVE  \E q \in Transaction: Begins(s, q)
  <2> WITNESS R("closeFinding", u, f, 0, "PASS") \in Transaction
  <2> QED BY <1>7 DEF CloseFinding
<1> HIDE DEF R
<1> QED BY <1>1, <1>2, <1>3, <1>4, <1>5, <1>6, <1>7

LEMMA IdleTyped == Idle \in Transaction /\ Target(Idle) /\ Found(Idle)
BY ZeroIsATime
   DEF Idle, Transaction, Operations, PermissionFor, Targets, Results, Target,
       Found

LEMMA CommitEnds ==
  ASSUME Typed, NEW s \in Sessions, CommitAny(s)
  PROVE  /\ tx[s] \in Transaction /\ Target(tx[s])
         /\ tx[s].stage = "written" /\ tx[s].by \in Users
         /\ tx' = [tx EXCEPT ![s] = Idle]
         /\ UNCHANGED <<executing, now>>
<1>1. /\ tx[s].stage = "written" /\ tx' = [tx EXCEPT ![s] = Idle]
      /\ UNCHANGED <<executing, now>>
  BY DEF CommitAny, Commit, InsertRemediation, UpdateRemediation, InsertRetest,
         InsertAcceptance, UpdateAcceptance, UpdateFinding
<1> QED BY <1>1 DEF Typed, TypeOK, Target

\* A committed row is of the kind its table holds.
LEMMA CommitTyped ==
  ASSUME Typed, NEW s \in Sessions, CommitAny(s)
  PROVE  Typed'
<1> DEFINE r == tx[s]
<1> USE DEF Typed, TypeOK, remedies, risks
<1>1. /\ r.by \in Users /\ r.until \in Times /\ r.result \in Results
      /\ Target(r) /\ UNCHANGED <<executing, now>>
      /\ tx' \in [Sessions -> Transaction]
      /\ \A t \in Sessions: Target(tx'[t])
  BY CommitEnds, IdleTyped DEF Transaction
<1>2. CASE InsertRemediation(s)
  BY <1>1, <1>2 DEF InsertRemediation, Commit, Target
<1>3. CASE UpdateRemediation(s)
  BY <1>1, <1>3 DEF UpdateRemediation, Commit, Target
<1>4. CASE InsertRetest(s)
  <2>1. r.on \in Remediations /\ <<r.by, r.result>> \in Users \X Results
    BY <1>1, <1>4 DEF InsertRetest, Commit, Target
  <2>2. retests' \in [Remediations -> SUBSET (Users \X Results)]
    BY <1>4, <2>1 DEF InsertRetest
  <2> QED BY <1>1, <1>4, <2>2 DEF InsertRetest
<1>5. CASE InsertAcceptance(s)
  BY <1>1, <1>5 DEF InsertAcceptance, Commit, Target
<1>6. CASE UpdateAcceptance(s)
  BY <1>1, <1>6 DEF UpdateAcceptance, Commit, Target
<1>7. CASE UpdateFinding(s)
  <2>1. r.on \in Findings
    BY <1>1, <1>7 DEF UpdateFinding, Commit, Target
  <2> QED BY <1>1, <1>7, <2>1 DEF UpdateFinding
<1> QED BY <1>2, <1>3, <1>4, <1>5, <1>6, <1>7 DEF CommitAny

LEMMA TypeStep == Typed /\ [Next]_vars => Typed'
<1> SUFFICES ASSUME Typed, [Next]_vars PROVE Typed'
  OBVIOUS
<1> USE DEF Typed, TypeOK, remedies, risks, rows
<1>1. CASE UNCHANGED vars
  BY <1>1 DEF vars
<1>2. CASE EndReview
  BY <1>2 DEF EndReview
<1>3. CASE Tick
  BY <1>3, BoundAssumption DEF Tick, Times
<1>4. ASSUME NEW s \in Sessions,
             Request(s) \/ Execute(s) \/ CommitAny(s) \/ Fail(s)
      PROVE  Typed'
  <2>1. CASE Request(s)
    <3>1. PICK r \in Transaction: Begins(s, r)
      BY <2>1, RequestBegins
    <3> QED BY <3>1 DEF Begins
  <2>2. CASE Execute(s)
    BY <2>2 DEF Execute, Transaction, Target
  <2>3. CASE CommitAny(s)
    BY <2>3, CommitTyped
  <2>4. CASE Fail(s)
    BY <2>4, IdleTyped DEF Fail
  <2> QED BY <1>4, <2>1, <2>2, <2>3, <2>4
<1> QED BY <1>1, <1>2, <1>3, <1>4 DEF Next

LEMMA TypeInit == Init => Typed
<1> SUFFICES ASSUME Init PROVE Typed
  OBVIOUS
<1>1. retests \in [Remediations -> SUBSET (Users \X Results)]
  <2>1. {} \in SUBSET (Users \X Results)
    OBVIOUS
  <2> QED BY <2>1 DEF Init
<1> QED BY <1>1, IdleTyped, ZeroIsATime DEF Init, Typed, TypeOK

\* Type correctness: every column stays in its domain whatever is requested.
THEOREM TypeCorrect == Spec => []TypeOK
<1>1. Typed => TypeOK
  BY DEF Typed
<1> QED BY <1>1, TypeInit, TypeStep, PTL DEF Spec

-----------------------------------------------------------------------------
(* Commits.                                                                *)

\* What is final once it is written.
Final ==
  /\ \A r \in Remediations:
       /\ completedBy[r] # None => completedBy'[r] = completedBy[r]
       /\ remediation[r] = "COMPLETED" => remediation'[r] = "COMPLETED"
       /\ retests[r] \subseteq retests'[r]
  /\ \A k \in Acceptances: approvedBy[k] # None =>
       /\ approval'[k] = "APPROVED"
       /\ approvedBy'[k] = approvedBy[k] /\ acceptedBy'[k] = acceptedBy[k]
       /\ until'[k] = until[k]
  /\ closed \subseteq closed'

\* The row of the transaction that commits.
LEMMA Committed ==
  ASSUME IInv, NEW s \in Sessions, CommitAny(s)
  PROVE  /\ tx[s] \in Transaction /\ Target(tx[s])
         /\ Found(tx[s]) /\ Passed(tx[s])
         /\ tx[s].stage = "written" /\ tx[s].by \in Users /\ tx[s].by # None
         /\ \A t \in Sessions: tx'[t] = IF t = s THEN Idle ELSE tx[t]
         /\ UNCHANGED <<executing, now>>
BY CommitEnds, NoneAssumption DEF IInv, Pending, Typed, TypeOK

LEMMA CommitFinal ==
  ASSUME IInv, NEW s \in Sessions, CommitAny(s)
  PROVE  Final
<1> DEFINE r == tx[s]
<1> USE Committed DEF IInv, Typed, TypeOK, Final, remedies, risks
<1>1. CASE InsertRemediation(s)
  <2>1. r.on \in Remediations /\ remediation[r.on] = "none"
    BY <1>1 DEF InsertRemediation, Commit, Target, Found
  <2> QED BY <1>1, <2>1 DEF InsertRemediation, RowsAgree
<1>2. CASE UpdateRemediation(s)
  BY <1>2 DEF UpdateRemediation, Commit, Target, Passed, RowsAgree
<1>3. CASE InsertRetest(s)
  <2>1. r.on \in Remediations
    BY <1>3 DEF InsertRetest, Commit, Target
  <2> QED BY <1>3, <2>1 DEF InsertRetest, RowsAgree
<1>4. CASE InsertAcceptance(s)
  BY <1>4 DEF InsertAcceptance, Commit, Target, Found, RowsAgree
<1>5. CASE UpdateAcceptance(s)
  BY <1>5 DEF UpdateAcceptance, Commit, Target, Passed, RowsAgree
<1>6. CASE UpdateFinding(s)
  BY <1>6 DEF UpdateFinding, RowsAgree
<1> QED BY <1>1, <1>2, <1>3, <1>4, <1>5, <1>6 DEF CommitAny

\* What is final keeps remedies in force, and retesters independent.
LEMMA FinalKeeps ==
  ASSUME IInv, Final
  PROVE  /\ \A f \in Findings: Verified(f) => Verified(f)'
         /\ \A f \in Findings: Controlled(f) => Controlled(f)'
         /\ \A f \in Findings, t \in Times: Accepted(f, t) => Accepted(f, t)'
         /\ \A u \in Users, r \in Remediations: MayRetest(u, r) => MayRetest(u, r)'
<1>1. \A u \in Users, r \in Remediations: MayRetest(u, r) => MayRetest(u, r)'
  BY DEF Final, MayRetest, IInv, RowsAgree
<1>2. ASSUME NEW f \in Findings, Verified(f)
      PROVE  Verified(f)'
  BY <1>2 DEF Verified, Final, IInv, RowsAgree
<1>3. ASSUME NEW f \in Findings, Controlled(f)
      PROVE  Controlled(f)'
  BY <1>3 DEF Controlled, Final
<1>4. ASSUME NEW f \in Findings, NEW t \in Times, Accepted(f, t)
      PROVE  Accepted(f, t)'
  BY <1>4 DEF Accepted, Final, IInv, RowsAgree
<1> QED BY <1>1, <1>2, <1>3, <1>4

\* Whoever an acceptance was approved by did not propose it.
LEMMA AcceptedControlled ==
  ASSUME RowsAgree, NEW f \in Findings, NEW t \in Times, Accepted(f, t)
  PROVE  Controlled(f)
BY DEF RowsAgree, Accepted, Controlled

LEMMA CommitAgrees ==
  ASSUME IInv, NEW s \in Sessions, CommitAny(s)
  PROVE  RowsAgree' /\ RetestsIndependent'
<1> DEFINE r == tx[s]
<1> USE Committed
    DEF IInv, Typed, TypeOK, RowsAgree, RetestsIndependent, remedies, risks
<1>1. CASE InsertRemediation(s)
  BY <1>1 DEF InsertRemediation, Commit, Target, Found
<1>2. CASE UpdateRemediation(s)
  BY <1>2 DEF UpdateRemediation, Commit, Target, Passed
<1>3. CASE InsertRetest(s)
  <2>1. r.on \in Remediations /\ MayRetest(r.by, r.on)
    BY <1>3 DEF InsertRetest, Commit, Target, Found
  <2> QED BY <1>3, <2>1 DEF InsertRetest, MayRetest
<1>4. CASE InsertAcceptance(s)
  BY <1>4 DEF InsertAcceptance, Commit, Target, Found
<1>5. CASE UpdateAcceptance(s)
  BY <1>5 DEF UpdateAcceptance, Commit, Target, Passed
<1>6. CASE UpdateFinding(s)
  BY <1>6 DEF UpdateFinding
<1> QED BY <1>1, <1>2, <1>3, <1>4, <1>5, <1>6 DEF CommitAny

\* A finding closes on what its trigger found, and that is still there.
LEMMA CommitCloses ==
  ASSUME IInv, NEW s \in Sessions, CommitAny(s)
  PROVE  ClosedOnRemedy'
<1>1. Final
  BY CommitFinal
<1>2. closed' = closed \/ UpdateFinding(s)
  BY DEF CommitAny, InsertRemediation, UpdateRemediation, InsertRetest,
         InsertAcceptance, UpdateAcceptance
<1>3. \A f \in closed': f \in Findings /\ (Verified(f) \/ Controlled(f))
  <2>1. \A f \in closed: f \in Findings /\ (Verified(f) \/ Controlled(f))
    BY DEF IInv, Typed, TypeOK, ClosedOnRemedy
  <2>2. CASE UpdateFinding(s)
    <3>1. tx[s].on \in Findings
          /\ (tx[s].on \in closed \/ Verified(tx[s].on) \/ Controlled(tx[s].on))
      BY <2>2, Committed, AcceptedControlled
         DEF UpdateFinding, Commit, Target, Passed, ClosureReady, Transaction,
             IInv
    <3> QED BY <2>1, <2>2, <3>1 DEF UpdateFinding
  <2> QED BY <1>2, <2>1, <2>2
<1> QED BY <1>1, <1>3, FinalKeeps DEF ClosedOnRemedy

\* A commit leaves standing what the other transactions found and passed.
LEMMA CommitLeaves ==
  ASSUME IInv, NEW s \in Sessions, CommitAny(s)
  PROVE  Pending' /\ SingleWriters'
<1> DEFINE r == tx[s]
<1> USE Committed
<1>1. Found(Idle)' /\ Idle.stage = "idle" /\ Idle.op = "closeFinding"
  BY DEF Found, Idle
<1>2. SingleWriters'
  BY <1>1 DEF IInv, SingleWriters, Inserts, Holds
<1>3. ASSUME NEW t \in Sessions \ {s}
      PROVE  Found(tx[t])' /\ ((tx[t].stage = "written")' => Passed(tx[t])')
  <2> DEFINE q == tx[t]
  <2>1. /\ tx'[t] = q /\ q \in Transaction /\ Target(q) /\ Found(q)
        /\ q.stage = "written" => Passed(q)
        /\ Inserts(s) /\ Inserts(t) /\ r.op = q.op => q.on # r.on
        /\ Holds(s) /\ Holds(t) /\ r.op = q.op => q.on # r.on
    BY <1>3 DEF IInv, Typed, TypeOK, Pending, SingleWriters
  <2>2. Final
    BY CommitFinal
  <2>3. q.op = "createRemediation" => remediation'[q.on] = "none"
    <3>1. CASE InsertRemediation(s) \/ UpdateRemediation(s)
      BY <2>1, <3>1
         DEF InsertRemediation, UpdateRemediation, Commit, Found, Passed,
             Target, Inserts, IInv, Typed, TypeOK
    <3>2. CASE ~InsertRemediation(s) /\ ~UpdateRemediation(s)
      <4>1. remediation' = remediation
        BY <3>2 DEF CommitAny, InsertRetest, InsertAcceptance,
                    UpdateAcceptance, UpdateFinding, remedies
      <4> QED BY <2>1, <4>1 DEF Found
    <3> QED BY <3>1, <3>2
  <2>4. q.op = "completeRemediation" /\ q.stage = "written" =>
          remediation'[q.on] = "OPEN"
    <3>1. CASE InsertRemediation(s) \/ UpdateRemediation(s)
      BY <2>1, <3>1
         DEF InsertRemediation, UpdateRemediation, Commit, Found, Passed,
             Target, Holds, IInv, Typed, TypeOK
    <3>2. CASE ~InsertRemediation(s) /\ ~UpdateRemediation(s)
      <4>1. remediation' = remediation
        BY <3>2 DEF CommitAny, InsertRetest, InsertAcceptance,
                    UpdateAcceptance, UpdateFinding, remedies
      <4> QED BY <2>1, <4>1 DEF Passed
    <3> QED BY <3>1, <3>2
  <2>5. /\ q.op = "createRiskAcceptance" => approval'[q.on] = "none"
        /\ q.op = "approveRiskAcceptance" /\ q.stage = "written" =>
             approval'[q.on] = "PENDING" /\ acceptedBy'[q.on] # q.by
    <3>1. CASE InsertAcceptance(s) \/ UpdateAcceptance(s)
      BY <2>1, <3>1
         DEF InsertAcceptance, UpdateAcceptance, Commit, Found, Passed,
             Target, Inserts, Holds, IInv, Typed, TypeOK
    <3>2. CASE ~InsertAcceptance(s) /\ ~UpdateAcceptance(s)
      <4>1. approval' = approval /\ acceptedBy' = acceptedBy
        BY <3>2 DEF CommitAny, InsertRemediation, UpdateRemediation,
                    InsertRetest, UpdateFinding, risks
      <4> QED BY <2>1, <4>1 DEF Found, Passed
    <3> QED BY <3>1, <3>2
  <2>6. q.op = "recordRetest" => MayRetest(q.by, q.on)'
    <3>1. q.op = "recordRetest" => q.by \in Users /\ q.on \in Remediations
      BY <2>1 DEF Target
    <3> QED BY <2>1, <2>2, <3>1, FinalKeeps DEF Found, MayRetest
  <2>7. q.op = "closeFinding" /\ q.stage = "written" =>
          q.on \in closed' \/ ClosureReady(q.on, q.at)'
    <3>1. ASSUME NEW f \in Findings, NEW at \in Times,
                 q.op = "closeFinding", q.stage = "written", f = q.on, at = q.at
          PROVE  f \in closed' \/ ClosureReady(f, at)'
      <4>1. f \in closed \/ ClosureReady(f, at)
        BY <2>1, <3>1 DEF Passed
      <4> QED BY <2>2, <4>1, FinalKeeps DEF Final, ClosureReady
    <3> QED BY <2>1, <3>1 DEF Target, Transaction
  <2> QED BY <2>1, <2>3, <2>4, <2>5, <2>6, <2>7 DEF Found, Passed
<1>4. Found(tx[s])' /\ (tx[s].stage = "written")' = FALSE
  BY <1>1
<1> QED BY <1>2, <1>3, <1>4 DEF Pending

-----------------------------------------------------------------------------
(* Requests, statements and rollbacks, which change no row.                *)

\* What a transaction found is still there when no row has changed.
LEMMA RowsStay ==
  ASSUME IInv, UNCHANGED <<closed, remedies, risks>>
  PROVE  /\ RowsAgree' /\ RetestsIndependent' /\ ClosedOnRemedy'
         /\ \A r \in Transaction: /\ Found(r) => Found(r)'
                                  /\ Passed(r) => Passed(r)'
BY DEF IInv, RowsAgree, RetestsIndependent, ClosedOnRemedy, Found, Passed,
       MayRetest, ClosureReady, Verified, Accepted, Controlled, remedies, risks

LEMMA PendingStays ==
  ASSUME IInv, UNCHANGED <<closed, remedies, risks>>,
         \A t \in Sessions: \E r \in Transaction:
           tx'[t] = r /\ Found(r) /\ (r.stage = "written" => Passed(r))
  PROVE  Pending'
<1>1. ASSUME NEW t \in Sessions
      PROVE  Found(tx[t])' /\ ((tx[t].stage = "written")' => Passed(tx[t])')
  <2>1. PICK r \in Transaction:
          tx'[t] = r /\ Found(r) /\ (r.stage = "written" => Passed(r))
    OBVIOUS
  <2>2. Found(r)' /\ (r.stage = "written" => Passed(r)')
    BY <2>1, RowsStay
  <2> QED BY <2>1, <2>2
<1> QED BY <1>1 DEF Pending

LEMMA RequestKeeps ==
  ASSUME IInv, NEW s \in Sessions, Request(s)
  PROVE  Pending' /\ SingleWriters' /\ UNCHANGED rows
<1>1. PICK r \in Transaction: Begins(s, r)
  BY RequestBegins DEF IInv
<1>2. \A t \in Sessions: tx'[t] = IF t = s THEN r ELSE tx[t]
  BY <1>1 DEF Begins, IInv, Typed, TypeOK
<1>3. SingleWriters'
  BY <1>1, <1>2 DEF Begins, IInv, SingleWriters, Inserts, Holds
<1>4. ASSUME NEW t \in Sessions
      PROVE  \E q \in Transaction:
               tx'[t] = q /\ Found(q) /\ (q.stage = "written" => Passed(q))
  BY <1>1, <1>2 DEF Begins, IInv, Pending, Typed, TypeOK
<1> QED BY <1>1, <1>3, <1>4, PendingStays DEF Begins, rows

LEMMA ExecuteKeeps ==
  ASSUME IInv, NEW s \in Sessions, Execute(s)
  PROVE  Pending' /\ SingleWriters' /\ UNCHANGED rows
<1> DEFINE r == tx[s]
<1>1. /\ r \in Transaction /\ Target(r) /\ Found(r) /\ r.stage = "checked"
      /\ ~Blocked(s) /\ Passes(r) /\ UNCHANGED rows
      /\ tx' = [tx EXCEPT ![s].stage = "written"]
  BY DEF Execute, IInv, Typed, TypeOK, Pending, rows
<1>2. /\ tx'[s].op = r.op /\ tx'[s].on = r.on /\ tx'[s].by = r.by
      /\ tx'[s].at = r.at
      /\ tx'[s] \in Transaction /\ \A t \in Sessions \ {s}: tx'[t] = tx[t]
  BY <1>1 DEF IInv, Typed, TypeOK, Transaction
<1>3. Passed(r)
  BY <1>1 DEF Passes, Passed
<1>4. SingleWriters'
  BY <1>1, <1>2
     DEF IInv, SingleWriters, Inserts, Holds, Blocked, UpdatesRow
<1>5. ASSUME NEW t \in Sessions
      PROVE  \E q \in Transaction:
               tx'[t] = q /\ Found(q) /\ (q.stage = "written" => Passed(q))
  <2>1. CASE t = s
    <3>1. Found(tx'[s]) /\ Passed(tx'[s])
      BY <1>1, <1>2, <1>3 DEF Found, Passed
    <3> QED BY <1>2, <2>1, <3>1
  <2>2. CASE t # s
    BY <1>2, <2>2 DEF IInv, Pending, Typed, TypeOK
  <2> QED BY <2>1, <2>2
<1> QED BY <1>1, <1>4, <1>5, PendingStays DEF rows

LEMMA FailKeeps ==
  ASSUME IInv, NEW s \in Sessions, Fail(s)
  PROVE  Pending' /\ SingleWriters' /\ UNCHANGED rows
<1>1. UNCHANGED rows /\ \A t \in Sessions: tx'[t] = IF t = s THEN Idle ELSE tx[t]
  BY DEF Fail, IInv, Typed, TypeOK, rows
<1>2. SingleWriters'
  BY <1>1 DEF IInv, SingleWriters, Inserts, Holds, Idle
<1>3. ASSUME NEW t \in Sessions
      PROVE  \E q \in Transaction:
               tx'[t] = q /\ Found(q) /\ (q.stage = "written" => Passed(q))
  <2>1. Idle \in Transaction /\ Found(Idle) /\ Idle.stage = "idle"
    BY IdleTyped DEF Idle
  <2> QED BY <1>1, <2>1 DEF IInv, Pending, Typed, TypeOK
<1> QED BY <1>1, <1>2, <1>3, PendingStays DEF rows

-----------------------------------------------------------------------------
(* The invariant and what follows from it.                                 *)

LEMMA Initial == Init => IInv
<1> SUFFICES ASSUME Init PROVE IInv
  OBVIOUS
<1>1. RowsAgree /\ RetestsIndependent /\ ClosedOnRemedy
  BY DEF Init, RowsAgree, RetestsIndependent, ClosedOnRemedy
<1>2. Pending /\ SingleWriters
  BY IdleTyped DEF Init, Pending, SingleWriters, Inserts, Holds, Idle
<1> QED BY <1>1, <1>2, TypeInit DEF IInv

LEMMA Inductive == IInv /\ [Next]_vars => IInv'
<1> SUFFICES ASSUME IInv, [Next]_vars PROVE IInv'
  OBVIOUS
<1>1. Typed'
  BY TypeStep DEF IInv
<1>2. CASE UNCHANGED vars \/ EndReview \/ Tick
  <2>1. UNCHANGED <<closed, remedies, risks>> /\ UNCHANGED tx
    BY <1>2 DEF vars, EndReview, Tick
  <2>2. Pending'
    <3>1. \A t \in Sessions: \E r \in Transaction:
            tx'[t] = r /\ Found(r) /\ (r.stage = "written" => Passed(r))
      BY <2>1 DEF IInv, Typed, TypeOK, Pending
    <3> QED BY <2>1, <3>1, PendingStays
  <2>3. SingleWriters'
    BY <2>1 DEF IInv, SingleWriters, Inserts, Holds
  <2> QED BY <1>1, <2>1, <2>2, <2>3, RowsStay DEF IInv
<1>3. ASSUME NEW s \in Sessions,
             Request(s) \/ Execute(s) \/ CommitAny(s) \/ Fail(s)
      PROVE  IInv'
  <2>1. CASE CommitAny(s)
    BY <1>1, <2>1, CommitAgrees, CommitCloses, CommitLeaves DEF IInv
  <2>2. CASE Request(s) \/ Execute(s) \/ Fail(s)
    BY <1>1, <2>2, RequestKeeps, ExecuteKeeps, FailKeeps, RowsStay
       DEF IInv, rows
  <2> QED BY <1>3, <2>1, <2>2
<1> QED BY <1>2, <1>3 DEF Next

THEOREM Invariance == Spec => []IInv
BY Initial, Inductive, PTL DEF Spec

\* Every CLOSED finding rests on an independently passed remediation or on an
\* acceptance approved by a second user, although closing locks neither.
THEOREM ClosuresRest == Spec => []ClosedOnRemedy
<1>1. IInv => ClosedOnRemedy
  BY DEF IInv
<1> QED BY <1>1, Invariance, PTL

\* No retest on record is by the completer of its remediation, however the
\* completion and the retest overlap.
THEOREM RetestersIndependent == Spec => []RetestsIndependent
<1>1. IInv => RetestsIndependent
  BY DEF IInv
<1> QED BY <1>1, Invariance, PTL

\* The completer and the approver of record are never replaced: the row lock
\* makes the second of two overlapping requests see the decision of the first.
THEOREM DecisionsFinal == Spec => DecidedOnce
<1> DEFINE Once ==
      /\ \A r \in Remediations:
           completedBy[r] # None => completedBy'[r] = completedBy[r]
      /\ \A k \in Acceptances:
           approvedBy[k] # None => approvedBy'[k] = approvedBy[k]
<1>1. IInv /\ [Next]_vars => [Once]_vars
  <2> SUFFICES ASSUME IInv, Next PROVE Once
    BY DEF vars
  <2>1. CASE \E s \in Sessions: CommitAny(s)
    BY <2>1, CommitFinal DEF Final
  <2>2. CASE ~\E s \in Sessions: CommitAny(s)
    <3>1. UNCHANGED <<remedies, risks>>
      BY <2>2, RequestKeeps, ExecuteKeeps, FailKeeps
         DEF Next, EndReview, Tick, rows
    <3> QED BY <3>1 DEF remedies, risks
  <2> QED BY <2>1, <2>2
<1> QED BY <1>1, Invariance, PTL DEF Spec, DecidedOnce

\* A finding closes only on a passed remediation or on an acceptance that was
\* current when the request began: its approval and its term never change.
THEOREM ClosesInTerm == Spec => ClosedInTerm
<1> DEFINE InTerm ==
      \A s \in Sessions, f \in Findings:
        f \notin closed /\ f \in closed' /\ tx'[s] # tx[s] =>
          \/ Verified(f)
          \/ \E k \in Acceptances:
               /\ FindingOf[k] = f /\ approval[k] = "APPROVED"
               /\ tx[s].at <= until[k]
<1>1. IInv /\ [Next]_vars => [InTerm]_vars
  <2> SUFFICES ASSUME IInv, Next,
                      NEW s \in Sessions, NEW f \in Findings,
                      f \notin closed, f \in closed', tx'[s] # tx[s]
               PROVE  Verified(f) \/ Accepted(f, tx[s].at)
    BY DEF Accepted
  <2>1. PICK t \in Sessions: UpdateFinding(t)
    <3>1. closed' # closed
      OBVIOUS
    <3>2. PICK t \in Sessions: CommitAny(t)
      BY <3>1, RequestKeeps, ExecuteKeeps, FailKeeps
         DEF Next, EndReview, Tick, rows
    <3> QED BY <3>1, <3>2
            DEF CommitAny, InsertRemediation, UpdateRemediation, InsertRetest,
                InsertAcceptance, UpdateAcceptance
  <2>2. CommitAny(t) /\ t = s /\ f = tx[s].on /\ tx[s].op = "closeFinding"
    <3>1. CommitAny(t)
      BY <2>1 DEF CommitAny
    <3>2. t = s
      BY <3>1, Committed DEF IInv, Typed, TypeOK
    <3> QED BY <2>1, <3>1, <3>2 DEF UpdateFinding, Commit
  <2> QED BY <2>2, Committed DEF Passed, ClosureReady
<1> QED BY <1>1, Invariance, PTL DEF Spec, ClosedInTerm

-----------------------------------------------------------------------------
(* FindingClosure implements FourEyes.                                     *)

\* The acceptances proposed are those that have a proposer on record.
Recorded ==
  \A k \in Acceptances: approval[k] # "none" <=> acceptedBy[k] # None

LEMMA DecisionsMove ==
  ASSUME IInv, Recorded, [Next]_vars
  PROVE  Recorded' /\ [Decisions!Next]_Decisions!vars
<1> USE DEF Decisions!vars
<1>1. ASSUME UNCHANGED <<approval, acceptedBy, approvedBy>>
      PROVE  Recorded' /\ [Decisions!Next]_Decisions!vars
  BY <1>1 DEF Recorded
<1>2. CASE UNCHANGED vars \/ EndReview \/ Tick
  BY <1>1, <1>2 DEF vars, EndReview, Tick, risks
<1>3. ASSUME NEW s \in Sessions,
             Request(s) \/ Execute(s) \/ CommitAny(s) \/ Fail(s)
      PROVE  Recorded' /\ [Decisions!Next]_Decisions!vars
  <2> DEFINE r == tx[s]
  <2>1. CASE ~CommitAny(s)
    BY <1>1, <1>3, <2>1, RequestKeeps, ExecuteKeeps, FailKeeps DEF rows, risks
  <2>2. CASE CommitAny(s) /\ ~InsertAcceptance(s) /\ ~UpdateAcceptance(s)
    BY <1>1, <2>2
       DEF CommitAny, InsertRemediation, UpdateRemediation, InsertRetest,
           UpdateFinding, risks
  <2>3. CASE InsertAcceptance(s)
    <3>1. /\ r.on \in Acceptances /\ approval[r.on] = "none"
          /\ r.by \in Users /\ r.by # None
      BY <2>3, Committed
         DEF CommitAny, InsertAcceptance, Commit, Target, Found
    <3>2. /\ approval' = [approval EXCEPT ![r.on] = "PENDING"]
          /\ acceptedBy' = [acceptedBy EXCEPT ![r.on] = r.by]
          /\ UNCHANGED approvedBy
          /\ acceptedBy \in [Acceptances -> Users \cup {None}]
          /\ approval \in [Acceptances -> {"none", "PENDING", "APPROVED"}]
      BY <2>3 DEF InsertAcceptance, IInv, Typed, TypeOK
    <3>3. Decisions!Make(r.on, r.by)
      BY <3>1, <3>2 DEF Recorded, Decisions!Make
    <3> QED BY <3>1, <3>2, <3>3 DEF Recorded, Decisions!Next
  <2>4. CASE UpdateAcceptance(s)
    <3>1. /\ r.on \in Acceptances /\ r.by \in Users
          /\ approval[r.on] = "PENDING" /\ acceptedBy[r.on] # r.by
      BY <2>4, Committed
         DEF CommitAny, UpdateAcceptance, Commit, Target, Passed
    <3>2. /\ approval' = [approval EXCEPT ![r.on] = "APPROVED"]
          /\ approvedBy' = [approvedBy EXCEPT ![r.on] = r.by]
          /\ UNCHANGED acceptedBy
          /\ approval \in [Acceptances -> {"none", "PENDING", "APPROVED"}]
      BY <2>4 DEF UpdateAcceptance, IInv, Typed, TypeOK
    <3>3. Decisions!Approve(r.on, r.by)
      BY <3>1, <3>2 DEF Recorded, Decisions!Approve
    <3> QED BY <3>1, <3>2, <3>3 DEF Recorded, Decisions!Next
  <2> QED BY <1>3, <2>1, <2>2, <2>3, <2>4
<1> QED BY <1>2, <1>3 DEF Next

\* Every risk acceptance has one proposer and only somebody else is ever on
\* record as its approver, however proposals and approvals overlap.
THEOREM AcceptancesKeptApart == Spec => AcceptancesByFourEyes
<1>1. Init => Recorded /\ Decisions!Init
  BY DEF Init, Recorded, Decisions!Init
<1>2. IInv /\ Recorded /\ [Next]_vars =>
        Recorded' /\ [Decisions!Next]_Decisions!vars
  BY DecisionsMove
<1> QED
  BY <1>1, <1>2, Invariance, PTL
     DEF Spec, AcceptancesByFourEyes, Decisions!Spec

=============================================================================
