-------------------------- MODULE GovernanceProofs --------------------------
(***************************************************************************)
(* Proofs about Governance, for any team, checks, frameworks, plan         *)
(* versions, sessions and any bound on the clock.                          *)
(*                                                                         *)
(* Everything a gate of TESTING asked for can only be undone by a request  *)
(* that inserts a row about a member or a requirement.  Such a request was *)
(* open when the gate passed, so its items are in late.                    *)
(***************************************************************************)
EXTENDS Governance, TLAPS

\* What a transaction is about.
Target(r) ==
  /\ r.stage # "idle" => r.by \in Users
  /\ r.stage = "idle" => r.op = "startEngagementTesting"
  /\ r.op = "assignEngagementUser" => r.on \in Users
  /\ r.op = "recordIndependenceCheck" =>
       r.on \in Checks /\ r.row.subject \in Users
  /\ r.op = "resolveIndependenceConflict" => r.on \in Checks
  /\ r.op \in {"createAuditPlan", "approveAuditPlan"} => r.on \in Versions
  /\ r.op = "selectEngagementFramework" => r.on \in Frameworks
  /\ r.op = "decideRequirementApplicability" => r.on \in Requirements

Typed == TypeOK /\ \A s \in Sessions: Target(tx[s])

\* A plan is approved by somebody else than its creator, and the requirements
\* that have a row are those of the selected frameworks.
RowsAgree ==
  /\ \A v \in Versions: plan[v].status = "APPROVED" =>
       plan[v].approvedBy \notin {None, plan[v].createdBy}
  /\ \A q \in Requirements: decision[q] # "none" => FrameworkOf[q] \in selected

\* The plan versions are numbered without a gap.
Numbered ==
  \A v \in Versions: plan[v].status # "none" =>
    \A w \in 1..v: plan[w].status # "none"

\* What a transaction found, as far as it stays true.
Found(r) ==
  /\ r.op = "recordIndependenceCheck" => check[r.on] = NoCheck
  /\ r.op = "resolveIndependenceConflict" => check[r.on].result = "CONFLICT"
  /\ r.op = "createAuditPlan" =>
       \A w \in 1..(r.on - 1): plan[w].status # "none"
  /\ r.op = "approveAuditPlan" =>
       plan[r.on].status # "none" /\ plan[r.on].createdBy # r.by

\* What its statement found.
Passed(r) ==
  /\ r.op = "createAuditPlan" => plan[r.on].status = "none"
  /\ r.op = "selectEngagementFramework" => r.on \notin selected
  /\ r.op = "decideRequirementApplicability" => decision[r.on] # "none"

Pending ==
  \A s \in Sessions:
    Found(tx[s]) /\ (tx[s].stage = "written" => Passed(tx[s]))

\* The transaction that inserts a row: by its id, or by its unique key once
\* the statement has not waited.
Inserts(s) == tx[s].op = "recordIndependenceCheck"
Keyed(s) ==
  /\ tx[s].op \in {"createAuditPlan", "selectEngagementFramework"}
  /\ tx[s].stage = "written"

SingleWriters ==
  \A s, t \in Sessions:
    /\ tx[s].op = tx[t].op /\ tx[s].on = tx[t].on
    /\ \/ Inserts(s) /\ Inserts(t)
       \/ Keyed(s) /\ Keyed(t)
    => s = t

\* UnreadyOnlyLate, from the moment the gate has passed.
Prepared ==
  /\ Unready \subseteq late
  /\ assigned # {} /\ assessed /\ selected # {} /\ scoped
  /\ \E v \in Versions: plan[v].status = "APPROVED"

StartPrepared == Starting => Prepared

IInv == Typed /\ RowsAgree /\ Numbered /\ Pending /\ SingleWriters
        /\ StartPrepared

rows == <<status, planning, late>>

-----------------------------------------------------------------------------
(* Types.                                                                  *)

\* A request puts a checked transaction into an idle session.
Begins(s, r) ==
  /\ r.stage = "checked" /\ Target(r) /\ Found(r)
  /\ r.op = "recordIndependenceCheck" =>
       \A t \in Sessions: ~(tx[t].op = r.op /\ tx[t].on = r.on)
  /\ tx' = [tx EXCEPT ![s] = r]
  /\ tx[s].stage = "idle"
  /\ UNCHANGED rows /\ UNCHANGED now

LEMMA ZeroIsATime == 0 \in Times
BY BoundAssumption DEF Times

LEMMA NoCheckTyped == NoCheck \in Check
BY ZeroIsATime DEF NoCheck, Check, Verdicts

LEMMA RequestBegins ==
  ASSUME Typed, NEW s \in Sessions, Request(s)
  PROVE  \E r \in Transaction: Begins(s, r)
<1> USE ZeroIsATime, NoCheckTyped
    DEF Typed, TypeOK, Begin, Begins, Transaction, Operations, PermissionFor,
        Targets, Target, Found, rows
<1> DEFINE R(op, u, x, row) ==
      [stage |-> "checked", op |-> op, by |-> u, on |-> x, row |-> row]
<1>1. PICK u \in Users:
        \/ \E member \in Users:
             \/ AssignEngagementUser(s, u, member)
             \/ \E c \in Checks, verdict \in Verdicts:
                  RecordIndependenceCheck(s, u, c, member, verdict)
        \/ \E c \in Checks: ResolveIndependenceConflict(s, u, c)
        \/ \E v \in Versions:
             CreateAuditPlan(s, u, v) \/ ApproveAuditPlan(s, u, v)
        \/ \E f \in Frameworks: SelectEngagementFramework(s, u, f)
        \/ \E q \in Requirements: DecideRequirementApplicability(s, u, q)
        \/ RecordRiskAssessment(s, u)
        \/ DefineEngagementScope(s, u)
        \/ StartEngagementTesting(s, u)
  BY DEF Request
<1>2. ASSUME NEW member \in Users, AssignEngagementUser(s, u, member)
      PROVE  \E q \in Transaction: Begins(s, q)
  <2> WITNESS R("assignEngagementUser", u, member, NoCheck) \in Transaction
  <2> QED BY <1>2 DEF AssignEngagementUser
<1>3. ASSUME NEW member \in Users, NEW c \in Checks, NEW verdict \in Verdicts,
             RecordIndependenceCheck(s, u, c, member, verdict)
      PROVE  \E q \in Transaction: Begins(s, q)
  <2> DEFINE row == [subject |-> member, result |-> verdict, at |-> now,
                     resolvedBy |-> None]
  <2>1. row \in Check /\ row.subject = member
    BY DEF Check, Verdicts
  <2> HIDE DEF row
  <2> USE <2>1
  <2> WITNESS R("recordIndependenceCheck", u, c, row) \in Transaction
  <2> QED BY <1>3, <2>1 DEF RecordIndependenceCheck, row
<1>4. ASSUME NEW c \in Checks, ResolveIndependenceConflict(s, u, c)
      PROVE  \E q \in Transaction: Begins(s, q)
  <2> WITNESS R("resolveIndependenceConflict", u, c, NoCheck) \in Transaction
  <2> QED BY <1>4 DEF ResolveIndependenceConflict
<1>5. ASSUME NEW v \in Versions, CreateAuditPlan(s, u, v)
      PROVE  \E q \in Transaction: Begins(s, q)
  <2> WITNESS R("createAuditPlan", u, v, NoCheck) \in Transaction
  <2> QED BY <1>5 DEF CreateAuditPlan
<1>6. ASSUME NEW v \in Versions, ApproveAuditPlan(s, u, v)
      PROVE  \E q \in Transaction: Begins(s, q)
  <2> WITNESS R("approveAuditPlan", u, v, NoCheck) \in Transaction
  <2> QED BY <1>6 DEF ApproveAuditPlan
<1>7. ASSUME NEW f \in Frameworks, SelectEngagementFramework(s, u, f)
      PROVE  \E q \in Transaction: Begins(s, q)
  <2> WITNESS R("selectEngagementFramework", u, f, NoCheck) \in Transaction
  <2> QED BY <1>7 DEF SelectEngagementFramework
<1>8. ASSUME NEW q \in Requirements, DecideRequirementApplicability(s, u, q)
      PROVE  \E r \in Transaction: Begins(s, r)
  <2> WITNESS R("decideRequirementApplicability", u, q, NoCheck) \in Transaction
  <2> QED BY <1>8 DEF DecideRequirementApplicability
<1>9. ASSUME RecordRiskAssessment(s, u)
      PROVE  \E q \in Transaction: Begins(s, q)
  <2> WITNESS R("recordRiskAssessment", u, None, NoCheck) \in Transaction
  <2> QED BY <1>9 DEF RecordRiskAssessment
<1>10. ASSUME DefineEngagementScope(s, u)
       PROVE  \E q \in Transaction: Begins(s, q)
  <2> WITNESS R("defineEngagementScope", u, None, NoCheck) \in Transaction
  <2> QED BY <1>10 DEF DefineEngagementScope
<1>11. ASSUME StartEngagementTesting(s, u)
       PROVE  \E q \in Transaction: Begins(s, q)
  <2> WITNESS R("startEngagementTesting", u, None, NoCheck) \in Transaction
  <2> QED BY <1>11 DEF StartEngagementTesting
<1> HIDE DEF R
<1> QED BY <1>1, <1>2, <1>3, <1>4, <1>5, <1>6, <1>7, <1>8, <1>9, <1>10, <1>11

LEMMA IdleTyped == Idle \in Transaction /\ Target(Idle) /\ Found(Idle)
BY ZeroIsATime, NoCheckTyped
   DEF Idle, Transaction, Operations, PermissionFor, Targets, Target, Found

LEMMA CommitEnds ==
  ASSUME Typed, NEW s \in Sessions, CommitAny(s)
  PROVE  /\ tx[s] \in Transaction /\ Target(tx[s])
         /\ tx[s].stage = "written" /\ tx[s].by \in Users
         /\ tx' = [tx EXCEPT ![s] = Idle]
         /\ UNCHANGED now
<1>1. /\ tx[s].stage = "written" /\ tx' = [tx EXCEPT ![s] = Idle]
      /\ UNCHANGED now
  BY DEF CommitAny, Commit, InsertAssignment, InsertCheck, UpdateCheck,
         InsertAssessment, InsertPlan, UpdatePlan, InsertFramework,
         InsertScope, UpdateDecision, UpdateStatus
<1> QED BY <1>1 DEF Typed, TypeOK, Target

\* A committed row is of the kind its table holds.
LEMMA CommitTyped ==
  ASSUME Typed, NEW s \in Sessions, CommitAny(s)
  PROVE  Typed'
<1> DEFINE r == tx[s]
<1> USE DEF Typed, TypeOK, planning, Commit
<1>1. /\ r.by \in Users /\ r.row \in Check /\ Target(r) /\ UNCHANGED now
      /\ tx' \in [Sessions -> Transaction]
      /\ \A t \in Sessions: Target(tx'[t])
  BY CommitEnds, IdleTyped DEF Transaction
<1>2. CASE InsertAssignment(s)
  BY <1>1, <1>2 DEF InsertAssignment, Target
<1>3. CASE InsertCheck(s)
  BY <1>1, <1>3 DEF InsertCheck, Target
<1>4. CASE UpdateCheck(s)
  <2>1. check' \in [Checks -> Check]
    BY <1>1, <1>4 DEF UpdateCheck, Target, Check
  <2> QED BY <1>1, <1>4, <2>1 DEF UpdateCheck
<1>5. CASE InsertAssessment(s)
  BY <1>1, <1>5 DEF InsertAssessment
<1>6. CASE InsertPlan(s)
  <2>1. plan' \in [Versions -> Plan]
    BY <1>1, <1>6 DEF InsertPlan, Target, Plan
  <2> QED BY <1>1, <1>6, <2>1 DEF InsertPlan
<1>7. CASE UpdatePlan(s)
  <2>1. plan' \in [Versions -> Plan]
    BY <1>1, <1>7 DEF UpdatePlan, Target, Plan
  <2> QED BY <1>1, <1>7, <2>1 DEF UpdatePlan
<1>8. CASE InsertFramework(s)
  BY <1>1, <1>8 DEF InsertFramework, Target, Seeded
<1>9. CASE InsertScope(s)
  BY <1>1, <1>9 DEF InsertScope
<1>10. CASE UpdateDecision(s)
  BY <1>1, <1>10 DEF UpdateDecision, Target
<1>11. CASE UpdateStatus(s)
  BY <1>1, <1>11 DEF UpdateStatus
<1> QED BY <1>2, <1>3, <1>4, <1>5, <1>6, <1>7, <1>8, <1>9, <1>10, <1>11
        DEF CommitAny

LEMMA TypeStep == Typed /\ [Next]_vars => Typed'
<1> SUFFICES ASSUME Typed, [Next]_vars PROVE Typed'
  OBVIOUS
<1> USE DEF Typed, TypeOK, planning, rows
<1>1. CASE UNCHANGED vars
  BY <1>1 DEF vars
<1>2. CASE Tick
  BY <1>2, BoundAssumption DEF Tick, Times
<1>3. ASSUME NEW s \in Sessions,
             Request(s) \/ Execute(s) \/ CommitAny(s) \/ Fail(s)
      PROVE  Typed'
  <2>1. CASE Request(s)
    <3>1. PICK r \in Transaction: Begins(s, r)
      BY <2>1, RequestBegins
    <3> QED BY <3>1 DEF Begins
  <2>2. CASE Execute(s)
    BY <2>2 DEF Execute, Transaction, Target
  <2>3. CASE CommitAny(s)
    BY <2>3, CommitTyped
  <2>4. CASE Fail(s)
    BY <2>4, IdleTyped DEF Fail
  <2> QED BY <1>3, <2>1, <2>2, <2>3, <2>4
<1> QED BY <1>1, <1>2, <1>3 DEF Next

LEMMA TypeInit == Init => Typed
<1> SUFFICES ASSUME Init PROVE Typed
  OBVIOUS
<1>1. NoPlan \in Plan
  BY DEF NoPlan, Plan
<1>2. check \in [Checks -> Check] /\ plan \in [Versions -> Plan]
  BY <1>1, NoCheckTyped DEF Init
<1> QED BY <1>2, IdleTyped, ZeroIsATime DEF Init, Typed, TypeOK

\* Type correctness: every column stays in its domain whatever is requested.
THEOREM TypeCorrect == Spec => []TypeOK
<1>1. Typed => TypeOK
  BY DEF Typed
<1> QED BY <1>1, TypeInit, TypeStep, PTL DEF Spec

-----------------------------------------------------------------------------
(* Commits.                                                                *)

\* What is on record stays.
Kept ==
  /\ \A v \in Versions:
       /\ plan[v].status # "none" =>
            plan'[v].status # "none" /\ plan'[v].createdBy = plan[v].createdBy
       /\ plan[v].status = "APPROVED" => plan'[v].status = "APPROVED"
  /\ \A c \in Checks: check[c].result = "CONFLICT" => check'[c].result = "CONFLICT"
  /\ \A q \in Requirements:
       /\ decision[q] # "none" => decision'[q] # "none"
       /\ decision[q] = "DECIDED" => decision'[q] = "DECIDED"
  /\ selected \subseteq selected' /\ assigned \subseteq assigned'
  /\ assessed => assessed'
  /\ scoped => scoped'

\* The row of the transaction that commits.
LEMMA Committed ==
  ASSUME IInv, NEW s \in Sessions, CommitAny(s)
  PROVE  /\ tx[s] \in Transaction /\ Target(tx[s])
         /\ Found(tx[s]) /\ Passed(tx[s])
         /\ tx[s].stage = "written" /\ tx[s].by \in Users /\ tx[s].by # None
         /\ \A t \in Sessions: tx'[t] = IF t = s THEN Idle ELSE tx[t]
         /\ UNCHANGED now
BY CommitEnds, NoneAssumption DEF IInv, Pending, Typed, TypeOK

LEMMA CommitKept ==
  ASSUME IInv, NEW s \in Sessions, CommitAny(s)
  PROVE  Kept
<1> DEFINE r == tx[s]
<1> USE Committed DEF IInv, Typed, TypeOK, Kept, planning
<1>1. CASE InsertAssignment(s)
  BY <1>1 DEF InsertAssignment
<1>2. CASE InsertCheck(s)
  <2>1. r.on \in Checks /\ check[r.on] = NoCheck
    BY <1>2 DEF InsertCheck, Commit, Target, Found
  <2> QED BY <1>2, <2>1 DEF InsertCheck, NoCheck
<1>3. CASE UpdateCheck(s)
  <2>1. r.on \in Checks /\ \A c \in Checks: check'[c].result = check[c].result
    BY <1>3 DEF UpdateCheck, Commit, Target, Check
  <2> QED BY <1>3, <2>1 DEF UpdateCheck
<1>4. CASE InsertAssessment(s)
  BY <1>4 DEF InsertAssessment
<1>5. CASE InsertPlan(s)
  BY <1>5 DEF InsertPlan, Commit, Target, Passed
<1>6. CASE UpdatePlan(s)
  BY <1>6 DEF UpdatePlan, Commit, Target, Plan
<1>7. CASE InsertFramework(s)
  <2>1. \A q \in Seeded(r.on): decision[q] = "none"
    BY <1>7 DEF InsertFramework, Commit, Passed, Seeded, RowsAgree
  <2> QED BY <1>7, <2>1 DEF InsertFramework
<1>8. CASE InsertScope(s)
  BY <1>8 DEF InsertScope
<1>9. CASE UpdateDecision(s)
  BY <1>9 DEF UpdateDecision
<1>10. CASE UpdateStatus(s)
  BY <1>10 DEF UpdateStatus
<1> QED BY <1>1, <1>2, <1>3, <1>4, <1>5, <1>6, <1>7, <1>8, <1>9, <1>10
        DEF CommitAny

LEMMA CommitAgrees ==
  ASSUME IInv, NEW s \in Sessions, CommitAny(s)
  PROVE  RowsAgree' /\ Numbered'
<1> DEFINE r == tx[s]
<1> USE Committed DEF IInv, Typed, TypeOK, RowsAgree, planning
<1>1. CASE InsertPlan(s)
  <2>1. r.on \in Versions /\ \A w \in 1..(r.on - 1): plan[w].status # "none"
    BY <1>1 DEF InsertPlan, Commit, Target, Found
  <2>2. \A v \in Versions: plan'[v] = IF v = r.on
          THEN [status |-> "PENDING", createdBy |-> r.by, approvedBy |-> None]
          ELSE plan[v]
    BY <1>1 DEF InsertPlan
  <2>3. RowsAgree'
    BY <1>1, <2>2 DEF InsertPlan
  <2>4. ASSUME NEW v \in Versions, (plan[v].status # "none")', NEW w \in 1..v
        PROVE  (plan[w].status # "none")'
    <3>1. w \in Versions
      BY <2>4, BoundAssumption DEF Versions
    <3>2. w = r.on \/ plan[w].status # "none"
      BY <2>1, <2>2, <2>4, <3>1, BoundAssumption DEF Numbered, Versions
    <3> QED BY <2>2, <3>1, <3>2
  <2> QED BY <2>3, <2>4 DEF Numbered
<1>2. CASE UpdatePlan(s)
  <2>1. /\ r.on \in Versions
        /\ \A v \in Versions \ {r.on}: plan'[v] = plan[v]
        /\ plan'[r.on].status = "APPROVED" /\ plan'[r.on].approvedBy = r.by
        /\ plan'[r.on].createdBy = plan[r.on].createdBy
        /\ plan[r.on].status # "none" /\ plan[r.on].createdBy # r.by
    BY <1>2 DEF UpdatePlan, Commit, Target, Found, Plan
  <2>2. RowsAgree'
    BY <1>2, <2>1 DEF UpdatePlan
  <2>3. \A v \in Versions: plan'[v].status = "none" <=> plan[v].status = "none"
    BY <2>1
  <2>4. ASSUME NEW v \in Versions, (plan[v].status # "none")', NEW w \in 1..v
        PROVE  (plan[w].status # "none")'
    <3>1. w \in Versions
      BY <2>4, BoundAssumption DEF Versions
    <3> QED BY <2>3, <2>4, <3>1 DEF Numbered
  <2> QED BY <2>2, <2>4 DEF Numbered
<1>3. CASE InsertFramework(s)
  BY <1>3 DEF InsertFramework, Seeded, Numbered
<1>4. CASE UpdateDecision(s)
  BY <1>4 DEF UpdateDecision, Commit, Passed, Target, Numbered
<1>5. CASE plan' = plan /\ selected' = selected /\ decision' = decision
  BY <1>5 DEF Numbered
<1> QED BY <1>1, <1>2, <1>3, <1>4, <1>5
        DEF CommitAny, InsertAssignment, InsertCheck, UpdateCheck,
            InsertAssessment, InsertScope, UpdateStatus

\* A commit leaves standing what the other transactions found and passed.
LEMMA CommitLeaves ==
  ASSUME IInv, NEW s \in Sessions, CommitAny(s)
  PROVE  Pending' /\ SingleWriters'
<1> DEFINE r == tx[s]
<1> USE Committed
<1>1. Found(Idle)' /\ Idle.stage = "idle" /\ Idle.op = "startEngagementTesting"
  BY DEF Found, Idle
<1>2. SingleWriters'
  BY <1>1 DEF IInv, SingleWriters, Inserts, Keyed
<1>3. ASSUME NEW t \in Sessions \ {s}
      PROVE  Found(tx[t])' /\ ((tx[t].stage = "written")' => Passed(tx[t])')
  <2> DEFINE q == tx[t]
  <2>1. /\ tx'[t] = q /\ q \in Transaction /\ Target(q) /\ Found(q)
        /\ q.stage = "written" => Passed(q)
        /\ Inserts(s) /\ Inserts(t) => q.on # r.on
        /\ Keyed(s) /\ Keyed(t) /\ r.op = q.op => q.on # r.on
    BY <1>3 DEF IInv, Typed, TypeOK, Pending, SingleWriters, Inserts
  <2>2. Kept
    BY CommitKept
  <2>3. q.op = "recordIndependenceCheck" => check'[q.on] = NoCheck
    <3>1. CASE InsertCheck(s)
      BY <2>1, <3>1 DEF InsertCheck, Commit, Found, Target, Inserts, IInv,
                        Typed, TypeOK
    <3>2. CASE UpdateCheck(s)
      <4>1. check[r.on].result = "CONFLICT" /\ r.on \in Checks
        BY <3>2 DEF UpdateCheck, Commit, Found, Target
      <4>2. NoCheck.result # "CONFLICT"
        BY DEF NoCheck
      <4> QED BY <2>1, <3>2, <4>1, <4>2
              DEF UpdateCheck, Found, Target, IInv, Typed, TypeOK
    <3>3. CASE check' = check
      BY <2>1, <3>3 DEF Found
    <3> QED BY <3>1, <3>2, <3>3
            DEF CommitAny, InsertAssignment, InsertAssessment, InsertPlan,
                UpdatePlan, InsertFramework, InsertScope, UpdateDecision,
                UpdateStatus, planning
  <2>4. /\ q.op = "resolveIndependenceConflict" => check'[q.on].result = "CONFLICT"
        /\ q.op = "approveAuditPlan" =>
             plan'[q.on].status # "none" /\ plan'[q.on].createdBy # q.by
        /\ q.op = "decideRequirementApplicability" /\ q.stage = "written" =>
             decision'[q.on] # "none"
    BY <2>1, <2>2 DEF Kept, Found, Passed, Target
  <2>5. q.op = "createAuditPlan" =>
          \A w \in 1..(q.on - 1): plan'[w].status # "none"
    <3>1. q.op = "createAuditPlan" => 1..(q.on - 1) \subseteq Versions
      BY <2>1, BoundAssumption DEF Target, Versions
    <3> QED BY <2>1, <2>2, <3>1 DEF Kept, Found
  <2>6. q.op = "createAuditPlan" /\ q.stage = "written" =>
          plan'[q.on].status = "none"
    <3>1. CASE InsertPlan(s)
      BY <2>1, <3>1 DEF InsertPlan, Commit, Passed, Target, Keyed, IInv, Typed,
                        TypeOK
    <3>2. CASE UpdatePlan(s)
      BY <2>1, <3>2 DEF UpdatePlan, Commit, Passed, Found, Target, IInv, Typed,
                        TypeOK
    <3>3. CASE plan' = plan
      BY <2>1, <3>3 DEF Passed
    <3> QED BY <3>1, <3>2, <3>3
            DEF CommitAny, InsertAssignment, InsertCheck, UpdateCheck,
                InsertAssessment, InsertFramework, InsertScope, UpdateDecision,
                UpdateStatus, planning
  <2>7. q.op = "selectEngagementFramework" /\ q.stage = "written" =>
          q.on \notin selected'
    <3>1. CASE InsertFramework(s)
      BY <2>1, <3>1 DEF InsertFramework, Commit, Passed, Keyed
    <3>2. CASE selected' = selected
      BY <2>1, <3>2 DEF Passed
    <3> QED BY <3>1, <3>2
            DEF CommitAny, InsertAssignment, InsertCheck, UpdateCheck,
                InsertAssessment, InsertPlan, UpdatePlan, InsertScope,
                UpdateDecision, UpdateStatus, planning
  <2> QED BY <2>1, <2>3, <2>4, <2>5, <2>6, <2>7 DEF Found, Passed
<1>4. Found(tx[s])' /\ (tx[s].stage = "written")' = FALSE
  BY <1>1
<1> QED BY <1>2, <1>3, <1>4 DEF Pending

-----------------------------------------------------------------------------
(* The gate of TESTING.                                                    *)

\* Only a new check about a user can make it dependent again: a resolution
\* settles a conflict.
LEMMA IndependentStays ==
  ASSUME IInv, NEW s \in Sessions, CommitAny(s), NEW u \in Users,
         Independent(u), ~(InsertCheck(s) /\ tx[s].row.subject = u)
  PROVE  Independent(u)'
<1> DEFINE r == tx[s]
<1> USE Committed DEF IInv, Typed, TypeOK
<1>1. CASE InsertCheck(s)
  <2>1. /\ r.on \in Checks /\ check[r.on].subject # u /\ r.row.subject # u
        /\ check' = [check EXCEPT ![r.on] = r.row]
    BY <1>1, NoneAssumption DEF InsertCheck, Commit, Target, Found, NoCheck
  <2>2. \A c \in Checks: /\ check'[c].subject = u <=> check[c].subject = u
                         /\ check[c].subject = u => check'[c] = check[c]
    BY <2>1
  <2> QED BY <2>2 DEF Independent, Settled, Newer
<1>2. CASE UpdateCheck(s)
  <2>1. \A c \in Checks:
          /\ check'[c].subject = check[c].subject /\ check'[c].at = check[c].at
          /\ check'[c].result = check[c].result
          /\ check[c].resolvedBy # None => check'[c].resolvedBy # None
    BY <1>2 DEF UpdateCheck, Commit, Check
  <2>2. PICK c \in Checks:
          /\ check[c].subject = u /\ Settled(c)
          /\ \A d \in Checks \ {c}: check[d].subject = u => Newer(c, d)
    BY DEF Independent
  <2>3. Settled(c)' /\ \A d \in Checks: Newer(c, d) => Newer(c, d)'
    BY <2>1, <2>2 DEF Settled, Newer
  <2> QED BY <2>1, <2>2, <2>3 DEF Independent
<1>3. CASE check' = check
  BY <1>3 DEF Independent, Settled, Newer
<1> QED BY <1>1, <1>2, <1>3
        DEF CommitAny, InsertAssignment, InsertAssessment, InsertPlan,
            UpdatePlan, InsertFramework, InsertScope, UpdateDecision,
            UpdateStatus, planning

\* The items of the rows a commit inserts.
Items(s) ==
  IF InsertAssignment(s) THEN {tx[s].on}
  ELSE IF InsertCheck(s) THEN {tx[s].row.subject}
  ELSE IF InsertFramework(s) THEN Seeded(tx[s].on)
  ELSE {}

LEMMA CommitLate ==
  ASSUME IInv, NEW s \in Sessions, CommitAny(s), Starting
  PROVE  late' = late \cup Items(s)
BY DEF CommitAny, Commit, Items, InsertAssignment, InsertCheck, UpdateCheck,
       InsertAssessment, InsertPlan, UpdatePlan, InsertFramework, InsertScope,
       UpdateDecision, UpdateStatus

LEMMA CommitPrepares ==
  ASSUME IInv, NEW s \in Sessions, CommitAny(s)
  PROVE  StartPrepared'
<1> DEFINE r == tx[s]
<1> USE Committed
<1>1. Starting' => Starting
  <2>1. CASE UpdateStatus(s)
    BY <2>1 DEF UpdateStatus, Commit, Starting
  <2>2. CASE status' = status
    BY <2>2 DEF Starting, Idle
  <2> QED BY <2>1, <2>2
          DEF CommitAny, InsertAssignment, InsertCheck, UpdateCheck,
              InsertAssessment, InsertPlan, UpdatePlan, InsertFramework,
              InsertScope, UpdateDecision
<1> SUFFICES ASSUME Starting PROVE Prepared'
  BY <1>1 DEF StartPrepared
<1>2. Prepared /\ Kept
  BY CommitKept DEF IInv, StartPrepared
<1>3. late' = late \cup Items(s)
  BY CommitLate
<1>4. ASSUME NEW u \in assigned', ~Independent(u)'
      PROVE  u \in late'
  <2>1. CASE u \notin assigned
    BY <1>3, <1>4, <2>1
       DEF CommitAny, Items, InsertAssignment, InsertCheck, UpdateCheck,
           InsertAssessment, InsertPlan, UpdatePlan, InsertFramework,
           InsertScope, UpdateDecision, UpdateStatus, planning
  <2>2. CASE InsertCheck(s) /\ r.row.subject = u
    BY <1>3, <2>2 DEF Items, InsertAssignment, InsertCheck, Commit
  <2>3. CASE u \in assigned /\ ~(InsertCheck(s) /\ r.row.subject = u)
    <3>1. u \in Users
      BY <2>3 DEF IInv, Typed, TypeOK
    <3>2. ~Independent(u)
      BY <1>4, <2>3, <3>1, IndependentStays
    <3> QED BY <1>2, <1>3, <2>3, <3>2 DEF Prepared, Unready
  <2> QED BY <2>1, <2>2, <2>3
<1>5. ASSUME NEW q \in Requirements, (decision[q] = "PENDING")'
      PROVE  q \in late'
  <2>1. CASE InsertFramework(s)
    <3>1. Items(s) = Seeded(r.on)
      BY <2>1 DEF Items, InsertFramework, InsertAssignment, InsertCheck, Commit
    <3>2. q \in Seeded(r.on) \/ decision[q] = "PENDING"
      BY <1>5, <2>1 DEF InsertFramework
    <3> QED BY <1>2, <1>3, <3>1, <3>2 DEF Prepared, Unready
  <2>2. CASE ~InsertFramework(s)
    <3>1. decision[q] = "PENDING"
      BY <1>5, <2>2
         DEF CommitAny, InsertAssignment, InsertCheck, UpdateCheck,
             InsertAssessment, InsertPlan, UpdatePlan, InsertScope,
             UpdateDecision, UpdateStatus, planning, IInv, Typed, TypeOK
    <3> QED BY <1>2, <1>3, <3>1 DEF Prepared, Unready
  <2> QED BY <2>1, <2>2
<1> QED BY <1>2, <1>4, <1>5 DEF Prepared, Unready, Kept

-----------------------------------------------------------------------------
(* Requests, statements and rollbacks, which change no row.                *)

\* What a transaction found is still there when no row has changed.
LEMMA RowsStay ==
  ASSUME IInv, UNCHANGED rows
  PROVE  /\ RowsAgree' /\ Numbered' /\ (Prepared => Prepared')
         /\ \A r \in Transaction: /\ Found(r) => Found(r)'
                                  /\ Passed(r) => Passed(r)'
BY DEF IInv, RowsAgree, Numbered, Prepared, Unready, Independent, Settled,
       Newer, Found, Passed, rows, planning

LEMMA PendingStays ==
  ASSUME IInv, UNCHANGED rows,
         \A t \in Sessions: \E r \in Transaction:
           tx'[t] = r /\ Found(r) /\ (r.stage = "written" => Passed(r))
  PROVE  Pending'
<1>1. ASSUME NEW t \in Sessions
      PROVE  Found(tx[t])' /\ ((tx[t].stage = "written")' => Passed(tx[t])')
  <2>1. PICK r \in Transaction:
          tx'[t] = r /\ Found(r) /\ (r.stage = "written" => Passed(r))
    OBVIOUS
  <2>2. Found(r)' /\ (r.stage = "written" => Passed(r)')
    BY <2>1, RowsStay
  <2> QED BY <2>1, <2>2
<1> QED BY <1>1 DEF Pending

LEMMA RequestKeeps ==
  ASSUME IInv, NEW s \in Sessions, Request(s)
  PROVE  Pending' /\ SingleWriters' /\ (Starting' => Starting) /\ UNCHANGED rows
<1>1. PICK r \in Transaction: Begins(s, r)
  BY RequestBegins DEF IInv
<1>2. \A t \in Sessions: tx'[t] = IF t = s THEN r ELSE tx[t]
  BY <1>1 DEF Begins, IInv, Typed, TypeOK
<1>3. SingleWriters'
  BY <1>1, <1>2 DEF Begins, IInv, SingleWriters, Inserts, Keyed
<1>4. ASSUME NEW t \in Sessions
      PROVE  \E q \in Transaction:
               tx'[t] = q /\ Found(q) /\ (q.stage = "written" => Passed(q))
  BY <1>1, <1>2 DEF Begins, IInv, Pending, Typed, TypeOK
<1>5. Starting' => Starting
  BY <1>1, <1>2 DEF Begins, Starting, rows
<1> QED BY <1>1, <1>3, <1>4, <1>5, PendingStays DEF Begins

\* The gates passed leave nothing unready.
LEMMA ExecuteKeeps ==
  ASSUME IInv, NEW s \in Sessions, Execute(s)
  PROVE  Pending' /\ SingleWriters' /\ StartPrepared' /\ UNCHANGED rows
<1> DEFINE r == tx[s]
<1>1. /\ r \in Transaction /\ Target(r) /\ Found(r) /\ r.stage = "checked"
      /\ ~Blocked(s) /\ Accepted(r) /\ UNCHANGED rows
      /\ tx' = [tx EXCEPT ![s].stage = "written"]
  BY DEF Execute, IInv, Typed, TypeOK, Pending, rows
<1>2. /\ tx'[s].op = r.op /\ tx'[s].on = r.on /\ tx'[s].by = r.by
      /\ tx'[s] \in Transaction /\ \A t \in Sessions \ {s}: tx'[t] = tx[t]
  BY <1>1 DEF IInv, Typed, TypeOK, Transaction
<1>3. Passed(r)
  BY <1>1 DEF Accepted, Passed
<1>4. SingleWriters'
  BY <1>1, <1>2
     DEF IInv, SingleWriters, Inserts, Keyed, Blocked, WritesOneRow,
         Operations, PermissionFor
<1>5. ASSUME NEW t \in Sessions
      PROVE  \E q \in Transaction:
               tx'[t] = q /\ Found(q) /\ (q.stage = "written" => Passed(q))
  <2>1. CASE t = s
    <3>1. Found(tx'[s]) /\ Passed(tx'[s])
      BY <1>1, <1>2, <1>3 DEF Found, Passed
    <3> QED BY <1>2, <2>1, <3>1
  <2>2. CASE t # s
    BY <1>2, <2>2 DEF IInv, Pending, Typed, TypeOK
  <2> QED BY <2>1, <2>2
<1>6. Starting' => Prepared
  <2>1. CASE r.op = "startEngagementTesting"
    BY <1>1, <2>1
       DEF Accepted, Prepared, Unready, GovernanceReady, IndependenceReady,
           ScopeReady
  <2>2. CASE r.op # "startEngagementTesting"
    BY <1>1, <1>2, <2>2 DEF Starting, rows, IInv, StartPrepared
  <2> QED BY <2>1, <2>2
<1> QED BY <1>1, <1>4, <1>5, <1>6, PendingStays, RowsStay DEF StartPrepared

LEMMA FailKeeps ==
  ASSUME IInv, NEW s \in Sessions, Fail(s)
  PROVE  Pending' /\ SingleWriters' /\ (Starting' => Starting) /\ UNCHANGED rows
<1>1. UNCHANGED rows /\ \A t \in Sessions: tx'[t] = IF t = s THEN Idle ELSE tx[t]
  BY DEF Fail, IInv, Typed, TypeOK, rows
<1>2. SingleWriters' /\ (Starting' => Starting)
  BY <1>1 DEF IInv, SingleWriters, Inserts, Keyed, Idle, Starting, rows
<1>3. ASSUME NEW t \in Sessions
      PROVE  \E q \in Transaction:
               tx'[t] = q /\ Found(q) /\ (q.stage = "written" => Passed(q))
  <2>1. Idle \in Transaction /\ Found(Idle) /\ Idle.stage = "idle"
    BY IdleTyped DEF Idle
  <2> QED BY <1>1, <2>1 DEF IInv, Pending, Typed, TypeOK
<1> QED BY <1>1, <1>2, <1>3, PendingStays

-----------------------------------------------------------------------------
(* The invariant and what follows from it.                                 *)

LEMMA Initial == Init => IInv
<1> SUFFICES ASSUME Init PROVE IInv
  OBVIOUS
<1>1. RowsAgree /\ Numbered
  BY DEF Init, RowsAgree, Numbered, NoPlan, Versions
<1>2. Pending /\ SingleWriters /\ StartPrepared
  BY IdleTyped
     DEF Init, Pending, SingleWriters, StartPrepared, Starting, Inserts, Keyed,
         Idle
<1> QED BY <1>1, <1>2, TypeInit DEF IInv

LEMMA Inductive == IInv /\ [Next]_vars => IInv'
<1> SUFFICES ASSUME IInv, [Next]_vars PROVE IInv'
  OBVIOUS
<1>1. Typed'
  BY TypeStep DEF IInv
<1>2. CASE UNCHANGED vars \/ Tick
  <2>1. UNCHANGED rows /\ UNCHANGED tx
    BY <1>2 DEF vars, rows, Tick
  <2>2. Pending'
    <3>1. \A t \in Sessions: \E r \in Transaction:
            tx'[t] = r /\ Found(r) /\ (r.stage = "written" => Passed(r))
      BY <2>1 DEF IInv, Typed, TypeOK, Pending
    <3> QED BY <2>1, <3>1, PendingStays
  <2>3. SingleWriters' /\ (Starting' => Starting)
    BY <2>1 DEF IInv, SingleWriters, Inserts, Keyed, Starting, rows
  <2> QED BY <1>1, <2>1, <2>2, <2>3, RowsStay DEF IInv, StartPrepared
<1>3. ASSUME NEW s \in Sessions,
             Request(s) \/ Execute(s) \/ CommitAny(s) \/ Fail(s)
      PROVE  IInv'
  <2>1. CASE CommitAny(s)
    BY <1>1, <2>1, CommitAgrees, CommitLeaves, CommitPrepares DEF IInv
  <2>2. CASE Request(s) \/ Fail(s)
    BY <1>1, <2>2, RequestKeeps, FailKeeps, RowsStay DEF IInv, StartPrepared
  <2>3. CASE Execute(s)
    BY <1>1, <2>3, ExecuteKeeps, RowsStay DEF IInv
  <2> QED BY <1>3, <2>1, <2>2, <2>3
<1> QED BY <1>2, <1>3 DEF Next

THEOREM Invariance == Spec => []IInv
BY Initial, Inductive, PTL DEF Spec

\* In TESTING, only members and requirements whose rows were committed by
\* requests that overlapped the start can be unready: the rest of what the
\* gates asked for is there for good.
THEOREM StartsPrepared == Spec => []UnreadyOnlyLate
<1>1. IInv => UnreadyOnlyLate
  BY DEF IInv, StartPrepared, Starting, Prepared, UnreadyOnlyLate
<1> QED BY <1>1, Invariance, PTL

\* Every APPROVED plan version was approved by another user than its creator,
\* although the approval reads the creator without a lock: no insert gets a
\* version that is taken, and no update changes the creator.
THEOREM PlansApprovedByOthers == Spec => []PlanApprovedIndependently
<1>1. IInv => PlanApprovedIndependently
  BY DEF IInv, RowsAgree, Numbered, PlanApprovedIndependently
<1> QED BY <1>1, Invariance, PTL

\* A decision about a requirement is never undone: the framework it belongs to
\* is selected once.
THEOREM DecisionsStay == Spec => DecisionsKept
<1> DEFINE Stays == \A q \in Requirements:
      decision[q] = "DECIDED" => decision'[q] = "DECIDED"
<1>1. IInv /\ [Next]_vars => [Stays]_vars
  <2> SUFFICES ASSUME IInv, Next PROVE Stays
    BY DEF vars
  <2>1. CASE \E s \in Sessions: CommitAny(s)
    BY <2>1, CommitKept DEF Kept
  <2>2. CASE ~\E s \in Sessions: CommitAny(s)
    BY <2>2, RequestKeeps, ExecuteKeeps, FailKeeps
       DEF Next, Tick, rows, planning
  <2> QED BY <2>1, <2>2
<1> QED BY <1>1, Invariance, PTL DEF Spec, DecisionsKept

-----------------------------------------------------------------------------
(* Governance implements FourEyes.                                         *)

\* The versions created are those that have a creator on record, and only
\* they have an approver.
Recorded ==
  \A v \in Versions:
    /\ plan[v].status # "none" <=> plan[v].createdBy # None
    /\ plan[v].status = "none" => plan[v].approvedBy = None

LEMMA PlansMove ==
  ASSUME IInv, Recorded, [Next]_vars
  PROVE  Recorded' /\ [Plans!Next]_Plans!vars
<1> USE DEF Plans!vars
<1> DEFINE Author == [v \in Versions |-> plan[v].createdBy]
           Approver == [v \in Versions |-> plan[v].approvedBy]
<1>1. ASSUME UNCHANGED plan
      PROVE  Recorded' /\ [Plans!Next]_Plans!vars
  BY <1>1 DEF Recorded
<1>2. CASE UNCHANGED vars \/ Tick
  BY <1>1, <1>2 DEF vars, Tick, planning
<1>3. ASSUME NEW s \in Sessions,
             Request(s) \/ Execute(s) \/ CommitAny(s) \/ Fail(s)
      PROVE  Recorded' /\ [Plans!Next]_Plans!vars
  <2> DEFINE r == tx[s]
  <2>1. CASE ~CommitAny(s)
    BY <1>1, <1>3, <2>1, RequestKeeps, ExecuteKeeps, FailKeeps
       DEF rows, planning
  <2>2. CASE CommitAny(s) /\ ~InsertPlan(s) /\ ~UpdatePlan(s)
    BY <1>1, <2>2
       DEF CommitAny, InsertAssignment, InsertCheck, UpdateCheck,
           InsertAssessment, InsertFramework, InsertScope, UpdateDecision,
           UpdateStatus, planning
  <2>3. CASE InsertPlan(s)
    <3>1. /\ r.on \in Versions /\ plan[r.on].status = "none"
          /\ r.by \in Users /\ r.by # None
      BY <2>3, Committed DEF CommitAny, InsertPlan, Commit, Target, Passed
    <3>2. plan[r.on].createdBy = None /\ plan[r.on].approvedBy = None
      BY <3>1 DEF Recorded
    <3>3. /\ \A v \in Versions \ {r.on}: plan'[v] = plan[v]
          /\ plan'[r.on] = [status |-> "PENDING", createdBy |-> r.by,
                            approvedBy |-> None]
      BY <2>3, <3>1 DEF InsertPlan, IInv, Typed, TypeOK
    <3> HIDE DEF r
    <3>4. /\ plan'[r.on].status = "PENDING"
          /\ plan'[r.on].createdBy = r.by /\ plan'[r.on].approvedBy = None
      BY <3>3
    <3>5. Author' = [Author EXCEPT ![r.on] = r.by]
      <4>1. \A v \in Versions:
              plan'[v].createdBy = IF v = r.on THEN r.by ELSE plan[v].createdBy
        BY <3>3, <3>4
      <4> QED BY <4>1
    <3>6. Approver' = Approver
      <4>1. \A v \in Versions: plan'[v].approvedBy = plan[v].approvedBy
        BY <3>2, <3>3, <3>4
      <4> QED BY <4>1
    <3>7. PICK v \in Versions, u \in Users: v = r.on /\ u = r.by
      BY <3>1
    <3>8. Plans!Next
      <4>1. Plans!Make(v, u)
        BY <3>2, <3>5, <3>6, <3>7 DEF Plans!Make
      <4> QED BY <4>1 DEF Plans!Next
    <3>9. Recorded'
      BY <3>1, <3>3, <3>4 DEF Recorded
    <3> QED BY <3>8, <3>9
  <2>4. CASE UpdatePlan(s)
    <3>1. /\ r.on \in Versions /\ r.by \in Users
          /\ plan[r.on].status # "none" /\ plan[r.on].createdBy # r.by
      BY <2>4, Committed DEF CommitAny, UpdatePlan, Commit, Target, Found
    <3>2. /\ \A v \in Versions \ {r.on}: plan'[v] = plan[v]
          /\ plan'[r.on].status = "APPROVED" /\ plan'[r.on].approvedBy = r.by
          /\ plan'[r.on].createdBy = plan[r.on].createdBy
      BY <2>4, <3>1 DEF UpdatePlan, IInv, Typed, TypeOK, Plan
    <3> HIDE DEF r
    <3>3. Approver' = [Approver EXCEPT ![r.on] = r.by]
      <4>1. \A v \in Versions:
              plan'[v].approvedBy = IF v = r.on THEN r.by ELSE plan[v].approvedBy
        BY <3>2
      <4> QED BY <4>1
    <3>4. Author' = Author
      <4>1. \A v \in Versions: plan'[v].createdBy = plan[v].createdBy
        BY <3>2
      <4> QED BY <4>1
    <3>5. plan[r.on].createdBy # None
      BY <3>1 DEF Recorded
    <3>6. PICK v \in Versions, u \in Users: v = r.on /\ u = r.by
      BY <3>1
    <3>7. Plans!Next
      <4>1. Plans!Approve(v, u)
        BY <3>1, <3>3, <3>4, <3>5, <3>6 DEF Plans!Approve
      <4> QED BY <4>1 DEF Plans!Next
    <3>8. Recorded'
      BY <3>1, <3>2 DEF Recorded
    <3> QED BY <3>7, <3>8
  <2> QED BY <1>3, <2>1, <2>2, <2>3, <2>4
<1> QED BY <1>2, <1>3 DEF Next

\* Every plan version has one creator, whatever requests create one at a time,
\* and only somebody else is ever on record as its approver, although an
\* approval reads the creator without a lock.
THEOREM PlansKeptApart == Spec => PlansByFourEyes
<1>1. Init => Recorded /\ Plans!Init
  BY DEF Init, Recorded, NoPlan, Plans!Init
<1>2. IInv /\ Recorded /\ [Next]_vars => Recorded' /\ [Plans!Next]_Plans!vars
  BY PlansMove
<1> QED
  BY <1>1, <1>2, Invariance, PTL DEF Spec, PlansByFourEyes, Plans!Spec

-----------------------------------------------------------------------------
(* One request at a time.                                                  *)

\* At most one request is open.
Serial ==
  \A s, t \in Sessions:
    tx[s].stage # "idle" /\ tx[t].stage # "idle" => s = t

\* Nothing is committed after the gate, and nothing is open in TESTING.
NothingLate ==
  /\ late = {}
  /\ status = "TESTING" => \A s \in Sessions: tx[s].stage = "idle"

LEMMA NothingLateStays ==
  ASSUME IInv, NothingLate, Serial, [Next]_vars
  PROVE  NothingLate'
<1>1. CASE UNCHANGED vars \/ Tick
  BY <1>1 DEF vars, Tick, NothingLate
<1>2. ASSUME NEW s \in Sessions,
             Request(s) \/ Execute(s) \/ CommitAny(s) \/ Fail(s)
      PROVE  NothingLate'
  <2>1. CASE Request(s)
    <3>1. status = "PLANNING"
      BY <2>1
         DEF Request, Begin, AssignEngagementUser, RecordIndependenceCheck,
             ResolveIndependenceConflict, CreateAuditPlan, ApproveAuditPlan,
             SelectEngagementFramework, DecideRequirementApplicability,
             RecordRiskAssessment, DefineEngagementScope,
             StartEngagementTesting
    <3> QED BY <2>1, <3>1, RequestKeeps DEF NothingLate, rows
  <2>2. CASE Execute(s)
    BY <2>2 DEF Execute, NothingLate, IInv, Typed, TypeOK
  <2>3. CASE Fail(s)
    BY <2>3 DEF Fail, NothingLate, IInv, Typed, TypeOK, Idle
  <2>4. CASE CommitAny(s)
    <3>1. /\ tx[s].stage = "written" /\ status = "PLANNING"
          /\ \A t \in Sessions: tx[t].stage = "written" => t = s
          /\ \A t \in Sessions: tx'[t].stage = "idle"
      BY <2>4, Committed, CommitEnds
         DEF NothingLate, Serial, Idle, IInv, Typed, TypeOK
    <3>2. CASE UpdateStatus(s)
      BY <3>1, <3>2 DEF UpdateStatus, Commit, NothingLate
    <3>3. CASE ~UpdateStatus(s)
      <4>1. tx[s].op # "startEngagementTesting"
        BY <2>4, <3>3
           DEF CommitAny, Commit, InsertAssignment, InsertCheck, UpdateCheck,
               InsertAssessment, InsertPlan, UpdatePlan, InsertFramework,
               InsertScope, UpdateDecision
      <4>2. ~Starting
        BY <3>1, <4>1 DEF Starting
      <4>3. late' = late
        BY <2>4, <3>3, <4>2
           DEF CommitAny, Commit, InsertAssignment, InsertCheck, UpdateCheck,
               InsertAssessment, InsertPlan, UpdatePlan, InsertFramework,
               InsertScope, UpdateDecision
      <4> QED BY <3>1, <4>3 DEF NothingLate
    <3> QED BY <3>2, <3>3
  <2> QED BY <1>2, <2>1, <2>2, <2>3, <2>4
<1> QED BY <1>1, <1>2 DEF Next

\* As long as requests do not overlap, the gates are enough: in TESTING every
\* member of the team is independent, as docs/AUDIT-METHODOLOGY.md says.
THEOREM SerialStartsIndependent == Spec /\ []Serial => []TestingIndependent
<1>1. Init => NothingLate
  BY DEF Init, NothingLate
<1>2. IInv /\ NothingLate /\ Serial /\ [Next]_vars => NothingLate'
  BY NothingLateStays
<1>3. IInv /\ NothingLate => TestingIndependent
  BY DEF IInv, StartPrepared, Starting, Prepared, Unready, NothingLate,
         TestingIndependent
<1> QED BY <1>1, <1>2, <1>3, Invariance, PTL DEF Spec

=============================================================================
