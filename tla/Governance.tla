----------------------------- MODULE Governance -----------------------------
(***************************************************************************)
(* The planning of one engagement up to TESTING                            *)
(* (src/src/domain/engagement/governance-service.ts and scope-service.ts   *)
(* over db/migrations/0005, 0006 and the transition trigger of 0011):      *)
(* who is on the team, who is independent, the risk assessment, the audit  *)
(* plan, the frameworks selected and what is decided about their           *)
(* requirements.  The gate of TESTING asks for all of it.                  *)
(*                                                                         *)
(* Requests are READ COMMITTED transactions as in Finalization:            *)
(*   idle -> checked      the service's unlocked reads and checks          *)
(*   checked -> written   the statement, its lock waits and its triggers   *)
(*   written -> idle      COMMIT, and from every stage to idle by ROLLBACK *)
(***************************************************************************)
EXTENDS Integers, FiniteSets, Rbac

CONSTANTS
  Users,          \* active members of the engagement's organization
  RoleOf,         \* their membership roles
  Sessions,       \* pooled database connections, one transaction at a time
  Checks,         \* ids of independence checks; ties of time go by id
  Frameworks,     \* framework versions
  Requirements,   \* their requirements
  FrameworkOf,    \* the version each belongs to
  MaxPlans,       \* bound on the plan versions
  MaxTime,        \* bound on the clock
  None            \* no user, no target

ASSUME RoleAssumption == RoleOf \in [Users -> Roles]
ASSUME FrameworkAssumption == FrameworkOf \in [Requirements -> Frameworks]
ASSUME BoundAssumption ==
  MaxPlans \in Nat /\ MaxTime \in Nat /\ Checks \subseteq Nat
ASSUME NoneAssumption == None \notin Users

VARIABLES
  status,         \* engagements.status, as far as TESTING
  assigned,       \* users with an active engagement_assignments row
  check,          \* the independence_checks
  assessed,       \* some risk_assessments row exists
  plan,           \* the audit_plans by version
  selected,       \* engagement_frameworks
  scoped,         \* some scopes row is in scope
  decision,       \* engagement_requirement_applicability.decision
  now,            \* the clock
  tx,             \* the transaction of each session
  late            \* history: users and requirements whose rows were
                  \* committed after the gate of TESTING had passed

planning == <<assigned, check, assessed, plan, selected, scoped, decision>>
vars == <<status, planning, now, tx, late>>

-----------------------------------------------------------------------------
Times == 0..MaxTime
Versions == 1..MaxPlans
Verdicts == {"CLEAR", "CONFLICT"}

\* assignmentRoles: who may be on an assurance team.
TeamRoles == {"AUDIT_MANAGER", "LEAD_AUDITOR", "AUDITOR", "REVIEWER"}

\* The permission each service function requires.
PermissionFor ==
  [assignEngagementUser           |-> "engagement.governance.manage",
   recordIndependenceCheck        |-> "engagement.governance.manage",
   resolveIndependenceConflict    |-> "engagement.start_testing",
   recordRiskAssessment           |-> "engagement.governance.manage",
   createAuditPlan                |-> "engagement.governance.manage",
   approveAuditPlan               |-> "engagement.plan.approve",
   selectEngagementFramework      |-> "engagement.governance.manage",
   defineEngagementScope          |-> "engagement.governance.manage",
   decideRequirementApplicability |-> "engagement.governance.manage",
   startEngagementTesting         |-> "engagement.start_testing"]

Operations == DOMAIN PermissionFor

Check == [subject: Users \cup {None}, result: Verdicts \cup {"none"},
          at: Times, resolvedBy: Users \cup {None}]
NoCheck == [subject |-> None, result |-> "none", at |-> 0, resolvedBy |-> None]

Plan == [status: {"none", "PENDING", "APPROVED"}, createdBy: Users \cup {None},
         approvedBy: Users \cup {None}]
NoPlan == [status |-> "none", createdBy |-> None, approvedBy |-> None]

Targets ==
  Users \cup Checks \cup Versions \cup Frameworks \cup Requirements \cup {None}

\* row: the check that the transaction inserts, if any.
Transaction ==
  [stage: {"idle", "checked", "written"}, op: Operations,
   by: Users \cup {None}, on: Targets, row: Check]

Idle == [stage |-> "idle", op |-> "startEngagementTesting", by |-> None,
         on |-> None, row |-> NoCheck]

TypeOK ==
  /\ status \in {"PLANNING", "TESTING"}
  /\ assigned \in SUBSET Users
  /\ check \in [Checks -> Check]
  /\ assessed \in BOOLEAN
  /\ plan \in [Versions -> Plan]
  /\ selected \in SUBSET Frameworks
  /\ scoped \in BOOLEAN
  /\ decision \in [Requirements -> {"none", "PENDING", "DECIDED"}]
  /\ now \in Times
  /\ tx \in [Sessions -> Transaction]
  /\ late \in SUBSET (Users \cup Requirements)

-----------------------------------------------------------------------------
(* The gates of TESTING.                                                   *)

\* ORDER BY created_at DESC, id DESC.
Newer(c, d) ==
  check[c].at > check[d].at \/ (check[c].at = check[d].at /\ c > d)

Settled(c) == check[c].result = "CLEAR" \/ check[c].resolvedBy # None

\* u's latest check is clear, or a conflict that was resolved.
Independent(u) ==
  \E c \in Checks:
    /\ check[c].subject = u /\ Settled(c)
    /\ \A d \in Checks \ {c}: check[d].subject = u => Newer(c, d)

\* engagement_independence_ready.
IndependenceReady == assigned # {} /\ \A u \in assigned: Independent(u)

\* engagement_governance_ready.
GovernanceReady ==
  /\ IndependenceReady
  /\ assessed
  /\ \E v \in Versions: plan[v].status = "APPROVED"

\* engagement_scope_ready.
ScopeReady ==
  /\ selected # {}
  /\ scoped
  /\ \A q \in Requirements: decision[q] # "PENDING"

-----------------------------------------------------------------------------
Init ==
  /\ status = "PLANNING"
  /\ assigned = {}
  /\ check = [c \in Checks |-> NoCheck]
  /\ assessed = FALSE
  /\ plan = [v \in Versions |-> NoPlan]
  /\ selected = {}
  /\ scoped = FALSE
  /\ decision = [q \in Requirements |-> "none"]
  /\ now = 0
  /\ tx = [s \in Sessions |-> Idle]
  /\ late = {}

\* requirePermission and requirePlanningEngagement or requirePlanning.
Begin(s, op, u, on, row) ==
  /\ tx[s].stage = "idle"
  /\ HasPermission(RoleOf[u], PermissionFor[op])
  /\ status = "PLANNING"
  /\ tx' = [tx EXCEPT ![s] = [stage |-> "checked", op |-> op, by |-> u,
                              on |-> on, row |-> row]]
  /\ UNCHANGED <<status, planning, now, late>>

AssignEngagementUser(s, u, member) ==
  /\ RoleOf[member] \in TeamRoles
  /\ Begin(s, "assignEngagementUser", u, member, NoCheck)

\* created_at is the time the transaction began.
RecordIndependenceCheck(s, u, c, member, verdict) ==
  /\ member \in assigned
  /\ check[c] = NoCheck
  /\ \A t \in Sessions:
       ~(tx[t].op = "recordIndependenceCheck" /\ tx[t].on = c)
  /\ Begin(s, "recordIndependenceCheck", u, c,
           [subject |-> member, result |-> verdict, at |-> now,
            resolvedBy |-> None])

ResolveIndependenceConflict(s, u, c) ==
  /\ check[c].result = "CONFLICT"
  /\ check[c].resolvedBy = None
  /\ Begin(s, "resolveIndependenceConflict", u, c, NoCheck)

RecordRiskAssessment(s, u) ==
  Begin(s, "recordRiskAssessment", u, None, NoCheck)

\* The version after the latest one committed.
CreateAuditPlan(s, u, v) ==
  /\ plan[v].status = "none"
  /\ \A w \in 1..(v - 1): plan[w].status # "none"
  /\ Begin(s, "createAuditPlan", u, v, NoCheck)

\* Mutant: the creator of a plan may approve it.
ApproveAuditPlanOwn(s, u, v) ==
  /\ plan[v].status = "PENDING"
  /\ Begin(s, "approveAuditPlan", u, v, NoCheck)

ApproveAuditPlan(s, u, v) ==
  /\ plan[v].status = "PENDING"
  /\ plan[v].createdBy # u
  /\ Begin(s, "approveAuditPlan", u, v, NoCheck)

SelectEngagementFramework(s, u, f) ==
  Begin(s, "selectEngagementFramework", u, f, NoCheck)

\* With inScope; a boundary out of scope opens no gate.
DefineEngagementScope(s, u) ==
  Begin(s, "defineEngagementScope", u, None, NoCheck)

\* APPLICABLE or NOT_APPLICABLE, which no gate tells apart.
DecideRequirementApplicability(s, u, q) ==
  Begin(s, "decideRequirementApplicability", u, q, NoCheck)

\* The gate is read here, without the scope, and once more by the trigger.
StartEngagementTesting(s, u) ==
  /\ GovernanceReady
  /\ Begin(s, "startEngagementTesting", u, None, NoCheck)

-----------------------------------------------------------------------------
(* The statement, its lock waits, its constraints and triggers.            *)

\* Statements that wait for another one's row or unique key.
WritesOneRow ==
  Operations \ {"recordIndependenceCheck", "recordRiskAssessment",
                "defineEngagementScope"}

Blocked(s) ==
  \E t \in Sessions \ {s}:
    /\ tx[t].stage = "written"
    /\ tx[t].op = tx[s].op /\ tx[t].on = tx[s].on
    /\ tx[s].op \in WritesOneRow

\* Mutant: the trigger trusts the gate that the service has read.
AcceptedUngated(r) ==
  /\ r.op = "createAuditPlan" => plan[r.on].status = "none"
  /\ r.op = "selectEngagementFramework" => r.on \notin selected
  /\ r.op = "decideRequirementApplicability" => decision[r.on] # "none"
  /\ r.op = "startEngagementTesting" => status = "PLANNING" /\ ScopeReady

\* Mutant: ON CONFLICT DO NOTHING is gone, and the rows are seeded again.
AcceptedReseeded(r) ==
  /\ r.op = "createAuditPlan" => plan[r.on].status = "none"
  /\ r.op = "decideRequirementApplicability" => decision[r.on] # "none"
  /\ r.op = "startEngagementTesting" =>
       status = "PLANNING" /\ GovernanceReady /\ ScopeReady

\* No constraint is violated, the row to update is there and no trigger or
\* service raises.  Updates by id ask for nothing else.
Accepted(r) ==
  /\ r.op = "createAuditPlan" => plan[r.on].status = "none"
  /\ r.op = "selectEngagementFramework" => r.on \notin selected
  /\ r.op = "decideRequirementApplicability" => decision[r.on] # "none"
  /\ r.op = "startEngagementTesting" =>
       status = "PLANNING" /\ GovernanceReady /\ ScopeReady

Execute(s) ==
  /\ tx[s].stage = "checked"
  /\ ~Blocked(s)
  /\ Accepted(tx[s])
  /\ tx' = [tx EXCEPT ![s].stage = "written"]
  /\ UNCHANGED <<status, planning, now, late>>

\* Accepted is false, or the connection is lost.
Fail(s) ==
  /\ tx[s].stage # "idle"
  /\ tx' = [tx EXCEPT ![s] = Idle]
  /\ UNCHANGED <<status, planning, now, late>>

-----------------------------------------------------------------------------
(* Commits.                                                                *)

\* The gate of TESTING has passed, whether its commit is done or not.
Starting ==
  \/ status = "TESTING"
  \/ \E t \in Sessions:
       tx[t].stage = "written" /\ tx[t].op = "startEngagementTesting"

\* The commit of s, which makes rows about the given items visible.
Commit(s, op, items) ==
  /\ tx[s].stage = "written" /\ tx[s].op = op
  /\ tx' = [tx EXCEPT ![s] = Idle]
  /\ late' = IF Starting THEN late \cup items ELSE late
  /\ UNCHANGED now

InsertAssignment(s) ==
  /\ Commit(s, "assignEngagementUser", {tx[s].on})
  /\ assigned' = assigned \cup {tx[s].on}
  /\ UNCHANGED <<status, check, assessed, plan, selected, scoped, decision>>

InsertCheck(s) ==
  /\ Commit(s, "recordIndependenceCheck", {tx[s].row.subject})
  /\ check' = [check EXCEPT ![tx[s].on] = tx[s].row]
  /\ UNCHANGED <<status, assigned, assessed, plan, selected, scoped, decision>>

UpdateCheck(s) ==
  /\ Commit(s, "resolveIndependenceConflict", {})
  /\ check' = [check EXCEPT ![tx[s].on].resolvedBy = tx[s].by]
  /\ UNCHANGED <<status, assigned, assessed, plan, selected, scoped, decision>>

InsertAssessment(s) ==
  /\ Commit(s, "recordRiskAssessment", {})
  /\ assessed' = TRUE
  /\ UNCHANGED <<status, assigned, check, plan, selected, scoped, decision>>

\* Mutant: a new plan has a status of workflow_status, not review_status.
InsertPlanOpen(s) ==
  /\ Commit(s, "createAuditPlan", {})
  /\ plan' = [plan EXCEPT ![tx[s].on] =
                [status |-> "OPEN", createdBy |-> tx[s].by,
                 approvedBy |-> None]]
  /\ UNCHANGED <<status, assigned, check, assessed, selected, scoped, decision>>

InsertPlan(s) ==
  /\ Commit(s, "createAuditPlan", {})
  /\ plan' = [plan EXCEPT ![tx[s].on] =
                [status |-> "PENDING", createdBy |-> tx[s].by,
                 approvedBy |-> None]]
  /\ UNCHANGED <<status, assigned, check, assessed, selected, scoped, decision>>

UpdatePlan(s) ==
  /\ Commit(s, "approveAuditPlan", {})
  /\ plan' = [plan EXCEPT ![tx[s].on].status = "APPROVED",
                          ![tx[s].on].approvedBy = tx[s].by]
  /\ UNCHANGED <<status, assigned, check, assessed, selected, scoped, decision>>

\* The requirements whose applicability the selection of f seeds.
Seeded(f) == {q \in Requirements: FrameworkOf[q] = f}

InsertFramework(s) ==
  /\ Commit(s, "selectEngagementFramework", Seeded(tx[s].on))
  /\ selected' = selected \cup {tx[s].on}
  /\ decision' = [q \in Requirements |->
                    IF q \in Seeded(tx[s].on) THEN "PENDING" ELSE decision[q]]
  /\ UNCHANGED <<status, assigned, check, assessed, plan, scoped>>

InsertScope(s) ==
  /\ Commit(s, "defineEngagementScope", {})
  /\ scoped' = TRUE
  /\ UNCHANGED <<status, assigned, check, assessed, plan, selected, decision>>

UpdateDecision(s) ==
  /\ Commit(s, "decideRequirementApplicability", {})
  /\ decision' = [decision EXCEPT ![tx[s].on] = "DECIDED"]
  /\ UNCHANGED <<status, assigned, check, assessed, plan, selected, scoped>>

UpdateStatus(s) ==
  /\ Commit(s, "startEngagementTesting", {})
  /\ status' = "TESTING"
  /\ UNCHANGED planning

-----------------------------------------------------------------------------
Tick ==
  /\ now < MaxTime
  /\ now' = now + 1
  /\ UNCHANGED <<status, planning, tx, late>>

Request(s) ==
  \E u \in Users:
    \/ \E member \in Users:
         \/ AssignEngagementUser(s, u, member)
         \/ \E c \in Checks, verdict \in Verdicts:
              RecordIndependenceCheck(s, u, c, member, verdict)
    \/ \E c \in Checks: ResolveIndependenceConflict(s, u, c)
    \/ \E v \in Versions: CreateAuditPlan(s, u, v) \/ ApproveAuditPlan(s, u, v)
    \/ \E f \in Frameworks: SelectEngagementFramework(s, u, f)
    \/ \E q \in Requirements: DecideRequirementApplicability(s, u, q)
    \/ RecordRiskAssessment(s, u)
    \/ DefineEngagementScope(s, u)
    \/ StartEngagementTesting(s, u)

CommitAny(s) ==
  \/ InsertAssignment(s) \/ InsertCheck(s) \/ UpdateCheck(s)
  \/ InsertAssessment(s) \/ InsertPlan(s) \/ UpdatePlan(s)
  \/ InsertFramework(s) \/ InsertScope(s) \/ UpdateDecision(s)
  \/ UpdateStatus(s)

Next ==
  \/ \E s \in Sessions: Request(s) \/ Execute(s) \/ CommitAny(s) \/ Fail(s)
  \/ Tick

Spec == Init /\ [][Next]_vars

-----------------------------------------------------------------------------
(***************************************************************************)
(* Properties.                                                             *)
(***************************************************************************)

\* "An engagement must pass independence and conflict checks before assurance
\* work proceeds" (docs/AUDIT-METHODOLOGY.md).  The code does not guarantee it.
TestingIndependent == status = "TESTING" => \A u \in assigned: Independent(u)

\* What the gates could object to: members who are not independent and
\* requirements that are not decided.
Unready ==
  {u \in assigned: ~Independent(u)}
    \cup {q \in Requirements: decision[q] = "PENDING"}

\* In TESTING everything the gates asked for is there, except for what
\* requests committed that overlapped the start.
UnreadyOnlyLate ==
  status = "TESTING" =>
    /\ Unready \subseteq late
    /\ assigned # {} /\ assessed /\ selected # {} /\ scoped
    /\ \E v \in Versions: plan[v].status = "APPROVED"

\* The versions of the plan have no gap, each keeps its creator, and an
\* APPROVED one was approved by somebody else, however approvals overlap.
PlanApprovedIndependently ==
  \A v \in Versions:
    plan[v].status = "APPROVED" =>
      /\ plan[v].approvedBy \notin {None, plan[v].createdBy}
      /\ \A w \in 1..v: plan[w].status # "none"

\* Plans are approved by four eyes (FourEyes): the author of a version stays,
\* and so does its approval, although the approver may be replaced by the
\* later of two that overlap.
Plans ==
  INSTANCE FourEyes
    WITH People <- Users, Items <- Versions,
         author <- [v \in Versions |-> plan[v].createdBy],
         approver <- [v \in Versions |-> plan[v].approvedBy]

PlansByFourEyes == Plans!Spec

\* What was decided about a requirement is revised, never lost: a selection
\* does not seed it again.
DecisionsKept ==
  [][\A q \in Requirements:
       decision[q] = "DECIDED" => decision'[q] = "DECIDED"]_vars

=============================================================================
