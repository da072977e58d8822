----------------------------- MODULE Membership -----------------------------
(***************************************************************************)
(* Who belongs to an organization and who administers it: members are      *)
(* invited, accept, are given another role, deactivated and reactivated by *)
(* requests that overlap (src/src/domain/organization/onboarding-service.ts*)
(* over db/migrations/0020).  Users outside the organization are users     *)
(* with no membership row; the other organizations are not modelled, the   *)
(* row level security of 0002 keeps them apart.                            *)
(*                                                                         *)
(* Each request is one READ COMMITTED transaction, a record of tx:         *)
(*   idle -> checked      the service's reads and checks                   *)
(*   checked -> written   the statement, its triggers, the audit record    *)
(*   checked -> locked -> written   an acceptance first locks and checks   *)
(*                        its invitation, then writes the membership       *)
(*   written -> idle      COMMIT, and from every stage to idle by ROLLBACK *)
(***************************************************************************)
EXTENDS Integers, FiniteSets, Rbac

CONSTANTS
  Users,          \* everybody who has an identity
  InitRole,       \* the role each has at first, None outside the organization
  Invitations,    \* ids of invitations that may be issued
  Invitee,        \* the user whose e-mail address each of them names
  Grants,         \* the roles requests give
  Sessions,       \* pooled database connections, one transaction at a time
  None            \* no role, no user, no target

\* ASSIGNABLE_ROLES: every role but SUPER_ADMIN.
AssignableRoles == Roles \ {"SUPER_ADMIN"}

\* The trusted provisioning that creates an organization gives it an
\* administrator; the application cannot.
ASSUME InitAssumption ==
  /\ InitRole \in [Users -> Roles \cup {None}]
  /\ \E u \in Users: InitRole[u] = "ORG_ADMIN"
ASSUME InviteeAssumption == Invitee \in [Invitations -> Users]
ASSUME GrantsAssumption == Grants \subseteq AssignableRoles
ASSUME NoneAssumption ==
  None \notin Roles \cup Users \cup Invitations

VARIABLES
  member,         \* memberships.role, None where there is no row
  active,         \* the users whose membership is ACTIVE
  invitation,     \* organization_invitations.status, none before the insert
  offered,        \* organization_invitations.role
  expired,        \* the invitations whose expires_at has passed
  tx,             \* the transaction of each session
  granted,        \* history: memberships each invitation has given
  raced           \* history: two administrators were being removed at once

rows == <<member, active, invitation, offered>>
vars == <<rows, expired, tx, granted, raced>>

-----------------------------------------------------------------------------
Operations == {"updateMember", "invite", "cancel", "accept"}

Stages == {"idle", "checked", "locked", "written"}

\* role and status: what the transaction writes, None and KEEP where the
\* request leaves the column alone.
Idle == [stage |-> "idle", op |-> "invite", by |-> None, on |-> None,
         role |-> None, status |-> "KEEP"]

Transaction ==
  [stage: Stages, op: Operations, by: Users \cup {None},
   on: Users \cup Invitations \cup {None}, role: Roles \cup {None},
   status: {"ACTIVE", "INACTIVE", "KEEP"}]

WellTargeted(r) ==
  /\ r.stage = "locked" => r.op = "accept"
  /\ r.stage # "idle" =>
       /\ r.by \in Users
       /\ IF r.op = "updateMember" THEN r.on \in Users
                                   ELSE r.on \in Invitations

TypeOK ==
  /\ member \in [Users -> Roles \cup {None}]
  /\ active \subseteq Users
  /\ invitation \in
       [Invitations -> {"none", "PENDING", "ACCEPTED", "CANCELLED"}]
  /\ offered \in [Invitations -> Roles \cup {None}]
  /\ expired \subseteq Invitations
  /\ tx \in [Sessions -> Transaction]
  /\ \A s \in Sessions: WellTargeted(tx[s])
  /\ granted \in [Invitations -> Nat]
  /\ raced \in BOOLEAN

-----------------------------------------------------------------------------
Admin(u) == u \in active /\ member[u] = "ORG_ADMIN"

\* requireActiveMembership, then requirePermission.
Manages(u) ==
  u \in active /\ HasPermission(member[u], "organization.manage_users")

\* The membership row a transaction writes, and what it puts there.
WritesMember(r) == r.op \in {"updateMember", "accept"}
Person(r)       == IF r.op = "accept" THEN r.by ELSE r.on
RoleAfter(r)    == IF r.role = None THEN member[Person(r)] ELSE r.role
ActiveAfter(r)  == \/ r.status = "ACTIVE"
                   \/ r.status = "KEEP" /\ Person(r) \in active

\* The condition on OLD and NEW in enforce_membership_admin_safety.
RemovesAdmin(r) ==
  /\ WritesMember(r)
  /\ Admin(Person(r))
  /\ ~(RoleAfter(r) = "ORG_ADMIN" /\ ActiveAfter(r))

\* Mutant: the trigger counts the row it is about to change.
AdminSafetyInclusive(r) == RemovesAdmin(r) => \E u \in Users: Admin(u)

\* enforce_membership_admin_safety: another row says ORG_ADMIN and ACTIVE.
AdminSafety(r) ==
  RemovesAdmin(r) => \E u \in Users \ {Person(r)}: Admin(u)

PendingFor(u) ==
  {i \in Invitations: Invitee[i] = u /\ invitation[i] = "PENDING"}

-----------------------------------------------------------------------------
Init ==
  /\ member = InitRole
  /\ active = {u \in Users: InitRole[u] # None}
  /\ invitation = [i \in Invitations |-> "none"]
  /\ offered = [i \in Invitations |-> None]
  /\ expired = {}
  /\ tx = [s \in Sessions |-> Idle]
  /\ granted = [i \in Invitations |-> 0]
  /\ raced = FALSE

Begin(s, r) ==
  /\ tx[s].stage = "idle"
  /\ tx' = [tx EXCEPT ![s] = r]
  /\ UNCHANGED <<rows, expired, granted, raced>>

\* updateOrganizationMember: a role, a status, or both.
UpdateMember(s, u, v, role, status) ==
  /\ Manages(u)
  /\ member[v] # None
  /\ role # None \/ status # "KEEP"
  /\ Begin(s, [stage |-> "checked", op |-> "updateMember", by |-> u, on |-> v,
               role |-> role, status |-> status])

\* inviteOrganizationMember, up to the insert.  provision_invited_identity
\* asks once more for an administrator and gives the address an identity.
InviteMember(s, u, i, role) ==
  /\ Manages(u)
  /\ Invitee[i] \notin active
  /\ invitation[i] = "none"
  /\ \A t \in Sessions: tx[t].on # i
  /\ Begin(s, [stage |-> "checked", op |-> "invite", by |-> u, on |-> i,
               role |-> role, status |-> "KEEP"])

\* cancelOrganizationInvitation: only the statement looks at the status.
CancelInvitation(s, u, i) ==
  /\ Manages(u)
  /\ invitation[i] # "none"
  /\ Begin(s, [stage |-> "checked", op |-> "cancel", by |-> u, on |-> i,
               role |-> None, status |-> "KEEP"])

\* acceptOrganizationInvitation asks for no membership.  now() is the time
\* the transaction began, so the expiry is decided here.
AcceptInvitation(s, i) ==
  /\ invitation[i] # "none"
  /\ i \notin expired
  /\ Begin(s, [stage |-> "checked", op |-> "accept", by |-> Invitee[i],
               on |-> i, role |-> None, status |-> "KEEP"])

-----------------------------------------------------------------------------
(* The statements and what they wait for.                                  *)

\* Mutant: an acceptance reads its invitation without FOR UPDATE.
HoldsInvitationOnCancel(r) == r.op = "cancel" /\ r.stage = "written"

\* The transaction holds the row lock of invitation r.on.
HoldsInvitation(r) ==
  \/ r.op = "accept" /\ r.stage \in {"locked", "written"}
  \/ r.op = "cancel" /\ r.stage = "written"

\* r's statement waits until h ends.
WaitsFor(r, h) ==
  \/ /\ r.stage = "checked" /\ r.op \in {"accept", "cancel"}
     /\ HoldsInvitation(h) /\ h.on = r.on
  \/ /\ r.stage = "checked" /\ r.op = "invite"       \* the unique index
     /\ h.stage = "written" /\ h.op # "updateMember"
     /\ Invitee[h.on] = Invitee[r.on]
  \/ /\ \/ r.stage = "checked" /\ r.op = "updateMember"
        \/ r.stage = "locked"
     /\ h.stage = "written" /\ WritesMember(h) /\ Person(h) = Person(r)

Blocked(s) == \E t \in Sessions \ {s}: WaitsFor(tx[s], tx[t])

\* recordDomainChange inserts as the actor, whom the row level security must
\* still find active: nobody's own deactivation gets past it.
Recorded(r) ==
  /\ r.by \in active
  /\ ~(r.op = "updateMember" /\ r.on = r.by /\ r.status = "INACTIVE")

\* The statement of a checked transaction finds its row and raises nothing.
Accepted(r) ==
  CASE r.op = "updateMember" ->
         r.by \in active /\ AdminSafety(r) /\ Recorded(r)
    [] r.op = "invite" ->
         Recorded(r) /\ PendingFor(Invitee[r.on]) = {}
    [] r.op = "cancel" ->
         Recorded(r) /\ invitation[r.on] = "PENDING"
    [] r.op = "accept" ->
         invitation[r.on] = "PENDING" /\ r.by \notin active

\* Two administrators are being removed, neither removal visible yet.
Races(s) ==
  /\ RemovesAdmin(tx[s])
  /\ \E t \in Sessions \ {s}: tx[t].stage = "written" /\ RemovesAdmin(tx[t])

Execute(s) ==
  /\ tx[s].stage = "checked" /\ tx[s].op # "accept"
  /\ ~Blocked(s) /\ Accepted(tx[s])
  /\ tx' = [tx EXCEPT ![s].stage = "written"]
  /\ raced' = (raced \/ Races(s))
  /\ UNCHANGED <<rows, expired, granted>>

\* accept_organization_invitation: SELECT ... FOR UPDATE and the checks.
LockInvitation(s) ==
  /\ tx[s].stage = "checked" /\ tx[s].op = "accept"
  /\ ~Blocked(s) /\ Accepted(tx[s])
  /\ tx' = [tx EXCEPT ![s].stage = "locked",
                      ![s].role = offered[tx[s].on], ![s].status = "ACTIVE"]
  /\ UNCHANGED <<rows, expired, granted, raced>>

\* Its upsert of the membership, under the same trigger as an update.
UpsertMembership(s) ==
  /\ tx[s].stage = "locked"
  /\ ~Blocked(s) /\ AdminSafety(tx[s])
  /\ tx' = [tx EXCEPT ![s].stage = "written"]
  /\ raced' = (raced \/ Races(s))
  /\ UNCHANGED <<rows, expired, granted>>

\* The statement raises, the request throws or the connection is lost.
Fail(s) ==
  /\ tx[s].stage # "idle"
  /\ tx' = [tx EXCEPT ![s] = Idle]
  /\ UNCHANGED <<rows, expired, granted, raced>>

-----------------------------------------------------------------------------
(* COMMIT, one action per operation.                                       *)

Commit(s, op) ==
  /\ tx[s].stage = "written" /\ tx[s].op = op
  /\ tx' = [tx EXCEPT ![s] = Idle]

WriteMember(r) ==
  /\ member' = [member EXCEPT ![Person(r)] = RoleAfter(r)]
  /\ active' = IF ActiveAfter(r) THEN active \cup {Person(r)}
                                 ELSE active \ {Person(r)}

CommitUpdate(s) ==
  /\ Commit(s, "updateMember")
  /\ WriteMember(tx[s])
  /\ UNCHANGED <<invitation, offered, expired, granted, raced>>

CommitInvite(s) ==
  /\ Commit(s, "invite")
  /\ invitation' = [invitation EXCEPT ![tx[s].on] = "PENDING"]
  /\ offered' = [offered EXCEPT ![tx[s].on] = tx[s].role]
  /\ UNCHANGED <<member, active, expired, granted, raced>>

\* Mutant: a cancellation writes a status the column's check does not list.
CommitCancelRevoked(s) ==
  /\ Commit(s, "cancel")
  /\ invitation' = [invitation EXCEPT ![tx[s].on] = "REVOKED"]
  /\ UNCHANGED <<member, active, offered, expired, granted, raced>>

CommitCancel(s) ==
  /\ Commit(s, "cancel")
  /\ invitation' = [invitation EXCEPT ![tx[s].on] = "CANCELLED"]
  /\ UNCHANGED <<member, active, offered, expired, granted, raced>>

CommitAccept(s) ==
  /\ Commit(s, "accept")
  /\ WriteMember(tx[s])
  /\ invitation' = [invitation EXCEPT ![tx[s].on] = "ACCEPTED"]
  /\ granted' = [granted EXCEPT ![tx[s].on] = @ + 1]
  /\ UNCHANGED <<offered, expired, raced>>

\* expires_at passes.  No operation writes the status EXPIRED.
Expire(i) ==
  /\ invitation[i] = "PENDING" /\ i \notin expired
  /\ expired' = expired \cup {i}
  /\ UNCHANGED <<rows, tx, granted, raced>>

-----------------------------------------------------------------------------
Request(s) ==
  \/ \E u, v \in Users, role \in Grants \cup {None},
        status \in {"ACTIVE", "INACTIVE", "KEEP"}:
       UpdateMember(s, u, v, role, status)
  \/ \E u \in Users, i \in Invitations:
       CancelInvitation(s, u, i) \/ \E role \in Grants: InviteMember(s, u, i, role)
  \/ \E i \in Invitations: AcceptInvitation(s, i)

Statement(s) == Execute(s) \/ LockInvitation(s) \/ UpsertMembership(s)

CommitAny(s) ==
  CommitUpdate(s) \/ CommitInvite(s) \/ CommitCancel(s) \/ CommitAccept(s)

Next ==
  \/ \E s \in Sessions: Request(s) \/ Statement(s) \/ CommitAny(s) \/ Fail(s)
  \/ \E i \in Invitations: Expire(i)

Spec == Init /\ [][Next]_vars

-----------------------------------------------------------------------------
(***************************************************************************)
(* Properties.                                                             *)
(***************************************************************************)

\* An organization loses its last active ORG_ADMIN in one way only: two
\* removals, each by a request whose trigger saw the other administrator,
\* were uncommitted at the same time.
AdminLostOnlyByRace == raced \/ \E u \in Users: Admin(u)

\* Invitations are single use: an invitation has given one membership when
\* it is ACCEPTED and none before, nor ever once it is CANCELLED, although
\* acceptances and cancellations of it overlap.
SingleUse ==
  \A i \in Invitations:
    granted[i] = IF invitation[i] = "ACCEPTED" THEN 1 ELSE 0

\* The same as a protocol: invitations are one-time grants (OneTimeGrant).  An
\* invitation that was accepted or cancelled is never pending again, and only
\* a pending one gives a membership, one.
GrantState ==
  [none |-> "none", PENDING |-> "offered", ACCEPTED |-> "taken",
   CANCELLED |-> "withdrawn"]

InvitationGrants ==
  INSTANCE OneTimeGrant
    WITH Items <- Invitations, Gifts <- {1},
         state <- [i \in Invitations |-> GrantState[invitation[i]]],
         given <- [i \in Invitations |-> 1..granted[i]]

InvitationPromise == InvitationGrants!Spec

\* Nobody leaves the organization by its own request, not even an
\* administrator who is one of several: a membership is deactivated by
\* somebody else's.
NoSelfDeactivation ==
  [][\A s \in Sessions, u \in Users:
       u \in active /\ u \notin active' /\ tx'[s] # tx[s] => tx[s].by # u]_vars

\* "Organization must retain at least one active ORG_ADMIN": the message of
\* enforce_membership_admin_safety, which the code does not keep.
AdminRetained == \E u \in Users: Admin(u)

=============================================================================
