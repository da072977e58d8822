-------------------------- MODULE MembershipProofs --------------------------
(***************************************************************************)
(* Proofs about Membership, for any users, invitations and sessions.       *)
(*                                                                         *)
(* Neither theorem is inductive.  That an invitation gives one membership  *)
(* rests on the row lock an acceptance holds from its check to its commit; *)
(* that the last administrator is lost only by a race rests on what a      *)
(* removal's trigger saw still being there unless another removal is       *)
(* written.                                                                *)
(***************************************************************************)
EXTENDS Membership, TLAPS

\* The row locks on memberships: two written transactions, two rows.
RowLocks ==
  \A s, t \in Sessions:
    /\ tx[s].stage = "written" /\ WritesMember(tx[s])
    /\ tx[t].stage = "written" /\ WritesMember(tx[t])
    /\ Person(tx[s]) = Person(tx[t])
    => s = t

\* The row locks on invitations, and what their holders found there.
InvitationLocks ==
  \A s, t \in Sessions:
    /\ HoldsInvitation(tx[s]) /\ HoldsInvitation(tx[t])
    /\ tx[s].on = tx[t].on
    => s = t

HeldPending ==
  \A s \in Sessions:
    HoldsInvitation(tx[s]) => invitation[tx[s].on] = "PENDING"

\* An invitation being issued has an id of its own.
Issues(r) == r.stage # "idle" /\ r.op = "invite"

NewIds ==
  \A s \in Sessions: Issues(tx[s]) =>
    /\ invitation[tx[s].on] = "none"
    /\ \A t \in Sessions: Issues(tx[t]) /\ tx[t].on = tx[s].on => s = t

\* A removal that has been written and not yet committed.
Removal(s) == tx[s].stage = "written" /\ RemovesAdmin(tx[s])

\* Without a race there is one removal at most, and the administrator its
\* trigger saw is still one.
AdminKept ==
  \/ raced
  \/ /\ \E u \in Users: Admin(u)
     /\ \A s, t \in Sessions: Removal(s) /\ Removal(t) => s = t
     /\ \A s \in Sessions:
          Removal(s) => \E u \in Users \ {Person(tx[s])}: Admin(u)

\* A transaction that writes the membership of its own user.
OwnMembership(r) ==
  \/ r.op = "updateMember" /\ r.on = r.by /\ r.stage = "written"
  \/ r.op = "accept" /\ r.stage \in {"locked", "written"}

\* Nobody has written its own deactivation.
SelfKept ==
  \A s \in Sessions: OwnMembership(tx[s]) => tx[s].status # "INACTIVE"

Invitational == InvitationLocks /\ HeldPending /\ NewIds /\ SingleUse

Administered == RowLocks /\ AdminKept

IInv == TypeOK /\ Invitational /\ Administered /\ SelfKept

-----------------------------------------------------------------------------
(* The shapes of a step: it opens a transaction, ends one without a write, *)
(* takes one forward, or lets time pass.                                   *)

Opens(s, r) ==
  /\ tx[s].stage = "idle"
  /\ r \in Transaction /\ r.stage = "checked" /\ WellTargeted(r)
  /\ r.op = "invite" =>
       invitation[r.on] = "none" /\ \A t \in Sessions: tx[t].on # r.on
  /\ tx' = [tx EXCEPT ![s] = r]
  /\ UNCHANGED <<rows, expired, granted, raced>>

LEMMA RequestOpens ==
  ASSUME TypeOK, NEW s \in Sessions, Request(s)
  PROVE  \E r: Opens(s, r)
<1> USE DEF Begin, Opens, Transaction, Operations, Stages, WellTargeted
<1>0. Grants \subseteq Roles
  BY GrantsAssumption DEF AssignableRoles
<1>1. ASSUME NEW u \in Users, NEW v \in Users, NEW role \in Grants \cup {None},
             NEW status \in {"ACTIVE", "INACTIVE", "KEEP"},
             UpdateMember(s, u, v, role, status)
      PROVE  \E r: Opens(s, r)
  BY <1>0, <1>1 DEF UpdateMember
<1>2. ASSUME NEW u \in Users, NEW i \in Invitations, NEW role \in Grants,
             InviteMember(s, u, i, role)
      PROVE  \E r: Opens(s, r)
  BY <1>0, <1>2 DEF InviteMember
<1>3. ASSUME NEW u \in Users, NEW i \in Invitations, CancelInvitation(s, u, i)
      PROVE  \E r: Opens(s, r)
  BY <1>3 DEF CancelInvitation
<1>4. ASSUME NEW i \in Invitations, AcceptInvitation(s, i)
      PROVE  \E r: Opens(s, r)
  BY <1>4, InviteeAssumption DEF AcceptInvitation
<1> QED
  BY <1>1, <1>2, <1>3, <1>4 DEF Request

-----------------------------------------------------------------------------
(* Types.                                                                  *)

LEMMA IdleType == Idle \in Transaction /\ WellTargeted(Idle)
BY DEF Idle, Transaction, Operations, Stages, WellTargeted

LEMMA PersonType ==
  ASSUME NEW r, WellTargeted(r), r.stage # "idle", WritesMember(r)
  PROVE  Person(r) \in Users
BY DEF WellTargeted, WritesMember, Person

LEMMA TypeInit == Init => TypeOK
<1> SUFFICES ASSUME Init PROVE TypeOK
  OBVIOUS
<1>1. tx \in [Sessions -> Transaction] /\ \A s \in Sessions: WellTargeted(tx[s])
  BY IdleType DEF Init
<1>2. member \in [Users -> Roles \cup {None}] /\ active \subseteq Users
  BY InitAssumption DEF Init
<1>3. offered \in [Invitations -> Roles \cup {None}]
  BY DEF Init
<1> QED
  BY <1>1, <1>2, <1>3 DEF Init, TypeOK

LEMMA WriteMemberType ==
  ASSUME TypeOK, NEW s \in Sessions, tx[s].stage = "written",
         WritesMember(tx[s]), WriteMember(tx[s])
  PROVE  /\ member' \in [Users -> Roles \cup {None}]
         /\ active' \subseteq Users
<1>1. Person(tx[s]) \in Users
  BY PersonType DEF TypeOK
<1>2. RoleAfter(tx[s]) \in Roles \cup {None}
  BY <1>1 DEF RoleAfter, TypeOK, Transaction
<1> QED
  BY <1>1, <1>2 DEF WriteMember, TypeOK

LEMMA TypeStep == TypeOK /\ [Next]_vars => TypeOK'
<1> SUFFICES ASSUME TypeOK, [Next]_vars PROVE TypeOK'
  OBVIOUS
<1>1. ASSUME NEW s \in Sessions, Request(s) PROVE TypeOK'
  <2>1. PICK r: Opens(s, r)
    BY <1>1, RequestOpens
  <2> QED
    BY <2>1 DEF Opens, TypeOK, rows
<1>2. ASSUME NEW s \in Sessions, Execute(s) \/ UpsertMembership(s) PROVE TypeOK'
  <2>1. [tx[s] EXCEPT !.stage = "written"] \in Transaction
    BY DEF TypeOK, Transaction, Stages
  <2>2. /\ tx' = [tx EXCEPT ![s].stage = "written"]
        /\ raced' \in BOOLEAN
        /\ UNCHANGED <<rows, expired, granted>>
    BY <1>2 DEF Execute, UpsertMembership, TypeOK
  <2>3. tx[s].stage # "idle"
    BY <1>2 DEF Execute, UpsertMembership
  <2>4. WellTargeted([tx[s] EXCEPT !.stage = "written"])
    BY <2>3 DEF WellTargeted, TypeOK, Transaction
  <2> QED
    BY <2>1, <2>2, <2>4 DEF TypeOK, rows
<1>3. ASSUME NEW s \in Sessions, LockInvitation(s) PROVE TypeOK'
  <2> DEFINE r == [tx[s] EXCEPT !.stage = "locked",
                     !.role = offered[tx[s].on], !.status = "ACTIVE"]
  <2>1. tx[s].on \in Invitations
    BY <1>3 DEF LockInvitation, TypeOK, WellTargeted
  <2>2. r \in Transaction /\ WellTargeted(r)
    BY <1>3, <2>1 DEF LockInvitation, TypeOK, Transaction, Stages, WellTargeted
  <2>3. tx' = [tx EXCEPT ![s] = r] /\ UNCHANGED <<rows, expired, granted, raced>>
    BY <1>3 DEF LockInvitation
  <2> QED
    BY <2>2, <2>3 DEF TypeOK, rows
<1>4. ASSUME NEW s \in Sessions, Fail(s) PROVE TypeOK'
  BY <1>4, IdleType DEF Fail, TypeOK, rows
<1>5. ASSUME NEW s \in Sessions, CommitUpdate(s) PROVE TypeOK'
  BY <1>5, IdleType, WriteMemberType DEF CommitUpdate, Commit, WritesMember, TypeOK
<1>6. ASSUME NEW s \in Sessions, CommitInvite(s) PROVE TypeOK'
  BY <1>6, IdleType DEF CommitInvite, Commit, TypeOK, Transaction
<1>7. ASSUME NEW s \in Sessions, CommitCancel(s) PROVE TypeOK'
  BY <1>7, IdleType DEF CommitCancel, Commit, TypeOK
<1>8. ASSUME NEW s \in Sessions, CommitAccept(s) PROVE TypeOK'
  <2>1. tx[s].on \in Invitations
    BY <1>8 DEF CommitAccept, Commit, TypeOK, WellTargeted
  <2> QED
    BY <1>8, <2>1, IdleType, WriteMemberType
    DEF CommitAccept, Commit, WritesMember, TypeOK
<1>9. ASSUME NEW i \in Invitations, Expire(i) PROVE TypeOK'
  BY <1>9 DEF Expire, TypeOK, rows
<1>10. CASE UNCHANGED vars
  BY <1>10 DEF vars, rows, TypeOK
<1> QED
  BY <1>1, <1>2, <1>3, <1>4, <1>5, <1>6, <1>7, <1>8, <1>9, <1>10
  DEF Next, Statement, CommitAny

-----------------------------------------------------------------------------
(* Invitations.                                                            *)

\* How a step may change one transaction: Ended is back to idle, the others
\* say what it may hold afterwards.
LEMMA Kept ==
  ASSUME TypeOK, NEW s \in Sessions, NEW r, tx' = [tx EXCEPT ![s] = r]
  PROVE  /\ tx'[s] = r
         /\ \A t \in Sessions \ {s}: tx'[t] = tx[t]
BY DEF TypeOK

LEMMA IdleHoldsNothing ==
  ~HoldsInvitation(Idle) /\ ~Issues(Idle) /\ Idle.stage = "idle"
BY DEF HoldsInvitation, Issues, Idle

\* A step of one session that changes no invitation.
LEMMA InvitationUntouched ==
  ASSUME Invitational, NEW s \in Sessions,
         UNCHANGED <<invitation, granted>>,
         \A t \in Sessions \ {s}: tx'[t] = tx[t],
         HoldsInvitation(tx'[s]) =>
           /\ invitation[tx'[s].on] = "PENDING"
           /\ \A t \in Sessions \ {s}:
                HoldsInvitation(tx[t]) => tx[t].on # tx'[s].on,
         Issues(tx'[s]) =>
           /\ invitation[tx'[s].on] = "none"
           /\ \A t \in Sessions \ {s}: Issues(tx[t]) => tx[t].on # tx'[s].on
  PROVE  Invitational'
<1>1. InvitationLocks'
  BY DEF Invitational, InvitationLocks
<1>2. HeldPending'
  BY DEF Invitational, HeldPending
<1>3. NewIds'
  BY DEF Invitational, NewIds
<1>4. SingleUse'
  BY DEF Invitational, SingleUse
<1> QED
  BY <1>1, <1>2, <1>3, <1>4 DEF Invitational

\* A commit that writes the invitation it has issued or locked.
LEMMA InvitationWritten ==
  ASSUME TypeOK, Invitational, NEW s \in Sessions, NEW v,
         v \in {"PENDING", "ACCEPTED", "CANCELLED"},
         tx[s].on \in Invitations,
         Issues(tx[s]) \/ HoldsInvitation(tx[s]),
         tx' = [tx EXCEPT ![s] = Idle],
         invitation' = [invitation EXCEPT ![tx[s].on] = v],
         v = "ACCEPTED" => granted' = [granted EXCEPT ![tx[s].on] = @ + 1],
         v # "ACCEPTED" => granted' = granted
  PROVE  Invitational'
<1>1. /\ tx'[s] = Idle
      /\ \A t \in Sessions \ {s}: tx'[t] = tx[t]
  BY Kept
<1>2. /\ invitation'[tx[s].on] = v
      /\ \A i \in Invitations: i # tx[s].on => invitation'[i] = invitation[i]
  BY DEF TypeOK
<1>3. \A t \in Sessions \ {s}: HoldsInvitation(tx[t]) => tx[t].on # tx[s].on
  BY DEF Invitational, InvitationLocks, HeldPending, NewIds
<1>4. \A t \in Sessions \ {s}: Issues(tx[t]) => tx[t].on # tx[s].on
  BY DEF Invitational, HeldPending, NewIds
<1>5. \A t \in Sessions: HoldsInvitation(tx[t]) => tx[t].on \in Invitations
  BY DEF HoldsInvitation, TypeOK, WellTargeted
<1>6. \A t \in Sessions: Issues(tx[t]) => tx[t].on \in Invitations
  BY DEF Issues, TypeOK, WellTargeted
<1>7. InvitationLocks'
  BY <1>1, IdleHoldsNothing DEF Invitational, InvitationLocks
<1>8. HeldPending'
  BY <1>1, <1>2, <1>3, <1>5, IdleHoldsNothing DEF Invitational, HeldPending
<1>9. NewIds'
  BY <1>1, <1>2, <1>4, <1>6, IdleHoldsNothing DEF Invitational, NewIds
<1>10. SingleUse'
  <2>1. granted[tx[s].on] = 0
    BY DEF Invitational, NewIds, HeldPending, SingleUse
  <2>2. granted'[tx[s].on] = IF v = "ACCEPTED" THEN 1 ELSE 0
    BY <2>1 DEF TypeOK
  <2>3. \A i \in Invitations: i # tx[s].on => granted'[i] = granted[i]
    BY DEF TypeOK
  <2> QED
    BY <1>2, <2>2, <2>3 DEF Invitational, SingleUse
<1> QED
  BY <1>7, <1>8, <1>9, <1>10 DEF Invitational

LEMMA InvitationStep ==
  TypeOK /\ Invitational /\ [Next]_vars => Invitational'
<1> SUFFICES ASSUME TypeOK, Invitational, [Next]_vars PROVE Invitational'
  OBVIOUS
<1>1. ASSUME NEW s \in Sessions, Request(s) PROVE Invitational'
  <2>1. PICK r: Opens(s, r)
    BY <1>1, RequestOpens
  <2>2. ~HoldsInvitation(r)
    BY <2>1 DEF Opens, HoldsInvitation
  <2>3. tx'[s] = r /\ \A t \in Sessions \ {s}: tx'[t] = tx[t]
    BY <2>1, Kept DEF Opens
  <2>4. Issues(r) =>
          invitation[r.on] = "none" /\ \A t \in Sessions: tx[t].on # r.on
    BY <2>1 DEF Opens, Issues
  <2>5. UNCHANGED <<invitation, granted>>
    BY <2>1 DEF Opens, rows
  <2> QED
    BY <2>2, <2>3, <2>4, <2>5, InvitationUntouched
<1>2. ASSUME NEW s \in Sessions, Execute(s) PROVE Invitational'
  <2> DEFINE r == [tx[s] EXCEPT !.stage = "written"]
  <2>1. tx'[s] = r /\ \A t \in Sessions \ {s}: tx'[t] = tx[t]
    BY <1>2, Kept DEF Execute
  <2>2. tx[s].stage = "checked" /\ tx[s].op # "accept" /\ tx[s] \in Transaction
    BY <1>2 DEF Execute, TypeOK
  <2>3. r.op = tx[s].op /\ r.on = tx[s].on /\ r.stage = "written"
    BY <2>2 DEF Transaction
  <2>4. HoldsInvitation(r) =>
          /\ invitation[r.on] = "PENDING"
          /\ \A t \in Sessions \ {s}: HoldsInvitation(tx[t]) => tx[t].on # r.on
    <3>1. HoldsInvitation(r) => tx[s].op = "cancel"
      BY <2>2, <2>3 DEF HoldsInvitation
    <3>2. tx[s].op = "cancel" =>
            /\ invitation[tx[s].on] = "PENDING"
            /\ \A t \in Sessions \ {s}:
                 HoldsInvitation(tx[t]) => tx[t].on # tx[s].on
      BY <1>2, <2>2 DEF Execute, Accepted, Blocked, WaitsFor
    <3> QED
      BY <2>3, <3>1, <3>2
  <2>5. Issues(r) =>
          /\ invitation[r.on] = "none"
          /\ \A t \in Sessions \ {s}: Issues(tx[t]) => tx[t].on # r.on
    <3>1. Issues(r) => Issues(tx[s])
      BY <2>2, <2>3 DEF Issues
    <3> QED
      BY <2>3, <3>1 DEF Invitational, NewIds
  <2>6. UNCHANGED <<invitation, granted>>
    BY <1>2 DEF Execute, rows
  <2> QED
    BY <2>1, <2>4, <2>5, <2>6, InvitationUntouched
<1>3. ASSUME NEW s \in Sessions, LockInvitation(s) PROVE Invitational'
  <2> DEFINE r == [tx[s] EXCEPT !.stage = "locked",
                     !.role = offered[tx[s].on], !.status = "ACTIVE"]
  <2>0. tx' = [tx EXCEPT ![s] = r]
    BY <1>3 DEF LockInvitation
  <2>1. tx'[s] = r /\ \A t \in Sessions \ {s}: tx'[t] = tx[t]
    BY <2>0, Kept
  <2>2. tx[s].stage = "checked" /\ tx[s].op = "accept" /\ tx[s] \in Transaction
    BY <1>3 DEF LockInvitation, TypeOK
  <2>3. r.on = tx[s].on /\ ~Issues(r)
    BY <2>2 DEF Transaction, Issues
  <2>4. /\ invitation[tx[s].on] = "PENDING"
        /\ \A t \in Sessions \ {s}: HoldsInvitation(tx[t]) => tx[t].on # tx[s].on
    BY <1>3, <2>2 DEF LockInvitation, Blocked, WaitsFor, Accepted
  <2>5. UNCHANGED <<invitation, granted>>
    BY <1>3 DEF LockInvitation, rows
  <2> HIDE DEF r
  <2> QED
    BY <2>1, <2>3, <2>4, <2>5, InvitationUntouched
<1>4. ASSUME NEW s \in Sessions, UpsertMembership(s) PROVE Invitational'
  <2> DEFINE r == [tx[s] EXCEPT !.stage = "written"]
  <2>1. tx'[s] = r /\ \A t \in Sessions \ {s}: tx'[t] = tx[t]
    BY <1>4, Kept DEF UpsertMembership
  <2>2. tx[s].stage = "locked" /\ tx[s] \in Transaction
    BY <1>4 DEF UpsertMembership, TypeOK
  <2>3. r.op = tx[s].op /\ r.on = tx[s].on /\ r.stage = "written"
    BY <2>2 DEF Transaction
  <2>4. (Issues(r) => Issues(tx[s])) /\ HoldsInvitation(tx[s])
    BY <2>2, <2>3 DEF Issues, HoldsInvitation, TypeOK, WellTargeted
  <2>5. UNCHANGED <<invitation, granted>>
    BY <1>4 DEF UpsertMembership, rows
  <2>6. /\ invitation[r.on] = "PENDING"
        /\ \A t \in Sessions \ {s}: HoldsInvitation(tx[t]) => tx[t].on # r.on
    BY <2>3, <2>4 DEF Invitational, InvitationLocks, HeldPending
  <2>7. Issues(r) =>
          /\ invitation[r.on] = "none"
          /\ \A t \in Sessions \ {s}: Issues(tx[t]) => tx[t].on # r.on
    BY <2>3, <2>4 DEF Invitational, NewIds
  <2> HIDE DEF r
  <2> QED
    BY <2>1, <2>5, <2>6, <2>7, InvitationUntouched
<1>5. ASSUME NEW s \in Sessions, Fail(s) PROVE Invitational'
  <2>1. tx'[s] = Idle /\ \A t \in Sessions \ {s}: tx'[t] = tx[t]
    BY <1>5, Kept DEF Fail
  <2>2. UNCHANGED <<invitation, granted>>
    BY <1>5 DEF Fail, rows
  <2> QED
    BY <2>1, <2>2, IdleHoldsNothing, InvitationUntouched
<1>6. ASSUME NEW s \in Sessions, CommitUpdate(s) PROVE Invitational'
  <2>1. tx'[s] = Idle /\ \A t \in Sessions \ {s}: tx'[t] = tx[t]
    BY <1>6, Kept DEF CommitUpdate, Commit
  <2>2. UNCHANGED <<invitation, granted>>
    BY <1>6 DEF CommitUpdate
  <2> QED
    BY <2>1, <2>2, IdleHoldsNothing, InvitationUntouched
<1>7. ASSUME NEW s \in Sessions, CommitInvite(s) PROVE Invitational'
  <2>1. Issues(tx[s]) /\ tx[s].on \in Invitations
    BY <1>7 DEF CommitInvite, Commit, Issues, TypeOK, WellTargeted
  <2> QED
    BY <1>7, <2>1, InvitationWritten DEF CommitInvite, Commit
<1>8. ASSUME NEW s \in Sessions, CommitCancel(s) PROVE Invitational'
  <2>1. HoldsInvitation(tx[s]) /\ tx[s].on \in Invitations
    BY <1>8 DEF CommitCancel, Commit, HoldsInvitation, TypeOK, WellTargeted
  <2> QED
    BY <1>8, <2>1, InvitationWritten DEF CommitCancel, Commit
<1>9. ASSUME NEW s \in Sessions, CommitAccept(s) PROVE Invitational'
  <2>1. HoldsInvitation(tx[s]) /\ tx[s].on \in Invitations
    BY <1>9 DEF CommitAccept, Commit, HoldsInvitation, TypeOK, WellTargeted
  <2> QED
    BY <1>9, <2>1, InvitationWritten DEF CommitAccept, Commit
<1>10. CASE UNCHANGED <<invitation, granted, tx>>
  BY <1>10 DEF Invitational, InvitationLocks, HeldPending, NewIds, SingleUse
<1>11. ASSUME NEW i \in Invitations, Expire(i)
       PROVE  UNCHANGED <<invitation, granted, tx>>
  BY <1>11 DEF Expire, rows
<1>12. vars' = vars => UNCHANGED <<invitation, granted, tx>>
  BY DEF vars, rows
<1> QED
  BY <1>1, <1>2, <1>3, <1>4, <1>5, <1>6, <1>7, <1>8, <1>9, <1>10, <1>11, <1>12
  DEF Next, Statement, CommitAny

-----------------------------------------------------------------------------
(* The last administrator.                                                 *)

Writer(r) == r.stage = "written" /\ WritesMember(r)

\* A step of one session that writes no membership yet.
LEMMA AdminSteady ==
  ASSUME Administered, NEW s \in Sessions,
         UNCHANGED <<member, active>>, raced => raced',
         \A t \in Sessions \ {s}: tx'[t] = tx[t],
         Writer(tx'[s]) =>
           \A t \in Sessions \ {s}: Writer(tx[t]) => Person(tx[t]) # Person(tx'[s]),
         Removal(s)' =>
           \/ raced'
           \/ /\ \A t \in Sessions \ {s}: ~Removal(t)
              /\ \E u \in Users \ {Person(tx'[s])}: Admin(u)
  PROVE  Administered'
<1>1. RowLocks'
  BY DEF Administered, RowLocks, Writer
<1>2. \A u: Admin(u)' <=> Admin(u)
  BY DEF Admin
<1>3. \A t \in Sessions \ {s}: Removal(t)' <=> Removal(t)
  BY DEF Removal, RemovesAdmin, Admin, Person, RoleAfter, ActiveAfter, WritesMember
<1>4. CASE raced'
  BY <1>1, <1>4 DEF Administered, AdminKept
<1>5. CASE ~raced'
  <2>1. /\ \E u \in Users: Admin(u)'
        /\ \A t1, t2 \in Sessions: Removal(t1)' /\ Removal(t2)' => t1 = t2
    BY <1>2, <1>3, <1>5 DEF Administered, AdminKept
  <2>2. ASSUME NEW t \in Sessions, Removal(t)'
        PROVE  \E u \in Users \ {Person(tx'[t])}: Admin(u)'
    <3>1. CASE t = s
      BY <1>2, <1>5, <2>2, <3>1
    <3>2. CASE t # s
      BY <1>2, <1>3, <1>5, <2>2, <3>2 DEF Administered, AdminKept
    <3> QED
      BY <3>1, <3>2
  <2> QED
    BY <1>1, <2>1, <2>2 DEF Administered, AdminKept
<1> QED
  BY <1>4, <1>5

\* The commit of a membership row.
LEMMA AdminWritten ==
  ASSUME TypeOK, Administered, NEW s \in Sessions, Writer(tx[s]),
         WriteMember(tx[s]), tx' = [tx EXCEPT ![s] = Idle], UNCHANGED raced
  PROVE  Administered'
<1>1. PICK p \in Users: p = Person(tx[s])
  BY PersonType DEF Writer, TypeOK
<1>2. tx'[s] = Idle /\ \A t \in Sessions \ {s}: tx'[t] = tx[t]
  BY Kept
<1>3. ~Writer(Idle) /\ Idle.stage # "written"
  BY DEF Writer, Idle
<1>4. RowLocks'
  BY <1>2, <1>3 DEF Administered, RowLocks, Writer
<1>5. /\ \A u \in Users: u # p => member'[u] = member[u] /\ (u \in active' <=> u \in active)
      /\ member'[p] = RoleAfter(tx[s]) /\ (p \in active' <=> ActiveAfter(tx[s]))
  BY <1>1 DEF WriteMember, TypeOK
<1>6. \A u \in Users: u # p => (Admin(u)' <=> Admin(u))
  BY <1>5 DEF Admin
<1>7. Admin(p) /\ ~Admin(p)' => Removal(s)
  BY <1>1, <1>5 DEF Removal, RemovesAdmin, Writer, Admin
<1>8. \A t \in Sessions \ {s}: Writer(tx[t]) => Person(tx[t]) # p /\ Person(tx[t]) \in Users
  BY <1>1, PersonType DEF Administered, RowLocks, Writer, TypeOK
<1>9. ASSUME NEW t \in Sessions \ {s} PROVE Removal(t)' <=> Removal(t)
  <2>1. CASE ~Writer(tx[t])
    BY <1>2, <2>1 DEF Removal, RemovesAdmin, Writer
  <2>2. CASE Writer(tx[t])
    <3>1. PICK q \in Users: q = Person(tx[t]) /\ q # p
      BY <1>8, <2>2
    <3>2. (q \in active' <=> q \in active) /\ member'[q] = member[q]
      BY <1>5, <3>1
    <3> QED
      BY <1>2, <3>1, <3>2
      DEF Removal, RemovesAdmin, Admin, RoleAfter, ActiveAfter
  <2> QED
    BY <2>1, <2>2
<1>10. ~Removal(s)'
  BY <1>2, <1>3 DEF Removal
<1>11. CASE raced
  BY <1>4, <1>11 DEF Administered, AdminKept
<1>12. CASE ~raced
  <2>1. \E u \in Users: Admin(u)'
    <3>1. CASE Removal(s)
      BY <1>1, <1>6, <1>12, <3>1 DEF Administered, AdminKept
    <3>2. CASE ~Removal(s)
      BY <1>6, <1>7, <1>12, <3>2 DEF Administered, AdminKept
    <3> QED
      BY <3>1, <3>2
  <2>2. \A t1, t2 \in Sessions: Removal(t1)' /\ Removal(t2)' => t1 = t2
    BY <1>9, <1>10, <1>12 DEF Administered, AdminKept
  <2>3. ASSUME NEW t \in Sessions, Removal(t)'
        PROVE  \E u \in Users \ {Person(tx'[t])}: Admin(u)'
    <3>1. t # s /\ Removal(t)
      BY <1>9, <1>10, <2>3
    <3>2. ~Removal(s)
      BY <1>12, <3>1 DEF Administered, AdminKept
    <3>3. PICK u \in Users \ {Person(tx[t])}: Admin(u)
      BY <1>12, <3>1 DEF Administered, AdminKept
    <3>4. Admin(u)'
      BY <1>6, <1>7, <3>2, <3>3
    <3> QED
      BY <1>2, <3>1, <3>3, <3>4
  <2> QED
    BY <1>4, <1>12, <2>1, <2>2, <2>3 DEF Administered, AdminKept
<1> QED
  BY <1>11, <1>12

\* A statement that has got its row lock and its trigger's consent.
LEMMA StatementAdmin ==
  ASSUME TypeOK, Administered, NEW s \in Sessions,
         tx[s].stage \in {"checked", "locked"},
         tx[s].stage = "checked" => tx[s].op # "accept",
         ~Blocked(s),
         tx[s].op \in {"updateMember", "accept"} => AdminSafety(tx[s]),
         tx' = [tx EXCEPT ![s].stage = "written"],
         raced' = (raced \/ Races(s)),
         UNCHANGED <<member, active>>
  PROVE  Administered'
<1> DEFINE r == [tx[s] EXCEPT !.stage = "written"]
<1>1. tx'[s] = r /\ \A t \in Sessions \ {s}: tx'[t] = tx[t]
  BY Kept
<1>2. /\ r.stage = "written" /\ r.op = tx[s].op /\ r.by = tx[s].by
      /\ r.on = tx[s].on /\ r.role = tx[s].role /\ r.status = tx[s].status
  BY DEF TypeOK, Transaction
<1> HIDE DEF r
<1>3. Person(r) = Person(tx[s]) /\ (WritesMember(r) <=> WritesMember(tx[s]))
  BY <1>2 DEF Person, WritesMember
<1>4. RemovesAdmin(r) <=> RemovesAdmin(tx[s])
  BY <1>2, <1>3 DEF RemovesAdmin, RoleAfter, ActiveAfter
<1>5. Writer(r) =>
        \A t \in Sessions \ {s}: Writer(tx[t]) => Person(tx[t]) # Person(r)
  <2> SUFFICES ASSUME Writer(r), NEW t \in Sessions \ {s}, Writer(tx[t])
               PROVE  Person(tx[t]) # Person(r)
    OBVIOUS
  <2>1. ~WaitsFor(tx[s], tx[t])
    BY DEF Blocked
  <2>2. tx[s].stage = "locked" \/ tx[s].op = "updateMember"
    BY <1>2 DEF Writer, WritesMember
  <2> QED
    BY <1>3, <2>1, <2>2 DEF WaitsFor, Writer
<1>6. Removal(s)' => RemovesAdmin(tx[s])
  BY <1>1, <1>4 DEF Removal, RemovesAdmin, Admin, RoleAfter, ActiveAfter
<1>7. Removal(s)' =>
        \/ raced'
        \/ /\ \A t \in Sessions \ {s}: ~Removal(t)
           /\ \E u \in Users \ {Person(tx'[s])}: Admin(u)
  <2> SUFFICES ASSUME RemovesAdmin(tx[s]), ~raced'
               PROVE  /\ \A t \in Sessions \ {s}: ~Removal(t)
                      /\ \E u \in Users \ {Person(tx[s])}: Admin(u)
    BY <1>1, <1>3, <1>6
  <2>1. \A t \in Sessions \ {s}: ~Removal(t)
    BY DEF Races, Removal
  <2>2. AdminSafety(tx[s])
    BY DEF RemovesAdmin, WritesMember
  <2> QED
    BY <2>1, <2>2 DEF AdminSafety
<1> QED
  BY <1>1, <1>5, <1>7, AdminSteady

LEMMA AdminStep ==
  TypeOK /\ Administered /\ [Next]_vars => Administered'
<1> SUFFICES ASSUME TypeOK, Administered, [Next]_vars PROVE Administered'
  OBVIOUS
<1>1. ASSUME NEW s \in Sessions, NEW r, tx' = [tx EXCEPT ![s] = r],
             r.stage # "written" \/ ~WritesMember(r),
             UNCHANGED <<member, active, raced>>
      PROVE  Administered'
  <2>1. tx'[s] = r /\ \A t \in Sessions \ {s}: tx'[t] = tx[t]
    BY <1>1, Kept
  <2>2. ~Writer(tx'[s]) /\ ~Removal(s)'
    BY <1>1, <2>1 DEF Writer, Removal, RemovesAdmin
  <2> QED
    BY <1>1, <2>1, <2>2, AdminSteady
<1>2. ASSUME NEW s \in Sessions, Request(s) PROVE Administered'
  <2>1. PICK r: Opens(s, r)
    BY <1>2, RequestOpens
  <2> QED
    BY <1>1, <2>1 DEF Opens, rows
<1>3. ASSUME NEW s \in Sessions, Execute(s) PROVE Administered'
  <2>1. tx[s].op \in {"updateMember", "accept"} => AdminSafety(tx[s])
    BY <1>3 DEF Execute, Accepted
  <2> QED
    BY <1>3, <2>1, StatementAdmin DEF Execute, rows
<1>4. ASSUME NEW s \in Sessions, LockInvitation(s) PROVE Administered'
  <2> DEFINE r == [tx[s] EXCEPT !.stage = "locked",
                     !.role = offered[tx[s].on], !.status = "ACTIVE"]
  <2>1. tx' = [tx EXCEPT ![s] = r] /\ UNCHANGED <<member, active, raced>>
    BY <1>4 DEF LockInvitation, rows
  <2>2. r.stage # "written"
    BY DEF TypeOK, Transaction
  <2> QED
    BY <1>1, <2>1, <2>2
<1>5. ASSUME NEW s \in Sessions, UpsertMembership(s) PROVE Administered'
  BY <1>5, StatementAdmin DEF UpsertMembership, rows
<1>6. ASSUME NEW s \in Sessions, Fail(s) PROVE Administered'
  BY <1>1, <1>6, IdleHoldsNothing DEF Fail, rows
<1>7. ASSUME NEW s \in Sessions, CommitUpdate(s) \/ CommitAccept(s)
      PROVE  Administered'
  BY <1>7, AdminWritten
  DEF CommitUpdate, CommitAccept, Commit, Writer, WritesMember
<1>8. ASSUME NEW s \in Sessions, CommitInvite(s) \/ CommitCancel(s)
      PROVE  Administered'
  BY <1>1, <1>8, IdleHoldsNothing DEF CommitInvite, CommitCancel, Commit
<1>9. CASE UNCHANGED <<member, active, raced, tx>>
  BY <1>9
  DEF Administered, RowLocks, AdminKept, Removal, RemovesAdmin, Admin,
      RoleAfter, ActiveAfter, Person, WritesMember
<1>10. ASSUME NEW i \in Invitations, Expire(i)
       PROVE  UNCHANGED <<member, active, raced, tx>>
  BY <1>10 DEF Expire, rows
<1>11. vars' = vars => UNCHANGED <<member, active, raced, tx>>
  BY DEF vars, rows
<1> QED
  BY <1>2, <1>3, <1>4, <1>5, <1>6, <1>7, <1>8, <1>9, <1>10, <1>11
  DEF Next, Statement, CommitAny

LEMMA SelfStep == TypeOK /\ SelfKept /\ [Next]_vars => SelfKept'
<1> SUFFICES ASSUME TypeOK, SelfKept, [Next]_vars PROVE SelfKept'
  OBVIOUS
<1>1. ASSUME NEW s \in Sessions, NEW r, tx' = [tx EXCEPT ![s] = r],
             OwnMembership(r) => r.status # "INACTIVE"
      PROVE  SelfKept'
  BY <1>1, Kept DEF SelfKept
<1>2. ASSUME NEW s \in Sessions, Request(s) PROVE SelfKept'
  BY <1>1, <1>2, RequestOpens DEF Opens, OwnMembership
<1>3. ASSUME NEW s \in Sessions, Execute(s) PROVE SelfKept'
  <2> DEFINE r == [tx[s] EXCEPT !.stage = "written"]
  <2>1. /\ r.op = tx[s].op /\ r.on = tx[s].on /\ r.by = tx[s].by
        /\ r.status = tx[s].status
    BY DEF TypeOK, Transaction
  <2>2. tx' = [tx EXCEPT ![s] = r] /\ tx[s].op # "accept"
    BY <1>3 DEF Execute
  <2>3. tx[s].op = "updateMember" => Recorded(tx[s])
    BY <1>3 DEF Execute, Accepted
  <2> HIDE DEF r
  <2> QED
    BY <1>1, <2>1, <2>2, <2>3 DEF Recorded, OwnMembership
<1>4. ASSUME NEW s \in Sessions, LockInvitation(s) PROVE SelfKept'
  <2> DEFINE r == [tx[s] EXCEPT !.stage = "locked",
                     !.role = offered[tx[s].on], !.status = "ACTIVE"]
  <2>1. tx' = [tx EXCEPT ![s] = r] /\ r.status = "ACTIVE"
    BY <1>4 DEF LockInvitation, TypeOK, Transaction
  <2> HIDE DEF r
  <2> QED
    BY <1>1, <2>1
<1>5. ASSUME NEW s \in Sessions, UpsertMembership(s) PROVE SelfKept'
  <2> DEFINE r == [tx[s] EXCEPT !.stage = "written"]
  <2>1. /\ tx' = [tx EXCEPT ![s] = r]
        /\ r.op = tx[s].op /\ r.status = tx[s].status
    BY <1>5 DEF UpsertMembership, TypeOK, Transaction
  <2>2. tx[s].op = "accept" /\ tx[s].stage = "locked"
    BY <1>5 DEF UpsertMembership, TypeOK, WellTargeted
  <2> HIDE DEF r
  <2> QED
    BY <1>1, <2>1, <2>2 DEF SelfKept, OwnMembership
<1>6. ASSUME NEW s \in Sessions, Fail(s) \/ CommitAny(s) PROVE SelfKept'
  <2>1. tx' = [tx EXCEPT ![s] = Idle]
    BY <1>6
    DEF Fail, CommitAny, CommitUpdate, CommitInvite, CommitCancel,
        CommitAccept, Commit
  <2> QED
    BY <1>1, <2>1, IdleHoldsNothing DEF OwnMembership
<1>7. CASE UNCHANGED tx
  BY <1>7 DEF SelfKept
<1>8. ASSUME NEW i \in Invitations, Expire(i) PROVE UNCHANGED tx
  BY <1>8 DEF Expire
<1>9. vars' = vars => UNCHANGED tx
  BY DEF vars
<1> QED
  BY <1>2, <1>3, <1>4, <1>5, <1>6, <1>7, <1>8, <1>9 DEF Next, Statement

-----------------------------------------------------------------------------
LEMMA InitInvariant == Init => IInv
<1> SUFFICES ASSUME Init PROVE IInv
  OBVIOUS
<1>1. \A s \in Sessions: tx[s] = Idle
  BY DEF Init
<1>2. Invitational
  BY <1>1, IdleHoldsNothing
  DEF Init, Invitational, InvitationLocks, HeldPending, NewIds, SingleUse
<1>3. Administered
  BY <1>1, IdleHoldsNothing, InitAssumption, NoneAssumption
  DEF Init, Administered, RowLocks, AdminKept, Removal, Admin, Roles
<1>4. SelfKept
  BY <1>1, IdleHoldsNothing DEF SelfKept, OwnMembership
<1> QED
  BY <1>2, <1>3, <1>4, TypeInit DEF IInv

\* The inductive invariant: what the row locks on memberships and invitations
\* guarantee, and what an uncommitted removal has left of the administrators.
THEOREM Invariance == Spec => []IInv
<1>1. IInv /\ [Next]_vars => IInv'
  BY TypeStep, InvitationStep, AdminStep, SelfStep DEF IInv
<1> QED
  BY <1>1, InitInvariant, PTL DEF Spec

\* Every variable of the membership model keeps its type.
THEOREM TypeCorrect == Spec => []TypeOK
<1>1. IInv => TypeOK
  BY DEF IInv
<1> QED
  BY <1>1, Invariance, PTL

\* The last active ORG_ADMIN is lost only when two removals overlap.
THEOREM AdminLoss == Spec => []AdminLostOnlyByRace
<1>1. IInv => AdminLostOnlyByRace
  BY DEF IInv, Administered, AdminKept, AdminLostOnlyByRace
<1> QED
  BY <1>1, Invariance, PTL

\* An invitation gives one membership at most, and a cancelled one none,
\* however acceptances and cancellations overlap.
THEOREM InvitationsAreSingleUse == Spec => []SingleUse
<1>1. IInv => SingleUse
  BY DEF IInv, Invitational
<1> QED
  BY <1>1, Invariance, PTL

\* A member's own request never deactivates it.
THEOREM MembersStay == Spec => NoSelfDeactivation
<1> DEFINE Stays == \A s \in Sessions, u \in Users:
                      u \in active /\ u \notin active' /\ tx'[s] # tx[s]
                        => tx[s].by # u
<1>1. ASSUME IInv, Next, NEW s \in Sessions, NEW u \in Users,
             u \in active, u \notin active', tx'[s] # tx[s]
      PROVE  tx[s].by # u
  <2>1. PICK t \in Sessions: CommitUpdate(t) \/ CommitAccept(t)
    BY <1>1, RequestOpens
    DEF IInv, Next, Statement, CommitAny, Execute, LockInvitation,
        UpsertMembership, Fail, CommitInvite, CommitCancel, Expire, Opens, rows
  <2>2. s = t
    BY <1>1, <2>1, Kept DEF IInv, CommitUpdate, CommitAccept, Commit
  <2>3. u = Person(tx[s]) /\ ~ActiveAfter(tx[s])
    BY <1>1, <2>1, <2>2 DEF CommitUpdate, CommitAccept, WriteMember
  <2>4. tx[s].status = "INACTIVE"
    BY <1>1, <2>3 DEF ActiveAfter, IInv, TypeOK, Transaction
  <2>5. ~OwnMembership(tx[s])
    BY <1>1, <2>4 DEF IInv, SelfKept
  <2> QED
    BY <2>1, <2>2, <2>3, <2>5
    DEF CommitUpdate, CommitAccept, Commit, OwnMembership, Person
<1>2. IInv /\ [Next]_vars => [Stays]_vars
  BY <1>1
<1> QED
  BY <1>2, Invariance, PTL DEF Spec, NoSelfDeactivation

\* No two administrators are being removed at once.
OneRemoval == \A s, t \in Sessions: Removal(s) /\ Removal(t) => s = t

LEMMA NoRace ==
  ASSUME IInv, ~raced, [Next]_vars, OneRemoval'
  PROVE  ~raced'
<1>1. ASSUME NEW s \in Sessions, Execute(s) \/ UpsertMembership(s), Races(s)
      PROVE  FALSE
  <2>1. PICK r: r = [tx[s] EXCEPT !.stage = "written"]
    OBVIOUS
  <2>2. /\ r.stage = "written" /\ r.op = tx[s].op /\ r.on = tx[s].on
        /\ r.by = tx[s].by /\ r.role = tx[s].role /\ r.status = tx[s].status
    BY <2>1 DEF IInv, TypeOK, Transaction
  <2>3. /\ tx'[s] = r /\ \A t \in Sessions \ {s}: tx'[t] = tx[t]
        /\ UNCHANGED <<member, active>>
    BY <1>1, <2>1 DEF Execute, UpsertMembership, rows, IInv, TypeOK
  <2>4. Removal(s)'
    BY <1>1, <2>2, <2>3
    DEF Races, Removal, RemovesAdmin, WritesMember, Person, RoleAfter,
        ActiveAfter, Admin
  <2>5. PICK t \in Sessions \ {s}: Removal(t)
    BY <1>1 DEF Races, Removal
  <2>6. Removal(t)'
    BY <2>3, <2>5
    DEF Removal, RemovesAdmin, WritesMember, Person, RoleAfter, ActiveAfter,
        Admin
  <2> QED
    BY <2>4, <2>5, <2>6 DEF OneRemoval
<1>2. ASSUME NEW s \in Sessions, Request(s) PROVE raced' = raced
  BY <1>2, RequestOpens DEF Opens, IInv
<1> QED
  BY <1>1, <1>2
  DEF Next, Statement, Execute, UpsertMembership, LockInvitation, Fail,
      CommitAny, CommitUpdate, CommitInvite, CommitCancel, CommitAccept,
      Expire, vars

\* Were the removals of administrators taken one at a time (a lock that the
\* trigger does not take), its message would be true: an organization always
\* retains an active ORG_ADMIN, whatever else overlaps.
THEOREM SerialRemovalsKeepAdmin == Spec /\ []OneRemoval => []AdminRetained
<1>1. Init => ~raced
  BY DEF Init
<1>2. IInv /\ ~raced /\ [Next]_vars /\ OneRemoval' => ~raced'
  BY NoRace
<1>3. IInv /\ ~raced => AdminRetained
  BY DEF IInv, Administered, AdminKept, AdminRetained
<1> QED
  BY <1>1, <1>2, <1>3, Invariance, PTL DEF Spec

-----------------------------------------------------------------------------
(* Invitations implement OneTimeGrant.                                     *)

LEMMA GrantsMove ==
  ASSUME IInv, [Next]_vars
  PROVE  [InvitationGrants!Next]_InvitationGrants!vars
<1> USE DEF InvitationGrants!vars
<1> DEFINE State == [i \in Invitations |-> GrantState[invitation[i]]]
           Given == [i \in Invitations |-> 1..granted[i]]
<1>1. ASSUME UNCHANGED <<invitation, granted>>
      PROVE  State' = State /\ Given' = Given
  BY <1>1
<1>2. ASSUME NEW s \in Sessions, NEW from \in {"none", "PENDING"},
             NEW to \in {"PENDING", "CANCELLED", "ACCEPTED"},
             tx[s].on \in Invitations, invitation[tx[s].on] = from,
             invitation' = [invitation EXCEPT ![tx[s].on] = to]
      PROVE  \E g \in Invitations:
               /\ g = tx[s].on
               /\ InvitationGrants!Moves(g, GrantState[from], GrantState[to])
  <2>1. PICK g \in Invitations: g = tx[s].on
    BY <1>2
  <2>2. \A i \in Invitations:
          invitation'[i] = IF i = g THEN to ELSE invitation[i]
    BY <1>2, <2>1 DEF IInv, TypeOK
  <2>3. State' = [State EXCEPT ![g] = GrantState[to]]
    <3>1. \A i \in Invitations: GrantState[invitation'[i]] =
            IF i = g THEN GrantState[to] ELSE GrantState[invitation[i]]
      BY <2>2
    <3> QED BY <3>1
  <2>4. State[g] = GrantState[from]
    BY <1>2, <2>1
  <2> QED
    BY <2>1, <2>3, <2>4 DEF InvitationGrants!Moves
<1>3. ASSUME NEW s \in Sessions, CommitInvite(s)
      PROVE  InvitationGrants!Next
  <2>1. /\ tx[s].on \in Invitations /\ invitation[tx[s].on] = "none"
        /\ invitation' = [invitation EXCEPT ![tx[s].on] = "PENDING"]
        /\ UNCHANGED granted
    BY <1>3
    DEF CommitInvite, Commit, IInv, TypeOK, WellTargeted, Invitational, NewIds,
        Issues
  <2>2. PICK g \in Invitations:
          InvitationGrants!Moves(g, "none", "offered")
    BY <1>2, <2>1 DEF GrantState
  <2>3. InvitationGrants!Offer(g)
    BY <2>1, <2>2 DEF InvitationGrants!Offer
  <2> QED
    BY <2>3 DEF InvitationGrants!Next
<1>4. ASSUME NEW s \in Sessions, CommitCancel(s)
      PROVE  InvitationGrants!Next
  <2>1. /\ tx[s].on \in Invitations /\ invitation[tx[s].on] = "PENDING"
        /\ invitation' = [invitation EXCEPT ![tx[s].on] = "CANCELLED"]
        /\ UNCHANGED granted
    BY <1>4
    DEF CommitCancel, Commit, IInv, TypeOK, WellTargeted, Invitational,
        HeldPending, HoldsInvitation
  <2>2. PICK g \in Invitations:
          InvitationGrants!Moves(g, "offered", "withdrawn")
    BY <1>2, <2>1 DEF GrantState
  <2>3. InvitationGrants!Withdraw(g)
    BY <2>1, <2>2 DEF InvitationGrants!Withdraw
  <2> QED
    BY <2>3 DEF InvitationGrants!Next
<1>5. ASSUME NEW s \in Sessions, CommitAccept(s)
      PROVE  InvitationGrants!Next
  <2>1. /\ tx[s].on \in Invitations /\ invitation[tx[s].on] = "PENDING"
        /\ invitation' = [invitation EXCEPT ![tx[s].on] = "ACCEPTED"]
        /\ granted[tx[s].on] = 0
        /\ granted' = [granted EXCEPT ![tx[s].on] = @ + 1]
    BY <1>5
    DEF CommitAccept, Commit, IInv, TypeOK, WellTargeted, Invitational,
        HeldPending, HoldsInvitation, SingleUse
  <2>2. PICK g \in Invitations:
          /\ g = tx[s].on
          /\ InvitationGrants!Moves(g, "offered", "taken")
    BY <1>2, <2>1 DEF GrantState
  <2>3. Given' = [Given EXCEPT ![g] = {1}]
    <3>1. \A i \in Invitations:
            granted'[i] = IF i = g THEN 1 ELSE granted[i]
      BY <2>1, <2>2 DEF IInv, TypeOK
    <3>2. \A i \in Invitations:
            1..granted'[i] = IF i = g THEN {1} ELSE 1..granted[i]
      <4>1. 1..1 = {1}
        OBVIOUS
      <4> QED BY <3>1, <4>1
    <3> QED BY <3>2
  <2>4. InvitationGrants!Take(g, 1)
    BY <2>2, <2>3 DEF InvitationGrants!Take
  <2> QED
    BY <2>4 DEF InvitationGrants!Next
<1>6. ASSUME NEW s \in Sessions,
             Request(s) \/ Statement(s) \/ CommitUpdate(s) \/ Fail(s)
      PROVE  UNCHANGED <<invitation, granted>>
  BY <1>6, RequestOpens
  DEF Opens, rows, IInv, Statement, Execute, LockInvitation, UpsertMembership,
      CommitUpdate, Fail
<1> QED
  BY <1>1, <1>3, <1>4, <1>5, <1>6 DEF Next, CommitAny, Expire, vars, rows

\* An invitation is a one-time grant: it is offered once, and then gives one
\* membership or is cancelled, never both and never again, whatever
\* acceptances and cancellations overlap.
THEOREM InvitationsAreGrants == Spec => InvitationPromise
<1>1. Init => InvitationGrants!Init
  <2> SUFFICES ASSUME Init PROVE InvitationGrants!Init
    OBVIOUS
  <2>1. \A i \in Invitations:
          GrantState[invitation[i]] = "none" /\ 1..granted[i] = {}
    BY DEF Init, GrantState
  <2> QED
    BY <2>1 DEF InvitationGrants!Init
<1>2. IInv /\ [Next]_vars => [InvitationGrants!Next]_InvitationGrants!vars
  BY GrantsMove
<1> QED
  BY <1>1, <1>2, Invariance, PTL
  DEF Spec, InvitationPromise, InvitationGrants!Spec

=============================================================================
