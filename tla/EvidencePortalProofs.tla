------------------------ MODULE EvidencePortalProofs ------------------------
(***************************************************************************)
(* Proofs about EvidencePortal, for any users, sessions, requests, keys    *)
(* and contents.                                                           *)
(*                                                                         *)
(* The invariant says of a request under way what it has read of its PBC   *)
(* request, of its storage key and of the engagement, and for each either  *)
(* that it still holds, because of a lock, a unique key or a trigger, or   *)
(* that the change is noted.                                               *)
(***************************************************************************)
EXTENDS EvidencePortal, TLAPS

-----------------------------------------------------------------------------
(* The inductive invariant.                                                *)

\* The operations that check for TESTING, and those about one request.
TestingOps ==
  {"create", "complete", "close", "cancel", "createIntent", "finalize",
   "register"}

RequestOps ==
  {"create", "accept", "assign", "complete", "close", "cancel", "respond"}

KeyOps == {"createIntent", "finalize", "register"}

Uploads == {"UPLOAD", "CLIENT_PORTAL_UPLOAD"}

\* Somebody's evidence for a request.
Proven(p, u) ==
  \E k \in Keys: /\ evidence[k].source # "none" /\ evidence[k].on = p
                 /\ evidence[k].uploader = u

\* What a client has read of the request assigned to them.
OfClient(r) ==
  r.by \in Clients =>
    /\ r.op \in {"createIntent", "finalize", "respond"} /\ r.on \in Requests
    /\ request[r.on].assignee = r.by \/ "assignment" \in r.changed
    /\ r.by \in access \/ "access" \in r.changed
    /\ \/ request[r.on].status \notin {"CLOSED", "CANCELLED"}
       \/ "status" \in r.changed

\* What is known of the PBC request of an operation.
OfRequest(r) ==
  /\ r.op \in RequestOps => r.on \in Requests
  /\ r.op = "delete" => r.on = None
  /\ r.op \in {"create", "accept"} => request[r.on] = NoRequest
  /\ r.op = "assign" => request[r.on].status # "none"
  /\ r.op \in {"complete", "cancel"} =>
       request[r.on].status \in {"OPEN", "IN_PROGRESS"}
  /\ r.op = "complete" => Proven(r.on, r.user)
  /\ r.op = "close" => request[r.on].status = "COMPLETED"

\* What is known of its storage key: the intent, which a finalization locks,
\* and the object, which nothing locks.
OfIntent(r) ==
  /\ IF r.op \in KeyOps THEN r.key \in Keys ELSE r.key = None
  /\ r.op = "createIntent" => intent[r.key] = NoIntent
  /\ r.op = "finalize" =>
       /\ intent[r.key].status = "PENDING" /\ r.on = intent[r.key].on
       /\ r.by \in Clients => r.by = intent[r.key].creator

OfObject(r) ==
  /\ r.op = "finalize" /\ r.stage = "checked" =>
       \/ object[r.key] \in Typed \/ "object" \in r.changed
       \/ evidence[r.key] # NoEvidence
  /\ r.op = "finalize" /\ r.stage = "written" =>
       /\ r.sha256 \in Sized
       /\ r.sha256 \in Typed \/ "object" \in r.changed
       /\ object[r.key] \in {r.sha256, None} \/ r.key \in overwritten
  /\ r.op \in {"finalize", "register"} /\ r.stage = "written" =>
       evidence[r.key] = NoEvidence

\* What is known of the engagement.
OfEngagement(r) ==
  /\ r.op \in TestingOps =>
       /\ engagement # "PLANNING"
       /\ r.stage = "written" => engagement # "DELETED"
       /\ engagement \in {"TESTING", "DELETED"} \/ "engagement" \in r.changed
  /\ r.op = "delete" =>
       /\ engagement \in {"PLANNING", "DELETED"} \/ "engagement" \in r.changed
       /\ r.stage = "written" => \A k \in Keys: evidence[k] = NoEvidence

\* What it has to delete is of registered evidence, found after testing began.
OfDeletion(r) ==
  /\ r.left # {} => r.op = "delete" /\ "engagement" \in r.changed
  /\ \A k \in r.left: evidence[k] # NoEvidence

Held(r) ==
  /\ OfClient(r) /\ OfRequest(r) /\ OfIntent(r) /\ OfObject(r)
  /\ OfEngagement(r) /\ OfDeletion(r)
  /\ r.op = "grant" => r.user \in Clients
  /\ r.stage = "emptying" => r.op = "delete"

Pending == \A s \in Sessions: Held(tx[s])

\* Row locks, unique keys and random ids keep two transactions apart.
Apart(q, r) ==
  /\ q.op \in {"complete", "close", "cancel"} /\ q.on = r.on =>
       r.op \notin {"complete", "close", "cancel"} /\ r.stage # "written"
  /\ q.op = "finalize" /\ q.key = r.key => r.op # "finalize"
  /\ q.op \in {"create", "accept"} /\ q.on = r.on =>
       r.op \notin {"create", "accept"}
  /\ q.op = "createIntent" /\ q.key = r.key => r.op # "createIntent"
  /\ q.op \in {"finalize", "register"} /\ q.stage = "written" /\ q.key = r.key =>
       ~(r.op \in {"finalize", "register"} /\ r.stage = "written")
  /\ q.op = "delete" /\ q.stage = "written" /\ r.stage = "written" =>
       r.op \in {"grant", "revoke"}

KeptApart == \A s, t \in Sessions: s # t => Apart(tx[s], tx[t])

WellTyped ==
  /\ TypeOK
  /\ \A s \in Sessions:
       /\ tx[s].stage = "idle" => tx[s] = Idle
       /\ tx[s].stage # "idle" => tx[s].by \in Users

\* Nothing is registered before TESTING, or when the engagement is deleted.
Bare ==
  engagement \in {"PLANNING", "DELETED"} =>
    \A k \in Keys: evidence[k] = NoEvidence

Blank == \A p \in Requests: request[p].status = "none" => request[p] = NoRequest

IInv ==
  /\ WellTyped /\ Pending /\ KeptApart /\ Bare /\ Blank
  /\ CompletedOnEvidence /\ DigestOfObject /\ ClientCredited

-----------------------------------------------------------------------------
(* Requests begin with what they read.                                     *)

LEMMA NoneApart ==
  None \notin Users /\ None \notin Requests /\ None \notin Keys
    /\ None \notin Contents
BY NoneAssumption

LEMMA IdleIs ==
  /\ Idle \in Transaction /\ Idle.stage = "idle" /\ Idle.op = "none"
  /\ Idle.on = None /\ Idle.key = None /\ Idle.by = None /\ Idle.left = {}
  /\ Held(Idle)
BY NoneApart
DEF Idle, Transaction, Held, OfClient, OfRequest, OfIntent, OfObject,
    OfEngagement, OfDeletion, Clients, RequestOps, KeyOps, TestingOps

\* The operations the roles of clients allow, and of nobody else.
LEMMA ClientsOnly ==
  ASSUME NEW u \in Clients, NEW permission,
         HasPermission(RoleOf[u], permission)
  PROVE  permission = "client_portal.pbc.respond"
BY DEF Clients, HasPermission, RolePermissions, Roles

\* A request as it begins.
Asked(r, op, u, p, k, c) ==
  /\ r \in Transaction /\ r.stage = "checked" /\ r.op = op /\ r.by = u
  /\ r.on = p /\ r.key = k /\ r.user = c /\ r.sha256 = None /\ r.changed = {}
  /\ r.left = {}

LEMMA AsksIs ==
  ASSUME NEW op \in Operations, NEW u \in Users,
         NEW p \in Requests \cup {None}, NEW k \in Keys \cup {None},
         NEW c \in Users \cup {None}
  PROVE  /\ Asked(Asks(op, u, p, k), op, u, p, k, None)
         /\ Asked([Asks(op, u, p, k) EXCEPT !.user = c], op, u, p, k, c)
BY DEF Asked, Asks, Idle, Transaction, Operations

\* One transaction moves on; those of others are as they were.
LEMMA OneMoves ==
  ASSUME IInv, NEW s \in Sessions, NEW r \in Transaction, Held(r),
         r.stage = "idle" => r = Idle, r.stage # "idle" => r.by \in Users,
         tx' = [tx EXCEPT ![s] = r], UNCHANGED <<tables, store>>,
         \A t \in Sessions \ {s}: Apart(tx[t], r) /\ Apart(r, tx[t])
  PROVE  IInv'
<1>1. tx \in [Sessions -> Transaction]
  BY DEF IInv, WellTyped, TypeOK
<1>2. \A t \in Sessions: tx'[t] = IF t = s THEN r ELSE tx[t]
  BY <1>1
<1>3. WellTyped'
  <2>1. TypeOK'
    BY <1>1 DEF IInv, WellTyped, TypeOK, tables, store
  <2> QED BY <2>1, <1>2 DEF IInv, WellTyped
<1>4. \A q: Held(q) => Held(q)'
  BY DEF Held, OfClient, OfRequest, OfIntent, OfObject, OfEngagement,
         OfDeletion, Proven,
         tables, store
<1>5. Pending'
  <2> SUFFICES ASSUME NEW t \in Sessions
               PROVE  Held(tx[t])'
    BY DEF Pending
  <2> PICK q: q = tx'[t]
    OBVIOUS
  <2>1. Held(q)
    BY <1>2 DEF IInv, Pending
  <2> QED BY <2>1, <1>4
<1>6. KeptApart'
  <2> SUFFICES ASSUME NEW a \in Sessions, NEW b \in Sessions, a # b
               PROVE  Apart(tx[a], tx[b])'
    BY DEF KeptApart
  <2>1. Apart(tx'[a], tx'[b])
    BY <1>2 DEF IInv, KeptApart
  <2> QED BY <2>1 DEF Apart
<1>7. Bare' /\ Blank' /\ CompletedOnEvidence' /\ DigestOfObject' /\ ClientCredited'
  BY DEF IInv, Bare, Blank, CompletedOnEvidence, DigestOfObject,
         ClientCredited, tables, store
<1> QED BY <1>3, <1>5, <1>6, <1>7 DEF IInv

\* The locks it takes and the ids it chooses are nobody else's.
LEMMA BeginApart ==
  ASSUME NEW s \in Sessions, NEW r, r.stage = "checked",
         r.op \in {"complete", "close", "cancel"} => Unused(s, r.on),
         r.op = "finalize" => IntentFree(s, r.key),
         r.op \in {"create", "accept"} => Fresh(r.on),
         r.op = "createIntent" => Fresh(r.key)
  PROVE  \A t \in Sessions \ {s}: Apart(tx[t], r) /\ Apart(r, tx[t])
<1> SUFFICES ASSUME NEW t \in Sessions \ {s}
             PROVE  Apart(tx[t], r) /\ Apart(r, tx[t])
  OBVIOUS
<1>1. r.op \in {"complete", "close", "cancel"} /\ tx[t].on = r.on =>
        tx[t].op \notin {"complete", "close", "cancel"} /\ tx[t].stage # "written"
  BY DEF Unused, Free, Uses, Locks
<1>2. r.op = "finalize" /\ tx[t].key = r.key => tx[t].op # "finalize"
  BY DEF IntentFree
<1>3. r.op \in {"create", "accept"} => tx[t].on # r.on
  BY DEF Fresh
<1>4. r.op = "createIntent" => tx[t].key # r.key
  BY DEF Fresh
<1> QED BY <1>1, <1>2, <1>3, <1>4 DEF Apart

LEMMA AskKeeps ==
  ASSUME IInv, NEW s \in Sessions, NEW u \in Users, NEW permission,
         NEW r, NEW op, NEW p, NEW k, NEW c,
         Asked(r, op, u, p, k, c), Held(r), Begin(s, u, permission, r),
         op \in {"complete", "close", "cancel"} => Unused(s, p),
         op = "finalize" => IntentFree(s, k),
         op \in {"create", "accept"} => Fresh(p),
         op = "createIntent" => Fresh(k)
  PROVE  IInv'
<1>1. \A t \in Sessions \ {s}: Apart(tx[t], r) /\ Apart(r, tx[t])
  BY BeginApart DEF Asked
<1> QED BY <1>1, OneMoves DEF Asked, Begin

\* Requests of administrators.
LEMMA AdministersKeeps ==
  ASSUME IInv, NEW s \in Sessions, NEW u \in Users, Administers(s, u)
  PROVE  IInv'
<1> USE NoneApart
<1>0. Clients \subseteq Users
  BY DEF Clients
<1>1. ASSUME NEW c \in Clients,
             Begin(s, u, "organization.manage_users",
                   [Asks("grant", u, None, None) EXCEPT !.user = c])
      PROVE  IInv'
  <2> DEFINE r == [Asks("grant", u, None, None) EXCEPT !.user = c]
  <2>1. Asked(r, "grant", u, None, None, c)
    BY <1>0, AsksIs DEF Operations
  <2>2. Begin(s, u, "organization.manage_users", r)
    BY <1>1
  <2> HIDE DEF r
  <2>3. u \notin Clients
    BY <2>2, ClientsOnly DEF Begin
  <2>4. Held(r)
    BY <2>1, <2>3
    DEF Asked, Held, OfClient, OfRequest, OfIntent, OfObject, OfEngagement,
        OfDeletion,
        RequestOps, KeyOps, TestingOps
  <2> QED BY <2>1, <2>2, <2>4, AskKeeps
<1>2. ASSUME NEW c \in access,
             Begin(s, u, "organization.manage_users",
                   [Asks("revoke", u, None, None) EXCEPT !.user = c])
      PROVE  IInv'
  <2> DEFINE r == [Asks("revoke", u, None, None) EXCEPT !.user = c]
  <2>0. c \in Users
    BY <1>0 DEF IInv, WellTyped, TypeOK
  <2>1. Asked(r, "revoke", u, None, None, c)
    BY <2>0, AsksIs DEF Operations
  <2>2. Begin(s, u, "organization.manage_users", r)
    BY <1>2
  <2> HIDE DEF r
  <2>3. u \notin Clients
    BY <2>2, ClientsOnly DEF Begin
  <2>4. Held(r)
    BY <2>1, <2>3
    DEF Asked, Held, OfClient, OfRequest, OfIntent, OfObject, OfEngagement,
        OfDeletion,
        RequestOps, KeyOps, TestingOps
  <2> QED BY <2>1, <2>2, <2>4, AskKeeps
<1>3. ASSUME NEW p \in Requests, NEW c \in Clients, request[p].status # "none",
             Begin(s, u, "workpaper.update",
                   [Asks("assign", u, p, None) EXCEPT !.user = c])
      PROVE  IInv'
  <2> DEFINE r == [Asks("assign", u, p, None) EXCEPT !.user = c]
  <2>1. Asked(r, "assign", u, p, None, c)
    BY <1>0, AsksIs DEF Operations
  <2>2. Begin(s, u, "workpaper.update", r)
    BY <1>3
  <2> HIDE DEF r
  <2>3. u \notin Clients
    BY <2>2, ClientsOnly DEF Begin
  <2>4. Held(r)
    BY <1>3, <2>1, <2>3
    DEF Asked, Held, OfClient, OfRequest, OfIntent, OfObject, OfEngagement,
        OfDeletion,
        RequestOps, KeyOps, TestingOps
  <2> QED BY <2>1, <2>2, <2>4, AskKeeps
<1> QED BY <1>1, <1>2, <1>3
       DEF Administers, GrantClientAccess, RevokeClientAccess,
           AssignPbcToClientUser

\* Requests of the auditors about a PBC request.
LEMMA ExecutesKeeps ==
  ASSUME IInv, NEW s \in Sessions, NEW u \in Users, NEW p \in Requests,
         Executes(s, u, p)
  PROVE  IInv'
<1> USE NoneApart
<1>0. evidence \in [Keys -> Evidence] /\ request \in [Requests -> PbcRequest]
  BY DEF IInv, WellTyped, TypeOK
<1>1. CASE CreatePbcRequest(s, u, p)
  <2> DEFINE r == Asks("create", u, p, None)
  <2>1. Asked(r, "create", u, p, None, None)
    BY AsksIs DEF Operations
  <2>2. /\ engagement = "TESTING" /\ request[p].status = "none" /\ Fresh(p)
        /\ Begin(s, u, "evidence.upload", r)
    BY <1>1 DEF CreatePbcRequest
  <2> HIDE DEF r
  <2>3. u \notin Clients
    BY <2>2, ClientsOnly DEF Begin
  <2>4. request[p] = NoRequest
    BY <2>2 DEF IInv, Blank
  <2>5. Held(r)
    BY <2>1, <2>2, <2>3, <2>4
    DEF Asked, Held, OfClient, OfRequest, OfIntent, OfObject, OfEngagement,
        OfDeletion,
        RequestOps, KeyOps, TestingOps
  <2> QED BY <2>1, <2>2, <2>5, AskKeeps
<1>2. CASE CompletePbcRequest(s, u, p)
  <2>1. PICK k \in Keys:
          /\ evidence[k].source # "none" /\ evidence[k].on = p
          /\ Begin(s, u, "workpaper.update",
                   [Asks("complete", u, p, None)
                      EXCEPT !.user = evidence[k].uploader])
    BY <1>2 DEF CompletePbcRequest
  <2> DEFINE c == evidence[k].uploader
             r == [Asks("complete", u, p, None) EXCEPT !.user = c]
  <2>2. c \in Users \cup {None}
    BY <1>0 DEF Evidence
  <2>3. Asked(r, "complete", u, p, None, c)
    BY <2>2, AsksIs DEF Operations
  <2>4. /\ engagement = "TESTING" /\ request[p].status \in {"OPEN", "IN_PROGRESS"}
        /\ Unused(s, p) /\ Begin(s, u, "workpaper.update", r)
    BY <1>2, <2>1 DEF CompletePbcRequest
  <2>5. Proven(p, c)
    BY <2>1 DEF Proven
  <2> HIDE DEF r, c
  <2>6. u \notin Clients
    BY <2>4, ClientsOnly DEF Begin
  <2>7. Held(r)
    BY <2>3, <2>4, <2>5, <2>6
    DEF Asked, Held, OfClient, OfRequest, OfIntent, OfObject, OfEngagement,
        OfDeletion,
        RequestOps, KeyOps, TestingOps
  <2> QED BY <2>3, <2>4, <2>7, AskKeeps
<1>3. CASE ClosePbcRequest(s, u, p)
  <2> DEFINE r == Asks("close", u, p, None)
  <2>1. Asked(r, "close", u, p, None, None)
    BY AsksIs DEF Operations
  <2>2. /\ engagement = "TESTING" /\ request[p].status = "COMPLETED"
        /\ Unused(s, p) /\ Begin(s, u, "workpaper.review", r)
    BY <1>3 DEF ClosePbcRequest
  <2> HIDE DEF r
  <2>3. u \notin Clients
    BY <2>2, ClientsOnly DEF Begin
  <2>4. Held(r)
    BY <2>1, <2>2, <2>3
    DEF Asked, Held, OfClient, OfRequest, OfIntent, OfObject, OfEngagement,
        OfDeletion,
        RequestOps, KeyOps, TestingOps
  <2> QED BY <2>1, <2>2, <2>4, AskKeeps
<1>4. CASE CancelPbcRequest(s, u, p)
  <2> DEFINE r == Asks("cancel", u, p, None)
  <2>1. Asked(r, "cancel", u, p, None, None)
    BY AsksIs DEF Operations
  <2>2. /\ engagement = "TESTING" /\ request[p].status \in {"OPEN", "IN_PROGRESS"}
        /\ Unused(s, p) /\ Begin(s, u, "evidence.upload", r)
    BY <1>4 DEF CancelPbcRequest
  <2> HIDE DEF r
  <2>3. u \notin Clients
    BY <2>2, ClientsOnly DEF Begin
  <2>4. Held(r)
    BY <2>1, <2>2, <2>3
    DEF Asked, Held, OfClient, OfRequest, OfIntent, OfObject, OfEngagement,
        OfDeletion,
        RequestOps, KeyOps, TestingOps
  <2> QED BY <2>1, <2>2, <2>4, AskKeeps
<1>5. CASE AcceptPrivacyAssuranceCandidate(s, u, p)
  <2> DEFINE r == Asks("accept", u, p, None)
  <2>1. Asked(r, "accept", u, p, None, None)
    BY AsksIs DEF Operations
  <2>2. /\ request[p].status = "none" /\ Fresh(p)
        /\ Begin(s, u, "privacy.assurance.decide", r)
    BY <1>5 DEF AcceptPrivacyAssuranceCandidate
  <2> HIDE DEF r
  <2>3. u \notin Clients
    BY <2>2, ClientsOnly DEF Begin
  <2>4. request[p] = NoRequest
    BY <2>2 DEF IInv, Blank
  <2>5. Held(r)
    BY <2>1, <2>3, <2>4
    DEF Asked, Held, OfClient, OfRequest, OfIntent, OfObject, OfEngagement,
        OfDeletion, RequestOps, KeyOps, TestingOps
  <2> QED BY <2>1, <2>2, <2>5, AskKeeps
<1> QED BY <1>1, <1>2, <1>3, <1>4, <1>5 DEF Executes

\* Uploads and registration by auditors.
LEMMA StoresKeeps ==
  ASSUME IInv, NEW s \in Sessions, NEW u \in Users, NEW k \in Keys,
         Stores(s, u, k)
  PROVE  IInv'
<1> USE NoneApart
<1>0. intent \in [Keys -> Intent]
  BY DEF IInv, WellTyped, TypeOK
<1>1. ASSUME NEW p \in Requests \cup {None},
             CreateEvidenceUploadIntent(s, u, p, k)
      PROVE  IInv'
  <2> DEFINE r == Asks("createIntent", u, p, k)
  <2>1. Asked(r, "createIntent", u, p, k, None)
    BY AsksIs DEF Operations
  <2>2. /\ engagement = "TESTING" /\ intent[k] = NoIntent /\ Fresh(k)
        /\ Begin(s, u, "evidence.upload", r)
    BY <1>1 DEF CreateEvidenceUploadIntent
  <2> HIDE DEF r
  <2>3. u \notin Clients
    BY <2>2, ClientsOnly DEF Begin
  <2>4. Held(r)
    BY <2>1, <2>2, <2>3
    DEF Asked, Held, OfClient, OfRequest, OfIntent, OfObject, OfEngagement,
        OfDeletion,
        RequestOps, KeyOps, TestingOps
  <2> QED BY <2>1, <2>2, <2>4, AskKeeps
<1>2. CASE FinalizeEvidenceUpload(s, u, k)
  <2> DEFINE p == intent[k].on
             r == Asks("finalize", u, p, k)
  <2>1. p \in Requests \cup {None}
    BY <1>0 DEF Intent
  <2>2. Asked(r, "finalize", u, p, k, None)
    BY <2>1, AsksIs DEF Operations
  <2>3. /\ engagement = "TESTING" /\ intent[k].status = "PENDING"
        /\ IntentFree(s, k) /\ object[k] \in Typed
        /\ Begin(s, u, "evidence.upload", r)
    BY <1>2 DEF FinalizeEvidenceUpload, Uploaded
  <2>4. p = intent[k].on
    OBVIOUS
  <2> HIDE DEF r, p
  <2>5. u \notin Clients
    BY <2>3, ClientsOnly DEF Begin
  <2>6. Held(r)
    BY <2>2, <2>3, <2>4, <2>5
    DEF Asked, Held, OfClient, OfRequest, OfIntent, OfObject, OfEngagement,
        OfDeletion,
        RequestOps, KeyOps, TestingOps
  <2> QED BY <2>2, <2>3, <2>6, AskKeeps
<1>3. ASSUME NEW p \in Requests \cup {None}, RegisterEvidence(s, u, p, k)
      PROVE  IInv'
  <2> DEFINE r == Asks("register", u, p, k)
  <2>1. Asked(r, "register", u, p, k, None)
    BY AsksIs DEF Operations
  <2>2. engagement = "TESTING" /\ Begin(s, u, "evidence.upload", r)
    BY <1>3 DEF RegisterEvidence
  <2> HIDE DEF r
  <2>3. u \notin Clients
    BY <2>2, ClientsOnly DEF Begin
  <2>4. Held(r)
    BY <2>1, <2>2, <2>3
    DEF Asked, Held, OfClient, OfRequest, OfIntent, OfObject, OfEngagement,
        OfDeletion,
        RequestOps, KeyOps, TestingOps
  <2> QED BY <2>1, <2>2, <2>4, AskKeeps
<1> QED BY <1>1, <1>2, <1>3 DEF Stores

\* Requests of clients: assigned, with access, and open when they begin.
LEMMA PortalKeeps ==
  ASSUME IInv, NEW s \in Sessions, NEW u \in Users, NEW k \in Keys,
         Portal(s, u, k)
  PROVE  IInv'
<1> USE NoneApart
<1>0. intent \in [Keys -> Intent]
  BY DEF IInv, WellTyped, TypeOK
<1>1. ASSUME NEW p \in Requests, CreateClientEvidenceUploadIntent(s, u, p, k)
      PROVE  IInv'
  <2> DEFINE r == Asks("createIntent", u, p, k)
  <2>1. Asked(r, "createIntent", u, p, k, None)
    BY AsksIs DEF Operations
  <2>2. /\ engagement = "TESTING" /\ intent[k] = NoIntent /\ Fresh(k)
        /\ AssignedOpen(u, p) /\ Begin(s, u, "client_portal.pbc.respond", r)
    BY <1>1 DEF CreateClientEvidenceUploadIntent
  <2> HIDE DEF r
  <2>3. Held(r)
    BY <2>1, <2>2
    DEF Asked, Held, OfClient, OfRequest, OfIntent, OfObject, OfEngagement,
        OfDeletion,
        RequestOps, KeyOps, TestingOps, AssignedOpen
  <2> QED BY <2>1, <2>2, <2>3, AskKeeps
<1>2. CASE FinalizeClientEvidenceUpload(s, u, k)
  <2> DEFINE p == intent[k].on
             r == Asks("finalize", u, p, k)
  <2>1. p \in Requests
    BY <1>0, <1>2 DEF Intent, FinalizeClientEvidenceUpload
  <2>2. Asked(r, "finalize", u, p, k, None)
    BY <2>1, AsksIs DEF Operations
  <2>3. /\ engagement = "TESTING" /\ intent[k].status = "PENDING"
        /\ intent[k].creator = u /\ AssignedOpen(u, p)
        /\ IntentFree(s, k) /\ object[k] \in Typed
        /\ Begin(s, u, "client_portal.pbc.respond", r)
    BY <1>2 DEF FinalizeClientEvidenceUpload, Uploaded
  <2>4. p = intent[k].on
    OBVIOUS
  <2> HIDE DEF r, p
  <2>5. Held(r)
    BY <2>1, <2>2, <2>3, <2>4
    DEF Asked, Held, OfClient, OfRequest, OfIntent, OfObject, OfEngagement,
        OfDeletion,
        RequestOps, KeyOps, TestingOps, AssignedOpen
  <2> QED BY <2>2, <2>3, <2>5, AskKeeps
<1>3. ASSUME NEW p \in Requests, SubmitPbcResponse(s, u, p)
      PROVE  IInv'
  <2> DEFINE r == Asks("respond", u, p, None)
  <2>1. Asked(r, "respond", u, p, None, None)
    BY AsksIs DEF Operations
  <2>2. AssignedOpen(u, p) /\ Begin(s, u, "client_portal.pbc.respond", r)
    BY <1>3 DEF SubmitPbcResponse
  <2> HIDE DEF r
  <2>3. Held(r)
    BY <2>1, <2>2
    DEF Asked, Held, OfClient, OfRequest, OfIntent, OfObject, OfEngagement,
        OfDeletion,
        RequestOps, KeyOps, TestingOps, AssignedOpen
  <2> QED BY <2>1, <2>2, <2>3, AskKeeps
<1> QED BY <1>1, <1>2, <1>3 DEF Portal

LEMMA RequestKeeps ==
  ASSUME IInv, NEW s \in Sessions, Request(s)
  PROVE  IInv'
<1>1. ASSUME NEW u \in Users, DeletePlanningEngagement(s, u)
      PROVE  IInv'
  <2> USE NoneApart
  <2> DEFINE r == Asks("delete", u, None, None)
  <2>1. Asked(r, "delete", u, None, None, None)
    BY AsksIs DEF Operations
  <2>2. engagement = "PLANNING" /\ Begin(s, u, "engagement.update", r)
    BY <1>1 DEF DeletePlanningEngagement
  <2> HIDE DEF r
  <2>3. u \notin Clients
    BY <2>2, ClientsOnly DEF Begin
  <2>4. Held(r)
    BY <2>1, <2>2, <2>3
    DEF Asked, Held, OfClient, OfRequest, OfIntent, OfObject, OfEngagement,
        OfDeletion,
        RequestOps, KeyOps, TestingOps
  <2> QED BY <2>1, <2>2, <2>4, AskKeeps
<1> QED BY <1>1, AdministersKeeps, ExecutesKeeps, StoresKeeps, PortalKeeps
       DEF Request

-----------------------------------------------------------------------------
(* Statements.                                                             *)

LEMMA FailKeeps ==
  ASSUME IInv, NEW s \in Sessions, Fail(s)
  PROVE  IInv'
<1>1. \A t \in Sessions \ {s}: Apart(tx[t], Idle) /\ Apart(Idle, tx[t])
  BY IdleIs DEF Apart
<1> QED BY <1>1, IdleIs, OneMoves DEF Fail

\* A statement waits for the locks of others and is refused by its triggers.
LEMMA ExecuteApart ==
  ASSUME IInv, NEW s \in Sessions, NEW r \in Transaction,
         Execute(s), tx'[s] = r,
         r.op = tx[s].op, r.on = tx[s].on, r.key = tx[s].key
  PROVE  \A t \in Sessions \ {s}: Apart(tx[t], r) /\ Apart(r, tx[t])
<1> SUFFICES ASSUME NEW t \in Sessions \ {s}
             PROVE  Apart(tx[t], r) /\ Apart(r, tx[t])
  OBVIOUS
<1>1. Apart(tx[t], tx[s]) /\ Apart(tx[s], tx[t])
  BY DEF IInv, KeptApart
<1>2. Held(tx[s]) /\ Held(tx[t])
  BY DEF IInv, Pending
<1>3. r.op # "delete" /\ ~Waits(s)
  BY DEF Execute
<1>4. tx[t].op \in {"complete", "close", "cancel"} => tx[t].on # r.on
  <2>1. tx[t].op \in {"complete", "close", "cancel"} => tx[t].on # None
    BY <1>2, NoneApart DEF Held, OfRequest, RequestOps
  <2> QED BY <1>3, <2>1 DEF Waits, Obstructs, Locks
<1>5. r.op \in {"finalize", "register"} => ~Inserts(t, r.key)
  BY <1>3 DEF Waits, Obstructs
<1>6. r.op = "createIntent" /\ tx[t].op = "finalize" => tx[t].key # r.key
  BY <1>2 DEF Held, OfIntent, NoIntent, KeyOps
<1>7. r.op \in {"finalize", "register"} /\ tx[t].key = r.key =>
        ~(tx[t].op \in {"finalize", "register"} /\ tx[t].stage = "written")
  BY <1>5 DEF Inserts
<1>8. tx[t].stage = "written" /\ tx[t].op = "delete" =>
        r.op \in {"grant", "revoke"}
  BY <1>3 DEF Waits, Obstructs
<1> QED BY <1>1, <1>3, <1>4, <1>6, <1>7, <1>8 DEF Apart

\* A statement that runs makes certain of what its triggers look at again.
LEMMA ExecuteHolds ==
  ASSUME IInv, NEW s \in Sessions, Execute(s),
         NEW q, q = tx[s], NEW r, r = tx'[s]
  PROVE  /\ r \in Transaction /\ r.stage = "written" /\ r.by \in Users
         /\ r.op = q.op /\ r.on = q.on /\ r.key = q.key /\ Held(r)'
<1>1. /\ q \in Transaction /\ Held(q) /\ q.stage = "checked" /\ q.by \in Users
      /\ object \in [Keys -> Contents \cup {None}]
      /\ request \in [Requests -> PbcRequest]
  BY DEF IInv, WellTyped, TypeOK, Pending, Execute
<1>2. /\ r = [q EXCEPT !.stage = "written", !.sha256 = Digest(q),
                       !.changed = @ \ Rechecked(q)]
      /\ ~Refused(s) /\ UNCHANGED <<tables, object, age>>
  BY <1>1 DEF Execute, IInv, WellTyped, TypeOK
<1>3. Digest(q) \in Contents \cup {None}
  BY <1>1 DEF Digest, Held, OfIntent, KeyOps
<1>4. /\ r \in Transaction /\ r.stage = "written" /\ r.by = q.by
      /\ r.op = q.op /\ r.on = q.on /\ r.key = q.key /\ r.user = q.user
      /\ r.sha256 = Digest(q) /\ r.changed = q.changed \ Rechecked(q)
      /\ r.left = q.left
  <2> PICK sha, changed: sha = Digest(q) /\ changed = q.changed \ Rechecked(q)
    OBVIOUS
  <2>1. sha \in Contents \cup {None} /\ changed \in SUBSET Changes
    BY <1>1, <1>3 DEF Transaction
  <2>2. r = [q EXCEPT !.stage = "written", !.sha256 = sha, !.changed = changed]
    BY <1>2
  <2>3. /\ r \in Transaction /\ r.stage = "written" /\ r.by = q.by
        /\ r.op = q.op /\ r.on = q.on /\ r.key = q.key /\ r.user = q.user
        /\ r.sha256 = sha /\ r.changed = changed /\ r.left = q.left
    BY <1>1, <2>1, <2>2 DEF Transaction
  <2> QED BY <2>3
<1>5. OfClient(r)'
  <2>1. r.op = "respond" =>
          request[r.on].assignee = r.by /\ r.by \in access
    BY <1>2, <1>4 DEF Refused
  <2>2. r.by \in Clients =>
          Rechecked(q) = IF r.op = "respond" THEN {"assignment", "access"} ELSE {}
    BY <1>4 DEF Rechecked
  <2>3. OfClient(q)
    BY <1>1 DEF Held
  <2>4. OfClient(r)
    BY <1>4, <2>1, <2>2, <2>3 DEF OfClient
  <2> QED BY <1>2, <2>4 DEF OfClient, tables
<1>6. OfRequest(r)' /\ OfIntent(r)' /\ (r.op = "grant" => r.user \in Clients)
  BY <1>1, <1>2, <1>4 DEF Held, OfRequest, OfIntent, Proven, tables
<1>7. OfObject(r)'
  <2>1. r.op = "finalize" => object[r.key] \in Sized
    BY <1>2, <1>4 DEF Refused
  <2>2. r.op \in {"finalize", "register"} => evidence[r.key] = NoEvidence
    BY <1>2, <1>4 DEF Refused
  <2>3. r.op = "finalize" => r.sha256 = object[r.key]
    BY <1>4 DEF Digest
  <2>4. r.op = "finalize" => object[r.key] \in Typed \/ "object" \in q.changed
    BY <1>1, <1>4, <2>2 DEF Held, OfObject
  <2>5. "object" \in q.changed => "object" \in r.changed
    BY <1>4 DEF Rechecked
  <2> QED BY <1>2, <1>4, <2>1, <2>2, <2>3, <2>4, <2>5 DEF OfObject, tables
<1>8. OfEngagement(r)'
  <2>1. r.op \in TestingOps => engagement \notin {"FROZEN", "DELETED"}
    BY <1>2, <1>4 DEF Refused, TestingOps
  <2>2. r.op \in TestingOps =>
          engagement # "PLANNING" /\ (engagement = "TESTING" \/ "engagement" \in q.changed)
    BY <1>1, <1>4, <2>1 DEF Held, OfEngagement
  <2>3. CASE r.op = "finalize" /\ r.by \notin Clients
    <3>1. engagement = "TESTING"
      BY <1>2, <1>4, <2>3 DEF Refused
    <3> QED BY <1>2, <2>3, <3>1 DEF OfEngagement, TestingOps, tables
  <2>4. CASE ~(r.op = "finalize" /\ r.by \notin Clients)
    <3>1. "engagement" \in q.changed => "engagement" \in r.changed
      BY <1>4, <2>4 DEF Rechecked
    <3>2. r.op # "delete"
      BY <1>4 DEF Execute
    <3> QED BY <1>2, <2>1, <2>2, <3>1, <3>2 DEF OfEngagement, tables
  <2> QED BY <2>3, <2>4
<1>9. OfDeletion(r)'
  BY <1>1, <1>4 DEF Held, OfDeletion, Execute
<1> QED BY <1>1, <1>4, <1>5, <1>6, <1>7, <1>8, <1>9 DEF Held

LEMMA ExecuteKeeps ==
  ASSUME IInv, NEW s \in Sessions, Execute(s)
  PROVE  IInv'
<1> PICK r: r = tx'[s]
  OBVIOUS
<1>0. tx \in [Sessions -> Transaction]
  BY DEF IInv, WellTyped, TypeOK
<1>1. /\ r \in Transaction /\ r.stage = "written" /\ r.by \in Users
      /\ r.op = tx[s].op /\ r.on = tx[s].on /\ r.key = tx[s].key /\ Held(r)'
  BY ExecuteHolds
<1>2. \A t \in Sessions: tx'[t] = IF t = s THEN r ELSE tx[t]
  BY <1>0 DEF Execute
<1>3. tx' \in [Sessions -> Transaction]
  BY <1>0, <1>1, <1>2 DEF Execute
<1>4. /\ UNCHANGED <<tables, object, age>>
      /\ overwritten' = overwritten \
           {k \in Keys: r.op = "finalize" /\ k = r.key}
  BY <1>1 DEF Execute
<1>5. WellTyped'
  <2>1. TypeOK'
    BY <1>3, <1>4 DEF IInv, WellTyped, TypeOK, tables
  <2> QED BY <2>1, <1>1, <1>2 DEF IInv, WellTyped
<1>6. Pending'
  <2> SUFFICES ASSUME NEW t \in Sessions, t # s
               PROVE  Held(tx[t])'
    BY <1>1 DEF Pending
  <2> PICK q: q = tx[t]
    OBVIOUS
  <2>1. Held(q) /\ Apart(q, tx[s])
    BY DEF IInv, Pending, KeptApart
  <2>2. q.op = "finalize" /\ q.stage = "written" =>
          (q.key \in overwritten => q.key \in overwritten')
    BY <1>1, <1>4, <2>1 DEF Apart
  <2>3. Held(q)'
    BY <1>4, <2>1, <2>2
    DEF Held, OfClient, OfRequest, OfIntent, OfObject, OfEngagement,
        OfDeletion, Proven,
        tables
  <2> QED BY <1>2, <2>3
<1>7. KeptApart'
  <2> SUFFICES ASSUME NEW a \in Sessions, NEW b \in Sessions, a # b
               PROVE  Apart(tx[a], tx[b])'
    BY DEF KeptApart
  <2>1. Apart(tx'[a], tx'[b])
    BY <1>1, <1>2, ExecuteApart DEF IInv, KeptApart
  <2> QED BY <2>1 DEF Apart
<1>8. Bare' /\ Blank' /\ CompletedOnEvidence' /\ ClientCredited'
  BY <1>4
  DEF IInv, Bare, Blank, CompletedOnEvidence, ClientCredited, tables
<1>9. DigestOfObject'
  <2>1. r.op = "finalize" => evidence[r.key].source = "none"
    BY <1>1, <1>4 DEF Held, OfObject, NoEvidence, tables
  <2> QED BY <1>4, <2>1 DEF IInv, DigestOfObject, tables
<1> QED BY <1>5, <1>6, <1>7, <1>8, <1>9 DEF IInv

-----------------------------------------------------------------------------
(* What others notice.                                                     *)

\* The same transaction, with more that has changed.
More(q, n) ==
  /\ n \in Transaction /\ n.stage = q.stage /\ n.op = q.op /\ n.by = q.by
  /\ n.on = q.on /\ n.key = q.key /\ n.user = q.user /\ n.sha256 = q.sha256
  /\ n.left = q.left /\ q.changed \subseteq n.changed

LEMMA NoticedIs ==
  ASSUME NEW q \in Transaction, NEW C \in SUBSET Changes
  PROVE  /\ More(q, Noticed(q, C))
         /\ q.op \in {"createIntent", "finalize", "respond"} =>
              C \subseteq Noticed(q, C).changed
         /\ q.op \in TestingOps \cup {"delete"} /\ "engagement" \in C =>
              "engagement" \in Noticed(q, C).changed
<1> DEFINE D == CASE q.op \in {"createIntent", "finalize", "respond"} -> C
                  [] q.op \in {"create", "complete", "close", "cancel",
                               "register", "delete"} -> C \cap {"engagement"}
                  [] OTHER -> {}
<1>1. Noticed(q, C) = [q EXCEPT !.changed = @ \cup D]
  BY DEF Noticed
<1>2. D \in SUBSET Changes
  OBVIOUS
<1>3. q.op \in {"createIntent", "finalize", "respond"} => D = C
  OBVIOUS
<1>4. q.op \in TestingOps \cup {"delete"} /\ "engagement" \in C => "engagement" \in D
  BY DEF TestingOps
<1> HIDE DEF D
<1>5. q.changed \cup D \in SUBSET Changes
  BY <1>2 DEF Transaction
<1>6. /\ More(q, Noticed(q, C)) /\ Noticed(q, C).changed = q.changed \cup D
  BY <1>1, <1>5 DEF More, Transaction
<1> QED BY <1>3, <1>4, <1>6

\* Idle transactions have nothing to notice.
LEMMA IdleNotices ==
  ASSUME NEW C
  PROVE  Noticed(Idle, C) = Idle
<1>1. Noticed(Idle, C) = [Idle EXCEPT !.changed = @ \cup {}]
  BY IdleIs DEF Noticed
<1> QED BY <1>1 DEF Idle

LEMMA HeldMore ==
  ASSUME NEW q, NEW n, More(q, n), Held(q)
  PROVE  Held(n)
BY DEF More, Held, OfClient, OfRequest, OfIntent, OfObject, OfEngagement,
       OfDeletion

LEMMA ApartMore ==
  ASSUME NEW q, NEW n, NEW r, NEW m, More(q, n), More(r, m), Apart(q, r)
  PROVE  Apart(n, m)
BY DEF More, Apart

-----------------------------------------------------------------------------
(* Deletion, the object store and the engagement.                          *)

\* What a deletion lists, it does after testing began, or there is nothing.
LEMMA ListEvidenceKeeps ==
  ASSUME IInv, NEW s \in Sessions, ListEvidence(s)
  PROVE  IInv'
<1>0. tx[s] \in Transaction /\ tx[s].by \in Users /\ Held(tx[s])
  BY DEF IInv, WellTyped, TypeOK, Pending, ListEvidence
<1> PICK listed: listed = {k \in Keys: evidence[k] # NoEvidence}
  OBVIOUS
<1> PICK r: r = [tx[s] EXCEPT !.stage = "emptying", !.left = listed]
  OBVIOUS
<1>1. /\ r \in Transaction /\ r.stage = "emptying" /\ r.op = "delete"
      /\ tx[s].op = "delete" /\ r.by = tx[s].by /\ r.on = tx[s].on
      /\ r.key = tx[s].key /\ r.changed = tx[s].changed /\ r.left = listed
      /\ tx[s].stage = "checked"
  BY <1>0 DEF ListEvidence, Transaction
<1>2. tx' = [tx EXCEPT ![s] = r] /\ UNCHANGED <<tables, store>>
  BY DEF ListEvidence, IInv, WellTyped, TypeOK
<1>3. listed # {} => "engagement" \in r.changed
  BY <1>0, <1>1 DEF IInv, Bare, Held, OfEngagement
<1>4. Held(r)
  BY <1>0, <1>1, <1>3
  DEF Held, OfClient, OfRequest, OfIntent, OfObject, OfEngagement, OfDeletion,
      RequestOps, KeyOps, TestingOps
<1>5. \A t \in Sessions \ {s}: Apart(tx[t], r) /\ Apart(r, tx[t])
  BY <1>1 DEF IInv, KeptApart, Apart
<1> QED BY <1>0, <1>1, <1>2, <1>4, <1>5, OneMoves

LEMMA DeleteObjectKeeps ==
  ASSUME IInv, NEW s \in Sessions, NEW j \in Keys, DeleteObject(s, j)
  PROVE  IInv'
<1>0. tx \in [Sessions -> Transaction] /\ tx[s] \in Transaction
  BY DEF IInv, WellTyped, TypeOK
<1> PICK r: r = [tx[s] EXCEPT !.left = @ \ {j}]
  OBVIOUS
<1>1. /\ r \in Transaction /\ r.stage = tx[s].stage /\ r.op = tx[s].op
      /\ r.by = tx[s].by /\ r.on = tx[s].on /\ r.key = tx[s].key
      /\ r.user = tx[s].user /\ r.sha256 = tx[s].sha256
      /\ r.changed = tx[s].changed /\ r.left \subseteq tx[s].left
      /\ r.stage = "emptying"
  BY <1>0 DEF DeleteObject, Transaction
<1>2. /\ \A t \in Sessions: tx'[t] = IF t = s THEN r ELSE tx[t]
      /\ tx' \in [Sessions -> Transaction]
      /\ object' = [object EXCEPT ![j] = None]
      /\ UNCHANGED <<tables, age, overwritten>>
  BY <1>0, <1>1 DEF DeleteObject
<1>3. /\ object \in [Keys -> Contents \cup {None}]
      /\ object' \in [Keys -> Contents \cup {None}]
      /\ \A k \in Keys: object'[k] = IF k = j THEN None ELSE object[k]
  BY <1>2 DEF IInv, WellTyped, TypeOK
<1>4. WellTyped'
  <2>1. TypeOK'
    BY <1>2, <1>3 DEF IInv, WellTyped, TypeOK, tables
  <2> QED BY <2>1, <1>1, <1>2 DEF IInv, WellTyped
<1>5. Pending'
  <2> SUFFICES ASSUME NEW t \in Sessions
               PROVE  Held(tx[t])'
    BY DEF Pending
  <2> PICK q: q = tx'[t]
    OBVIOUS
  <2>1. Held(q)
    <3>1. CASE t = s
      <4>1. Held(tx[s]) /\ q = r
        BY <1>2, <3>1 DEF IInv, Pending
      <4> QED BY <1>1, <4>1
              DEF Held, OfClient, OfRequest, OfIntent, OfObject, OfEngagement,
                  OfDeletion
    <3>2. CASE t # s
      BY <1>2, <3>2 DEF IInv, Pending
    <3> QED BY <3>1, <3>2
  <2>2. OfObject(q)'
    <3>1. q.op = "finalize" => q.key \in Keys
      BY <2>1 DEF Held, OfIntent, KeyOps
    <3>2. evidence[j] # NoEvidence
      BY DEF DeleteObject, IInv, Pending, Held, OfDeletion
    <3> QED BY <1>2, <1>3, <2>1, <3>1, <3>2 DEF Held, OfObject, tables
  <2>3. Held(q)'
    BY <1>2, <2>1, <2>2
    DEF Held, OfClient, OfRequest, OfIntent, OfEngagement, OfDeletion, Proven,
        tables
  <2> QED BY <2>3
<1>6. KeptApart'
  <2> SUFFICES ASSUME NEW a \in Sessions, NEW b \in Sessions, a # b
               PROVE  Apart(tx[a], tx[b])'
    BY DEF KeptApart
  <2>1. Apart(tx[a], tx[b])
    BY DEF IInv, KeptApart
  <2>2. Apart(tx'[a], tx'[b])
    BY <1>1, <1>2, <2>1 DEF Apart
  <2> QED BY <2>2 DEF Apart
<1>7. Bare' /\ Blank' /\ CompletedOnEvidence' /\ ClientCredited'
  BY <1>2
  DEF IInv, Bare, Blank, CompletedOnEvidence, ClientCredited, tables
<1>8. DigestOfObject'
  BY <1>2, <1>3 DEF IInv, DigestOfObject, tables
<1> QED BY <1>4, <1>5, <1>6, <1>7, <1>8 DEF IInv

LEMMA ExecuteDeleteKeeps ==
  ASSUME IInv, NEW s \in Sessions, ExecuteDelete(s)
  PROVE  IInv'
<1>0. tx[s] \in Transaction /\ tx[s].by \in Users /\ Held(tx[s])
  BY DEF IInv, WellTyped, TypeOK, Pending, ExecuteDelete
<1> PICK r: r = [tx[s] EXCEPT !.stage = "written"]
  OBVIOUS
<1>1. /\ r \in Transaction /\ r.stage = "written" /\ r.op = tx[s].op
      /\ r.by = tx[s].by /\ r.on = tx[s].on /\ r.key = tx[s].key
      /\ r.changed = tx[s].changed /\ r.user = tx[s].user
      /\ tx' = [tx EXCEPT ![s] = r] /\ UNCHANGED <<tables, store>>
  BY <1>0 DEF ExecuteDelete, Transaction
<1>2. r.op = "delete" /\ \A k \in Keys: evidence[k] = NoEvidence
  BY <1>0, <1>1 DEF ExecuteDelete, Held
<1>3. Held(r)
  BY <1>0, <1>1, <1>2
  DEF Held, OfClient, OfRequest, OfIntent, OfObject, OfEngagement, OfDeletion,
      RequestOps, KeyOps, TestingOps
<1>4. \A t \in Sessions \ {s}: Apart(tx[t], r) /\ Apart(r, tx[t])
  <2> SUFFICES ASSUME NEW t \in Sessions \ {s}
               PROVE  Apart(tx[t], r) /\ Apart(r, tx[t])
    OBVIOUS
  <2>1. tx[t].stage = "written" => tx[t].op \in {"grant", "revoke"}
    <3>1. tx[s].op = "delete" /\ ~Waits(s)
      BY DEF ExecuteDelete, IInv, Pending, Held
    <3> QED BY <3>1 DEF Waits, Obstructs
  <2>2. Held(tx[t]) /\ Apart(tx[t], tx[s]) /\ Apart(tx[s], tx[t])
    BY DEF IInv, Pending, KeptApart
  <2>3. tx[t].op \in {"complete", "close", "cancel"} => tx[t].on # r.on
    BY <1>2, <1>3, <2>2, NoneApart DEF Held, OfRequest, RequestOps
  <2>4. tx[t].op = "finalize" => tx[t].key # r.key
    BY <1>2, <1>3, <2>2, NoneApart DEF Held, OfIntent, KeyOps
  <2> QED BY <1>1, <1>2, <2>1, <2>2, <2>3, <2>4 DEF Apart
<1> QED BY <1>0, <1>1, <1>3, <1>4, OneMoves

LEMMA PutKeeps ==
  ASSUME IInv, NEW k \in Keys, NEW c \in Contents, Put(k, c)
  PROVE  IInv'
<1>0. tx \in [Sessions -> Transaction]
  BY DEF IInv, WellTyped, TypeOK
<1>1. /\ object' = [object EXCEPT ![k] = c] /\ intent[k] # NoIntent
      /\ UNCHANGED <<tables, age>>
      /\ overwritten' = overwritten \/ overwritten' = overwritten \cup {k}
      /\ evidence[k] # NoEvidence => k \in overwritten'
      /\ \A t \in Sessions:
           tx[t].key = k /\ tx[t].stage = "written" => k \in overwritten'
  BY DEF Put
<1>2. /\ object \in [Keys -> Contents \cup {None}]
      /\ \A j \in Keys: object'[j] = IF j = k THEN c ELSE object[j]
  BY <1>1 DEF IInv, WellTyped, TypeOK
<1>3. ASSUME NEW t \in Sessions
      PROVE  /\ More(tx[t], tx'[t])
             /\ tx[t].stage = "idle" => tx'[t] = Idle
             /\ tx[t].op = "finalize" /\ tx[t].key = k /\ tx[t].stage = "checked"
                  => "object" \in tx'[t].changed
  <2>1. tx[t] \in Transaction /\ (tx[t].stage = "idle" => tx[t] = Idle)
    BY <1>0 DEF IInv, WellTyped
  <2>2. CASE tx[t].key = k /\ tx[t].stage = "checked"
    <3>1. tx'[t] = Noticed(tx[t], {"object"})
      BY <2>2 DEF Put
    <3>2. {"object"} \in SUBSET Changes
      BY DEF Changes
    <3> QED BY <2>1, <2>2, <3>1, <3>2, NoticedIs
  <2>3. CASE ~(tx[t].key = k /\ tx[t].stage = "checked")
    <3>1. tx'[t] = tx[t]
      BY <2>3 DEF Put
    <3> QED BY <2>1, <2>3, <3>1 DEF More
  <2> QED BY <2>2, <2>3
<1>4. WellTyped'
  <2>1. tx' \in [Sessions -> Transaction]
    <3>1. tx' = [t \in Sessions |-> tx'[t]]
      BY DEF Put
    <3> QED BY <1>3, <3>1 DEF More
  <2>2. object' \in [Keys -> Contents \cup {None}] /\ overwritten' \subseteq Keys
    BY <1>1, <1>2 DEF IInv, WellTyped, TypeOK
  <2>3. TypeOK'
    BY <1>1, <2>1, <2>2 DEF IInv, WellTyped, TypeOK, tables
  <2> QED BY <1>3, <2>3 DEF IInv, WellTyped, More
<1>5. Pending'
  <2> SUFFICES ASSUME NEW t \in Sessions
               PROVE  Held(tx[t])'
    BY DEF Pending
  <2> PICK q: q = tx'[t]
    OBVIOUS
  <2>1. Held(q)
    BY <1>3, HeldMore DEF IInv, Pending
  <2>2. OfObject(q)'
    <3>1. /\ q.op = "finalize" => q.key \in Keys
          /\ q.op = tx[t].op /\ q.key = tx[t].key /\ q.stage = tx[t].stage
      BY <1>3, <2>1 DEF Held, OfIntent, KeyOps, More
    <3>2. CASE q.key = k
      BY <1>1, <1>3, <2>1, <3>1, <3>2 DEF Held, OfObject, tables
    <3>3. CASE q.key # k
      BY <1>1, <1>2, <2>1, <3>1, <3>3 DEF Held, OfObject, tables
    <3> QED BY <3>2, <3>3
  <2>3. Held(q)'
    BY <1>1, <2>1, <2>2
    DEF Held, OfClient, OfRequest, OfIntent, OfEngagement, OfDeletion, Proven,
        tables
  <2> QED BY <2>3
<1>6. KeptApart'
  <2> SUFFICES ASSUME NEW a \in Sessions, NEW b \in Sessions, a # b
               PROVE  Apart(tx[a], tx[b])'
    BY DEF KeptApart
  <2>1. Apart(tx'[a], tx'[b])
    BY <1>3, ApartMore DEF IInv, KeptApart
  <2> QED BY <2>1 DEF Apart
<1>7. Bare' /\ Blank' /\ CompletedOnEvidence' /\ ClientCredited'
  BY <1>1
  DEF IInv, Bare, Blank, CompletedOnEvidence, ClientCredited, tables
<1>8. DigestOfObject'
  <2> SUFFICES ASSUME NEW j \in Keys, evidence[j].source \in Uploads
               PROVE  object'[j] \in {evidence[j].sha256, None}
                        \/ j \in overwritten'
    BY <1>1 DEF DigestOfObject, Uploads, tables
  <2>1. CASE j = k
    BY <1>1, <2>1 DEF NoEvidence, Uploads
  <2>2. CASE j # k
    BY <1>1, <1>2, <2>2 DEF IInv, DigestOfObject, Uploads
  <2> QED BY <2>1, <2>2
<1> QED BY <1>4, <1>5, <1>6, <1>7, <1>8 DEF IInv

LEMMA ExpireKeeps ==
  ASSUME IInv, NEW k \in Keys, Expire(k)
  PROVE  IInv'
<1>1. UNCHANGED <<tables, object, overwritten, tx>>
  BY DEF Expire
<1>2. age' \in [Keys -> {"live", "expired", "dead"}]
  BY DEF Expire, IInv, WellTyped, TypeOK
<1>3. WellTyped'
  BY <1>1, <1>2 DEF IInv, WellTyped, TypeOK, tables
<1>4. Pending'
  BY <1>1
  DEF IInv, Pending, Held, OfClient, OfRequest, OfIntent, OfObject,
      OfEngagement, OfDeletion, Proven, tables
<1>5. KeptApart'
  BY <1>1 DEF IInv, KeptApart, Apart
<1>6. Bare' /\ Blank' /\ CompletedOnEvidence' /\ DigestOfObject' /\ ClientCredited'
  BY <1>1
  DEF IInv, Bare, Blank, CompletedOnEvidence, DigestOfObject, ClientCredited,
      tables
<1> QED BY <1>3, <1>4, <1>5, <1>6 DEF IInv

\* What every operation in progress reads of the engagement is noted.
LEMMA AdvanceKeeps ==
  ASSUME IInv, AdvanceEngagement
  PROVE  IInv'
<1>0. tx \in [Sessions -> Transaction]
  BY DEF IInv, WellTyped, TypeOK
<1>1. /\ engagement' \in {"TESTING", "REVIEW", "FROZEN"}
      /\ UNCHANGED <<access, request, intent, evidence, store>>
      /\ \A t \in Sessions: tx[t].stage = "written" => tx[t].op # "delete"
  BY DEF AdvanceEngagement
<1>2. ASSUME NEW t \in Sessions
      PROVE  /\ More(tx[t], tx'[t])
             /\ tx[t].stage = "idle" => tx'[t] = Idle
             /\ tx[t].op \in TestingOps \cup {"delete"} =>
                  "engagement" \in tx'[t].changed
  <2>1. tx[t] \in Transaction /\ (tx[t].stage = "idle" => tx[t] = Idle)
    BY <1>0 DEF IInv, WellTyped
  <2>2. tx'[t] = Noticed(tx[t], {"engagement"})
    BY DEF AdvanceEngagement
  <2>3. {"engagement"} \in SUBSET Changes
    BY DEF Changes
  <2> QED BY <2>1, <2>2, <2>3, NoticedIs, IdleNotices
<1>3. WellTyped'
  <2>1. tx' \in [Sessions -> Transaction]
    <3>1. tx' = [t \in Sessions |-> tx'[t]]
      BY DEF AdvanceEngagement
    <3> QED BY <1>2, <3>1 DEF More
  <2>2. TypeOK'
    BY <1>1, <2>1 DEF IInv, WellTyped, TypeOK, store
  <2> QED BY <1>2, <2>2 DEF IInv, WellTyped, More
<1>4. Pending'
  <2> SUFFICES ASSUME NEW t \in Sessions
               PROVE  Held(tx[t])'
    BY DEF Pending
  <2> PICK q: q = tx'[t]
    OBVIOUS
  <2>1. Held(q)
    BY <1>2, HeldMore DEF IInv, Pending
  <2>2. OfEngagement(q)'
    <3>1. /\ q.op \in TestingOps \cup {"delete"} => "engagement" \in q.changed
          /\ q.op = "delete" => q.stage # "written"
      BY <1>1, <1>2 DEF More
    <3> QED BY <1>1, <3>1 DEF OfEngagement
  <2>3. Held(q)'
    BY <1>1, <2>1, <2>2
    DEF Held, OfClient, OfRequest, OfIntent, OfObject, OfDeletion, Proven,
        store
  <2> QED BY <2>3
<1>5. KeptApart'
  <2> SUFFICES ASSUME NEW a \in Sessions, NEW b \in Sessions, a # b
               PROVE  Apart(tx[a], tx[b])'
    BY DEF KeptApart
  <2>1. Apart(tx'[a], tx'[b])
    BY <1>2, ApartMore DEF IInv, KeptApart
  <2> QED BY <2>1 DEF Apart
<1>6. Bare' /\ Blank' /\ CompletedOnEvidence' /\ DigestOfObject' /\ ClientCredited'
  BY <1>1
  DEF IInv, Bare, Blank, CompletedOnEvidence, DigestOfObject, ClientCredited,
      store
<1> QED BY <1>3, <1>4, <1>5, <1>6 DEF IInv

-----------------------------------------------------------------------------
(* Commits.                                                                *)

\* What a commit of r makes of its PBC request.
LEMMA WrittenRequestIs ==
  ASSUME IInv, NEW r \in Transaction, r.on \in Requests
  PROVE  /\ WrittenRequest(r) \in PbcRequest
         /\ r.op \in {"create", "accept"} => WrittenRequest(r).status = "OPEN"
         /\ r.op = "assign" =>
              /\ WrittenRequest(r).status =
                   IF request[r.on].status = "OPEN" THEN "IN_PROGRESS"
                   ELSE request[r.on].status
              /\ WrittenRequest(r).fulfiller = request[r.on].fulfiller
         /\ r.op = "complete" =>
              /\ WrittenRequest(r).status = "COMPLETED"
              /\ WrittenRequest(r).fulfiller = r.user
         /\ r.op = "close" =>
              /\ WrittenRequest(r).status = "CLOSED"
              /\ WrittenRequest(r).fulfiller = request[r.on].fulfiller
         /\ r.op = "cancel" => WrittenRequest(r).status = "CANCELLED"
         /\ r.op \notin {"create", "accept", "assign", "cancel"} =>
              WrittenRequest(r).assignee = request[r.on].assignee
         /\ r.op \notin {"create", "accept", "assign", "complete", "close",
                         "cancel"} =>
              WrittenRequest(r) = request[r.on]
<1> PICK old: old = request[r.on]
  OBVIOUS
<1>0. old \in PbcRequest /\ r.by \in Users \cup {None} /\ r.user \in Users \cup {None}
  BY DEF IInv, WellTyped, TypeOK, Transaction
<1>1. CASE r.op \in {"create", "accept"}
  BY <1>0, <1>1 DEF WrittenRequest, NoRequest, PbcRequest, RequestStatuses
<1>2. CASE r.op = "assign"
  <2> PICK st: st = IF old.status = "OPEN" THEN "IN_PROGRESS" ELSE old.status
    OBVIOUS
  <2>1. WrittenRequest(r) = [old EXCEPT !.assignee = r.user, !.status = st]
    BY <1>2 DEF WrittenRequest
  <2>2. st \in RequestStatuses
    BY <1>0 DEF PbcRequest, RequestStatuses
  <2> QED BY <1>0, <1>2, <2>1, <2>2 DEF PbcRequest
<1>3. CASE r.op = "complete"
  BY <1>0, <1>3 DEF WrittenRequest, PbcRequest, RequestStatuses
<1>4. CASE r.op = "close"
  BY <1>0, <1>4 DEF WrittenRequest, PbcRequest, RequestStatuses
<1>5. CASE r.op = "cancel"
  BY <1>0, <1>5 DEF WrittenRequest, PbcRequest, RequestStatuses
<1>6. CASE r.op \notin {"create", "accept", "assign", "complete", "close",
                     "cancel"}
  BY <1>0, <1>6 DEF WrittenRequest
<1> QED BY <1>1, <1>2, <1>3, <1>4, <1>5, <1>6

\* And of its evidence.
LEMMA RegisteredIs ==
  ASSUME NEW r \in Transaction, r.op = "register" => r.by \notin Clients
  PROVE  /\ Registered(r) \in Evidence /\ Registered(r).source # "none"
         /\ Registered(r).uploader = r.by /\ Registered(r).on = r.on
         /\ Registered(r).sha256 = r.sha256
         /\ Registered(r).source \in Uploads => r.op # "register"
         /\ Registered(r).source = "CLIENT_PORTAL_UPLOAD" => r.by \in Clients
         /\ Registered(r) # NoEvidence
<1> PICK src: src = CASE r.op = "register" -> "REGISTERED"
                     [] r.by \in Clients  -> "CLIENT_PORTAL_UPLOAD"
                     [] OTHER             -> "UPLOAD"
  OBVIOUS
<1>1. /\ src \in Sources /\ src # "none" /\ (src \in Uploads => r.op # "register")
      /\ src = "CLIENT_PORTAL_UPLOAD" => r.by \in Clients
  <2>1. CASE r.op = "register"
    BY <2>1 DEF Sources, Uploads
  <2>2. CASE r.op # "register" /\ r.by \in Clients
    BY <2>2 DEF Sources, Uploads
  <2>3. CASE r.op # "register" /\ r.by \notin Clients
    BY <2>3 DEF Sources, Uploads
  <2> QED BY <2>1, <2>2, <2>3
<1>2. Registered(r) =
        [source |-> src, uploader |-> r.by, on |-> r.on, sha256 |-> r.sha256]
  BY DEF Registered
<1>3. /\ r.by \in Users \cup {None} /\ r.on \in Requests \cup {None}
      /\ r.sha256 \in Contents \cup {None}
  BY DEF Transaction
<1>4. Registered(r) \in Evidence
  BY <1>1, <1>2, <1>3 DEF Evidence
<1> QED BY <1>1, <1>2, <1>4 DEF NoEvidence

\* The transaction that commits, and what it is to the others.
Committing(s, r) ==
  /\ r = tx[s] /\ r \in Transaction /\ r.stage = "written" /\ r.by \in Users
  /\ Held(r) /\ tx'[s] = Idle
  /\ tx' \in [Sessions -> Transaction]
  /\ \A t \in Sessions \ {s}:
       /\ Apart(r, tx[t]) /\ Apart(tx[t], r) /\ Held(tx[t])
       /\ More(tx[t], tx'[t])
       /\ tx[t].stage = "idle" => tx'[t] = Idle
       /\ tx[t].op \in {"createIntent", "finalize", "respond"} =>
            ChangesOf(r, tx[t]) \subseteq tx'[t].changed

LEMMA CommitIs ==
  ASSUME IInv, NEW s \in Sessions, Commit(s), NEW r, r = tx[s]
  PROVE  Committing(s, r)
<1>0. tx \in [Sessions -> Transaction]
  BY DEF IInv, WellTyped, TypeOK
<1>1. /\ r \in Transaction /\ r.stage = "written" /\ r.by \in Users /\ Held(r)
  BY <1>0 DEF IInv, WellTyped, Pending, Commit
<1>2. /\ tx' = [t \in Sessions |-> tx'[t]] /\ tx'[s] = Idle
      /\ \A t \in Sessions \ {s}: tx'[t] = Noticed(tx[t], ChangesOf(r, tx[t]))
  BY DEF Commit
<1>3. ASSUME NEW t \in Sessions \ {s}
      PROVE  /\ Apart(r, tx[t]) /\ Apart(tx[t], r) /\ Held(tx[t])
             /\ More(tx[t], tx'[t])
             /\ tx[t].stage = "idle" => tx'[t] = Idle
             /\ tx[t].op \in {"createIntent", "finalize", "respond"} =>
                  ChangesOf(r, tx[t]) \subseteq tx'[t].changed
  <2>1. ChangesOf(r, tx[t]) \in SUBSET Changes
    BY DEF ChangesOf, Changes
  <2>2. tx[t] \in Transaction /\ (tx[t].stage = "idle" => tx[t] = Idle)
    BY <1>0 DEF IInv, WellTyped
  <2>3. Apart(r, tx[t]) /\ Apart(tx[t], r) /\ Held(tx[t])
    BY DEF IInv, KeptApart, Pending
  <2> QED BY <1>2, <2>1, <2>2, <2>3, NoticedIs, IdleNotices
<1>4. tx' \in [Sessions -> Transaction]
  BY <1>2, <1>3, IdleIs DEF More
<1> QED BY <1>1, <1>2, <1>3, <1>4 DEF Committing

LEMMA CommitTyped ==
  ASSUME IInv, NEW s \in Sessions, Commit(s), NEW r, Committing(s, r)
  PROVE  WellTyped'
<1>0. /\ r \in Transaction /\ Held(r) /\ r.by \in Users /\ r = tx[s]
      /\ request \in [Requests -> PbcRequest] /\ intent \in [Keys -> Intent]
      /\ evidence \in [Keys -> Evidence] /\ access \subseteq Clients
  BY DEF IInv, WellTyped, TypeOK, Committing
<1>1. access' \subseteq Clients
  BY <1>0 DEF Commit, Held
<1>2. request' \in [Requests -> PbcRequest]
  <2>1. r.on \in Requests => WrittenRequest(r) \in PbcRequest
    BY <1>0, WrittenRequestIs
  <2>2. request' = [p \in Requests |->
                      IF p = r.on THEN WrittenRequest(r) ELSE request[p]]
    BY <1>0 DEF Commit
  <2> QED BY <1>0, <2>1, <2>2
<1>3. intent' \in [Keys -> Intent]
  <2>1. r.key \in Keys => WrittenIntent(r) \in Intent
    <3>1. r.key \in Keys => intent[r.key] \in Intent
      BY <1>0
    <3>2. CASE r.op = "createIntent"
      BY <1>0, <3>2 DEF WrittenIntent, Intent, Transaction
    <3>3. CASE r.op = "finalize"
      BY <3>1, <3>3 DEF WrittenIntent, Intent
    <3>4. CASE r.op \notin {"createIntent", "finalize"}
      BY <3>1, <3>4 DEF WrittenIntent
    <3> QED BY <3>2, <3>3, <3>4
  <2>2. intent' = [k \in Keys |-> IF k = r.key THEN WrittenIntent(r) ELSE intent[k]]
    BY <1>0 DEF Commit
  <2> QED BY <1>0, <2>1, <2>2
<1>4. evidence' \in [Keys -> Evidence]
  <2>1. Registered(r) \in Evidence
    BY <1>0, RegisteredIs DEF Held, OfClient
  <2>2. evidence' = [k \in Keys |->
                       IF k = r.key /\ r.op \in {"finalize", "register"}
                       THEN Registered(r) ELSE evidence[k]]
    BY <1>0 DEF Commit
  <2> QED BY <1>0, <2>1, <2>2
<1>5. engagement' \in {"PLANNING", "TESTING", "REVIEW", "FROZEN", "DELETED"}
  BY DEF Commit, IInv, WellTyped, TypeOK
<1>6. UNCHANGED store /\ tx' \in [Sessions -> Transaction]
  BY DEF Commit, Committing
<1>7. TypeOK'
  BY <1>1, <1>2, <1>3, <1>4, <1>5, <1>6
  DEF IInv, WellTyped, TypeOK, store
<1>8. \A t \in Sessions: /\ tx'[t].stage = "idle" => tx'[t] = Idle
                         /\ tx'[t].stage # "idle" => tx'[t].by \in Users
  BY IdleIs DEF Committing, More, IInv, WellTyped
<1> QED BY <1>7, <1>8 DEF WellTyped

\* What a client has read is noted when it changes.
LEMMA CommitOfClient ==
  ASSUME IInv, NEW s \in Sessions, Commit(s), NEW r, Committing(s, r),
         NEW t \in Sessions \ {s}, NEW q, q = tx[t], NEW n, n = tx'[t]
  PROVE  OfClient(n)'
<1> SUFFICES ASSUME n.by \in Clients
             PROVE  /\ n.op \in {"createIntent", "finalize", "respond"}
                    /\ n.on \in Requests
                    /\ \/ request'[n.on].assignee = n.by
                       \/ "assignment" \in n.changed
                    /\ n.by \in access' \/ "access" \in n.changed
                    /\ \/ request'[n.on].status \notin {"CLOSED", "CANCELLED"}
                       \/ "status" \in n.changed
  BY DEF OfClient
<1>1. /\ r = tx[s] /\ r \in Transaction /\ Held(r) /\ Held(q) /\ More(q, n)
      /\ q.op \in {"createIntent", "finalize", "respond"} =>
           ChangesOf(r, q) \subseteq n.changed
  BY DEF Committing
<1>2. OfClient(q) /\ q.by = n.by /\ q.op = n.op /\ q.on = n.on
      /\ q.changed \subseteq n.changed
  BY <1>1 DEF Held, More
<1>3. n.op \in {"createIntent", "finalize", "respond"} /\ n.on \in Requests
  BY <1>2 DEF OfClient
<1>4. ChangesOf(r, q) \subseteq n.changed
  BY <1>1, <1>2, <1>3
<1>5. n.by \in access' \/ "access" \in n.changed
  <2>1. n.by \in access \/ "access" \in n.changed
    BY <1>2 DEF OfClient
  <2>2. CASE r.op = "revoke" /\ r.user = q.by
    BY <1>4, <2>2 DEF ChangesOf
  <2>3. CASE ~(r.op = "revoke" /\ r.user = q.by)
    BY <1>1, <1>2, <2>1, <2>3 DEF Commit
  <2> QED BY <2>2, <2>3
<1>6. /\ request'[n.on].assignee = n.by \/ "assignment" \in n.changed
      /\ \/ request'[n.on].status \notin {"CLOSED", "CANCELLED"}
         \/ "status" \in n.changed
  <2>1. /\ request[n.on].assignee = n.by \/ "assignment" \in n.changed
        /\ \/ request[n.on].status \notin {"CLOSED", "CANCELLED"}
           \/ "status" \in n.changed
    BY <1>2 DEF OfClient
  <2>2. CASE n.on # r.on
    BY <1>1, <1>3, <2>1, <2>2 DEF Commit
  <2>3. CASE n.on = r.on
    <3>1. request'[n.on] = WrittenRequest(r)
      BY <1>1, <1>3, <2>3 DEF Commit
    <3>2. CASE r.op \in {"create", "accept"}
      <4>1. request[n.on].assignee = None
        BY <1>1, <2>3, <3>2 DEF Held, OfRequest, NoRequest
      <4>2. n.by # None
        BY NoneApart DEF Clients
      <4>3. request'[n.on].status = "OPEN"
        BY <1>1, <1>3, <2>3, <3>1, <3>2, WrittenRequestIs
      <4> QED BY <2>1, <4>1, <4>2, <4>3
    <3>3. CASE r.op = "assign"
      <4>1. "assignment" \in n.changed
        BY <1>2, <1>4, <2>3, <3>3 DEF ChangesOf
      <4>2. request'[n.on].status \in {"IN_PROGRESS", request[n.on].status}
        BY <1>1, <1>3, <2>3, <3>1, <3>3, WrittenRequestIs
      <4> QED BY <2>1, <4>1, <4>2
    <3>4. CASE r.op = "close"
      <4>1. "status" \in n.changed
        BY <1>2, <1>4, <2>3, <3>4 DEF ChangesOf
      <4>2. request'[n.on].assignee = request[n.on].assignee
        BY <1>1, <1>3, <2>3, <3>1, <3>4, WrittenRequestIs
      <4> QED BY <2>1, <4>1, <4>2
    <3>5. CASE r.op = "cancel"
      BY <1>2, <1>4, <2>3, <3>5 DEF ChangesOf
    <3>6. CASE r.op = "complete"
      <4>1. /\ request'[n.on].assignee = request[n.on].assignee
            /\ request'[n.on].status = "COMPLETED"
        BY <1>1, <1>3, <2>3, <3>1, <3>6, WrittenRequestIs
      <4> QED BY <2>1, <4>1
    <3>7. CASE r.op \notin {"create", "accept", "assign", "complete", "close",
                         "cancel"}
      BY <1>1, <1>3, <2>1, <2>3, <3>1, <3>7, WrittenRequestIs
    <3> QED BY <3>2, <3>3, <3>4, <3>5, <3>6, <3>7
  <2> QED BY <2>2, <2>3
<1> QED BY <1>3, <1>5, <1>6

\* Evidence once registered stays.
LEMMA EvidenceStays ==
  ASSUME IInv, NEW s \in Sessions, Commit(s), NEW r, Committing(s, r),
         NEW k \in Keys, evidence[k] # NoEvidence
  PROVE  evidence'[k] = evidence[k]
<1>1. r.op \in {"finalize", "register"} => k # r.key
  BY DEF Committing, Held, OfObject
<1> QED BY <1>1 DEF Committing, Commit

LEMMA ProvenStays ==
  ASSUME IInv, NEW s \in Sessions, Commit(s), NEW r, Committing(s, r),
         NEW p, NEW u, Proven(p, u)
  PROVE  Proven(p, u)'
<1>1. PICK k \in Keys: /\ evidence[k].source # "none" /\ evidence[k].on = p
                       /\ evidence[k].uploader = u
  BY DEF Proven
<1>2. evidence'[k] = evidence[k]
  BY <1>1, EvidenceStays DEF NoEvidence
<1> QED BY <1>1, <1>2 DEF Proven

LEMMA CommitOfRequest ==
  ASSUME IInv, NEW s \in Sessions, Commit(s), NEW r, Committing(s, r),
         NEW t \in Sessions \ {s}, NEW q, q = tx[t], NEW n, n = tx'[t]
  PROVE  OfRequest(n)'
<1>1. /\ r = tx[s] /\ r \in Transaction /\ r.stage = "written" /\ Held(r)
      /\ Held(q) /\ More(q, n) /\ Apart(q, r) /\ Apart(r, q)
  BY DEF Committing
<1>2. OfRequest(n) /\ n.op = q.op /\ n.on = q.on
  BY <1>1 DEF Held, More, OfRequest
<1>3. n.op \in RequestOps => n.on \in Requests
  BY <1>2 DEF OfRequest
<1>4. n.on \in Requests =>
        request'[n.on] = IF n.on = r.on THEN WrittenRequest(r)
                         ELSE request[n.on]
  BY <1>1 DEF Commit
<1>5. n.op \in {"create", "accept"} => request'[n.on] = NoRequest
  <2> SUFFICES ASSUME n.op \in {"create", "accept"}, n.on = r.on
               PROVE  request'[n.on] = NoRequest
    BY <1>2, <1>3, <1>4 DEF OfRequest, RequestOps
  <2>1. r.op \notin {"create", "accept"}
    BY <1>1, <1>2 DEF Apart
  <2>2. request[r.on] = NoRequest
    BY <1>2 DEF OfRequest
  <2>3. r.op \notin {"assign", "complete", "close", "cancel"}
    BY <1>1, <2>2 DEF Held, OfRequest, NoRequest
  <2> QED BY <1>1, <1>3, <1>4, <2>1, <2>2, <2>3, WrittenRequestIs DEF RequestOps
<1>6. n.op = "assign" => request'[n.on].status # "none"
  <2> SUFFICES ASSUME n.op = "assign"
               PROVE  request'[n.on].status # "none"
    OBVIOUS
  <2>1. request[n.on].status # "none" /\ n.on \in Requests
    BY <1>2, <1>3 DEF OfRequest, RequestOps
  <2>2. CASE n.on = r.on
    <3>1. WrittenRequest(r).status # "none"
      BY <1>1, <2>1, <2>2, WrittenRequestIs
    <3> QED BY <1>4, <2>1, <2>2, <3>1
  <2>3. CASE n.on # r.on
    BY <1>4, <2>1, <2>3
  <2> QED BY <2>2, <2>3
<1>7. n.op = "complete" => Proven(n.on, n.user)'
  BY <1>2, ProvenStays DEF OfRequest
<1>8. n.op = "close" => request'[n.on].status = "COMPLETED"
  <2> SUFFICES ASSUME n.op = "close"
               PROVE  request'[n.on].status = "COMPLETED"
    OBVIOUS
  <2>1. n.on # r.on
    BY <1>1, <1>2 DEF Apart
  <2> QED BY <1>2, <1>3, <1>4, <2>1 DEF OfRequest, RequestOps
<1>9. n.op \in {"complete", "cancel"} =>
        request'[n.on].status \in {"OPEN", "IN_PROGRESS"}
  <2> SUFFICES ASSUME n.op \in {"complete", "cancel"}
               PROVE  request'[n.on].status \in {"OPEN", "IN_PROGRESS"}
    OBVIOUS
  <2>1. n.on # r.on
    BY <1>1, <1>2 DEF Apart
  <2> QED BY <1>2, <1>3, <1>4, <2>1 DEF OfRequest, RequestOps
<1> QED BY <1>2, <1>3, <1>5, <1>6, <1>7, <1>8, <1>9 DEF OfRequest

LEMMA CommitOfKey ==
  ASSUME IInv, NEW s \in Sessions, Commit(s), NEW r, Committing(s, r),
         NEW t \in Sessions \ {s}, NEW q, q = tx[t], NEW n, n = tx'[t]
  PROVE  OfIntent(n)' /\ OfObject(n)'
<1>1. /\ r = tx[s] /\ r \in Transaction /\ r.stage = "written" /\ Held(r)
      /\ Held(q) /\ More(q, n) /\ Apart(q, r) /\ Apart(r, q)
  BY DEF Committing
<1>2. /\ OfIntent(n) /\ OfObject(n) /\ n.op = q.op /\ n.key = q.key
      /\ n.stage = q.stage
  BY <1>1 DEF Held, More, OfIntent, OfObject
<1>3. UNCHANGED <<object, overwritten>>
  BY DEF Commit, store
<1>4. n.key \in Keys =>
        /\ intent'[n.key] = IF n.key = r.key THEN WrittenIntent(r)
                            ELSE intent[n.key]
        /\ n.key # r.key \/ r.op \notin {"finalize", "register"} =>
             evidence'[n.key] = evidence[n.key]
  BY <1>1 DEF Commit
<1>5. OfIntent(n)'
  <2>1. n.op = "createIntent" => intent'[n.key] = NoIntent
    <3> SUFFICES ASSUME n.op = "createIntent", n.key = r.key
                 PROVE  intent'[n.key] = NoIntent
      BY <1>2, <1>4 DEF OfIntent, KeyOps
    <3>1. n.key \in Keys /\ intent[r.key] = NoIntent
      BY <1>2 DEF OfIntent, KeyOps
    <3>2. r.op # "createIntent"
      BY <1>1, <1>2 DEF Apart
    <3>3. r.op # "finalize"
      BY <1>1, <3>1 DEF Held, OfIntent, NoIntent
    <3> QED BY <1>4, <3>1, <3>2, <3>3 DEF WrittenIntent
  <2>2. n.op = "finalize" => intent'[n.key] = intent[n.key]
    <3> SUFFICES ASSUME n.op = "finalize", n.key = r.key
                 PROVE  intent'[n.key] = intent[n.key]
      BY <1>2, <1>4 DEF OfIntent, KeyOps
    <3>1. n.key \in Keys /\ intent[n.key].status = "PENDING"
      BY <1>2 DEF OfIntent, KeyOps
    <3>2. r.op # "finalize"
      BY <1>1, <1>2 DEF Apart
    <3>3. r.op # "createIntent"
      BY <1>1, <3>1 DEF Held, OfIntent, NoIntent
    <3> QED BY <1>4, <3>1, <3>2, <3>3 DEF WrittenIntent
  <2> QED BY <1>2, <2>1, <2>2 DEF OfIntent
<1>6. OfObject(n)'
  <2>1. n.op \in {"finalize", "register"} => n.key \in Keys
    BY <1>2 DEF OfIntent, KeyOps
  <2>2. n.op = "finalize" /\ evidence[n.key] # NoEvidence =>
          evidence'[n.key] # NoEvidence
    BY <2>1, EvidenceStays
  <2>3. n.op \in {"finalize", "register"} /\ n.stage = "written" =>
          evidence'[n.key] = NoEvidence
    <3> SUFFICES ASSUME n.op \in {"finalize", "register"}, n.stage = "written"
                 PROVE  evidence'[n.key] = NoEvidence
      OBVIOUS
    <3>1. n.key = r.key => r.op \notin {"finalize", "register"}
      BY <1>1, <1>2 DEF Apart
    <3> QED BY <1>2, <1>4, <2>1, <3>1 DEF OfObject
  <2> QED BY <1>2, <1>3, <2>2, <2>3 DEF OfObject
<1> QED BY <1>5, <1>6

LEMMA CommitOfEngagement ==
  ASSUME IInv, NEW s \in Sessions, Commit(s), NEW r, Committing(s, r),
         NEW t \in Sessions \ {s}, NEW q, q = tx[t], NEW n, n = tx'[t]
  PROVE  OfEngagement(n)'
<1>1. /\ r = tx[s] /\ r \in Transaction /\ r.stage = "written" /\ Held(r)
      /\ Held(q) /\ More(q, n) /\ Apart(q, r) /\ Apart(r, q)
  BY DEF Committing
<1>2. OfEngagement(n) /\ n.op = q.op /\ n.stage = q.stage
  BY <1>1 DEF Held, More, OfEngagement
<1>3. engagement' = IF r.op = "delete" THEN "DELETED" ELSE engagement
  BY <1>1 DEF Commit
<1>4. n.op \in TestingOps /\ n.stage = "written" => r.op # "delete"
  BY <1>1, <1>2 DEF Apart, TestingOps
<1>5. n.op = "delete" /\ n.stage = "written" =>
        \A k \in Keys: evidence'[k] = NoEvidence
  <2>1. n.op = "delete" /\ n.stage = "written" => r.op \in {"grant", "revoke"}
    BY <1>1, <1>2 DEF Apart
  <2>2. r.op \in {"grant", "revoke"} => \A k \in Keys: evidence'[k] = evidence[k]
    BY <1>1 DEF Commit
  <2> QED BY <1>2, <2>1, <2>2 DEF OfEngagement
<1> QED BY <1>2, <1>3, <1>4, <1>5 DEF OfEngagement

LEMMA CommitPending ==
  ASSUME IInv, NEW s \in Sessions, Commit(s), NEW r, Committing(s, r)
  PROVE  Pending' /\ KeptApart'
<1>1. Pending'
  <2> SUFFICES ASSUME NEW t \in Sessions
               PROVE  Held(tx[t])'
    BY DEF Pending
  <2>1. CASE t = s
    <3>1. tx'[t] = Idle /\ Idle.op = "none" /\ Idle.stage = "idle"
            /\ Idle.by = None /\ Idle.key = None /\ Idle.left = {}
      BY <2>1, IdleIs DEF Committing
    <3>2. None \notin Clients
      BY NoneApart DEF Clients
    <3> QED BY <3>1, <3>2
            DEF Held, OfClient, OfRequest, OfIntent, OfObject, OfEngagement,
                OfDeletion,
                RequestOps, KeyOps, TestingOps
  <2>2. CASE t # s
    <3> PICK q: q = tx[t]
      OBVIOUS
    <3> PICK n: n = tx'[t]
      OBVIOUS
    <3>1. /\ OfClient(n)' /\ OfRequest(n)' /\ OfIntent(n)' /\ OfObject(n)'
          /\ OfEngagement(n)'
      BY <2>2, CommitOfClient, CommitOfRequest, CommitOfKey, CommitOfEngagement
    <3>2. /\ n.op = "grant" => n.user \in Clients
          /\ n.stage = "emptying" => n.op = "delete"
      BY <2>2 DEF Committing, More, Held
    <3>4. OfDeletion(n)'
      <4>1. n.left \in SUBSET Keys /\ OfDeletion(n)
        BY <2>2 DEF Committing, More, Held, OfDeletion, Transaction
      <4> QED BY <4>1, EvidenceStays DEF OfDeletion
    <3>3. Held(n)'
      BY <3>1, <3>2, <3>4 DEF Held
    <3> QED BY <3>3
  <2> QED BY <2>1, <2>2
<1>2. KeptApart'
  <2> SUFFICES ASSUME NEW a \in Sessions, NEW b \in Sessions, a # b
               PROVE  Apart(tx[a], tx[b])'
    BY DEF KeptApart
  <2>1. Apart(tx'[a], tx'[b])
    <3>1. CASE a # s /\ b # s
      BY <3>1, ApartMore DEF IInv, KeptApart, Committing
    <3>2. CASE a = s
      <4>1. tx'[a].op = "none"
        BY <3>2, IdleIs DEF Committing
      <4> QED BY <4>1 DEF Apart
    <3>3. CASE b = s
      <4>1. tx'[b].op = "none" /\ tx'[b].stage = "idle"
        BY <3>3, IdleIs DEF Committing
      <4> QED BY <4>1 DEF Apart
    <3> QED BY <3>1, <3>2, <3>3
  <2> QED BY <2>1 DEF Apart
<1> QED BY <1>1, <1>2

LEMMA CommitGlobal ==
  ASSUME IInv, NEW s \in Sessions, Commit(s), NEW r, Committing(s, r)
  PROVE  /\ Bare' /\ Blank' /\ CompletedOnEvidence' /\ DigestOfObject'
         /\ ClientCredited'
<1>1. /\ r = tx[s] /\ r \in Transaction /\ r.stage = "written" /\ Held(r)
      /\ UNCHANGED store
      /\ r.op = "register" => r.by \notin Clients
  BY DEF Committing, Commit, Held, OfClient
<1>2. \A p \in Requests:
        request'[p] = IF p = r.on THEN WrittenRequest(r) ELSE request[p]
  BY <1>1 DEF Commit
<1>3. \A k \in Keys:
        /\ intent'[k] = IF k = r.key THEN WrittenIntent(r) ELSE intent[k]
        /\ evidence'[k] = IF k = r.key /\ r.op \in {"finalize", "register"}
                          THEN Registered(r) ELSE evidence[k]
  BY <1>1 DEF Commit
<1>4. Bare'
  <2> SUFFICES ASSUME engagement' \in {"PLANNING", "DELETED"}, NEW k \in Keys
               PROVE  evidence'[k] = NoEvidence
    BY DEF Bare
  <2>1. r.op \notin {"finalize", "register"}
    <3> SUFFICES ASSUME r.op \in {"finalize", "register"}
                 PROVE  FALSE
      OBVIOUS
    <3>1. engagement \notin {"PLANNING", "DELETED"}
      BY <1>1 DEF Held, OfEngagement, TestingOps
    <3> QED BY <1>1, <3>1 DEF Commit
  <2>2. evidence[k] = NoEvidence
    <3>1. CASE r.op = "delete"
      BY <1>1, <3>1 DEF Held, OfEngagement
    <3>2. CASE r.op # "delete"
      BY <1>1, <3>2 DEF Commit, IInv, Bare
    <3> QED BY <3>1, <3>2
  <2> QED BY <1>3, <2>1, <2>2
<1>5. Blank'
  <2> SUFFICES ASSUME NEW p \in Requests, request'[p].status = "none"
               PROVE  request'[p] = NoRequest
    BY DEF Blank
  <2>1. CASE p = r.on
    <3>1. request'[p] = WrittenRequest(r)
      BY <1>2, <2>1
    <3>2. r.op \notin {"create", "accept", "complete", "close", "cancel"}
      BY <1>1, <2>1, <3>1, WrittenRequestIs
    <3>3. r.op # "assign"
      BY <1>1, <2>1, <3>1, WrittenRequestIs DEF Held, OfRequest
    <3>4. request'[p] = request[p]
      BY <1>1, <2>1, <3>1, <3>2, <3>3, WrittenRequestIs
    <3> QED BY <3>4 DEF IInv, Blank
  <2>2. CASE p # r.on
    BY <1>2, <2>2 DEF IInv, Blank
  <2> QED BY <2>1, <2>2
<1>6. CompletedOnEvidence'
  <2> SUFFICES ASSUME NEW p \in Requests,
                      request'[p].status \in {"COMPLETED", "CLOSED"}
               PROVE  Proven(p, request[p].fulfiller)'
    BY DEF CompletedOnEvidence, Proven
  <2> PICK u: u = request'[p].fulfiller
    OBVIOUS
  <2>1. Proven(p, u)
    <3>1. request[p].status \in {"COMPLETED", "CLOSED"} =>
            Proven(p, request[p].fulfiller)
      BY DEF IInv, CompletedOnEvidence, Proven
    <3>2. CASE p = r.on
      <4>1. request'[p] = WrittenRequest(r)
        BY <1>2, <3>2
      <4>2. CASE r.op \in {"create", "accept", "cancel"}
        BY <1>1, <3>2, <4>1, <4>2, WrittenRequestIs
      <4>3. CASE r.op = "complete"
        <5>1. u = r.user
          BY <1>1, <3>2, <4>1, <4>3, WrittenRequestIs
        <5> QED BY <1>1, <3>2, <4>3, <5>1 DEF Held, OfRequest
      <4>4. CASE r.op \in {"assign", "close"}
        <5>1. u = request[p].fulfiller
          BY <1>1, <3>2, <4>1, <4>4, WrittenRequestIs
        <5>2. request[p].status \in {"COMPLETED", "CLOSED"}
          BY <1>1, <3>2, <4>1, <4>4, WrittenRequestIs DEF Held, OfRequest
        <5> QED BY <3>1, <5>1, <5>2
      <4>5. CASE r.op \notin {"create", "accept", "assign", "complete",
                             "close", "cancel"}
        BY <1>1, <3>1, <3>2, <4>1, <4>5, WrittenRequestIs
      <4> QED BY <4>2, <4>3, <4>4, <4>5
    <3>3. CASE p # r.on
      BY <1>2, <3>1, <3>3
    <3> QED BY <3>2, <3>3
  <2>2. Proven(p, u)'
    BY <2>1, ProvenStays
  <2> QED BY <2>2 DEF Proven
<1>7. DigestOfObject'
  <2> SUFFICES ASSUME NEW k \in Keys, evidence'[k].source \in Uploads
               PROVE  object[k] \in {evidence'[k].sha256, None}
                        \/ k \in overwritten
    BY <1>1 DEF DigestOfObject, Uploads, store
  <2>1. CASE k = r.key /\ r.op \in {"finalize", "register"}
    <3>1. evidence'[k] = Registered(r)
      BY <1>3, <2>1
    <3>2. r.op = "finalize" /\ evidence'[k].sha256 = r.sha256
      BY <1>1, <2>1, <3>1, RegisteredIs
    <3> QED BY <1>1, <2>1, <3>2 DEF Held, OfObject
  <2>2. CASE ~(k = r.key /\ r.op \in {"finalize", "register"})
    BY <1>3, <2>2 DEF IInv, DigestOfObject, Uploads
  <2> QED BY <2>1, <2>2
<1>8. ClientCredited'
  <2> SUFFICES ASSUME NEW k \in Keys,
                      evidence'[k].source = "CLIENT_PORTAL_UPLOAD"
               PROVE  /\ intent'[k].status = "FINALIZED"
                      /\ evidence'[k].uploader = intent'[k].creator
                      /\ evidence'[k].on = intent'[k].on
                      /\ evidence'[k].on # None
    BY DEF ClientCredited
  <2>1. CASE k = r.key /\ r.op \in {"finalize", "register"}
    <3>1. evidence'[k] = Registered(r)
      BY <1>3, <2>1
    <3>2. /\ r.op = "finalize" /\ r.by \in Clients
          /\ evidence'[k].uploader = r.by /\ evidence'[k].on = r.on
      BY <1>1, <2>1, <3>1, RegisteredIs DEF Uploads
    <3>3. r.on = intent[k].on /\ r.by = intent[k].creator /\ r.on \in Requests
      BY <1>1, <2>1, <3>2 DEF Held, OfIntent, OfClient
    <3>4. intent'[k] = [intent[k] EXCEPT !.status = "FINALIZED"]
      BY <1>3, <2>1, <3>2 DEF WrittenIntent
    <3>5. intent[k] \in Intent
      BY DEF IInv, WellTyped, TypeOK
    <3> QED BY <3>2, <3>3, <3>4, <3>5, NoneApart DEF Intent
  <2>2. CASE ~(k = r.key /\ r.op \in {"finalize", "register"})
    <3>1. evidence'[k] = evidence[k]
      BY <1>3, <2>2
    <3>2. intent[k].status = "FINALIZED"
      BY <3>1 DEF IInv, ClientCredited
    <3>3. k = r.key => r.op \notin {"createIntent", "finalize"}
      BY <1>1, <3>2 DEF Held, OfIntent, NoIntent
    <3>4. intent'[k] = intent[k]
      BY <1>3, <3>3 DEF WrittenIntent
    <3> QED BY <3>1, <3>4 DEF IInv, ClientCredited
  <2> QED BY <2>1, <2>2
<1> QED BY <1>4, <1>5, <1>6, <1>7, <1>8

LEMMA CommitKeeps ==
  ASSUME IInv, NEW s \in Sessions, Commit(s)
  PROVE  IInv'
<1> PICK r: r = tx[s]
  OBVIOUS
<1>1. Committing(s, r)
  BY CommitIs
<1> QED BY <1>1, CommitTyped, CommitPending, CommitGlobal DEF IInv

-----------------------------------------------------------------------------
(* The theorems.                                                           *)

LEMMA InitHolds == Init => IInv
<1> SUFFICES ASSUME Init
             PROVE  IInv
  OBVIOUS
<1>1. \A s \in Sessions: tx[s] = Idle
  BY DEF Init
<1>2. WellTyped
  <2>1. NoRequest \in PbcRequest
    BY DEF NoRequest, PbcRequest, RequestStatuses
  <2>2. NoIntent \in Intent /\ NoEvidence \in Evidence
    BY DEF NoIntent, Intent, NoEvidence, Evidence, Sources
  <2>3. TypeOK
    BY <2>1, <2>2, IdleIs DEF Init, TypeOK
  <2> QED BY <1>1, <2>3, IdleIs DEF WellTyped
<1>3. Pending
  BY <1>1, IdleIs DEF Pending
<1>4. KeptApart
  BY <1>1, IdleIs DEF KeptApart, Apart
<1>5. Bare /\ Blank
  BY DEF Init, Bare, Blank
<1>6. CompletedOnEvidence
  BY DEF Init, CompletedOnEvidence, NoRequest
<1>7. DigestOfObject /\ ClientCredited
  BY DEF Init, DigestOfObject, ClientCredited, NoEvidence
<1> QED BY <1>2, <1>3, <1>4, <1>5, <1>6, <1>7 DEF IInv

LEMMA NextKeeps == IInv /\ [Next]_vars => IInv'
<1> SUFFICES ASSUME IInv, [Next]_vars
             PROVE  IInv'
  OBVIOUS
<1>1. ASSUME NEW s \in Sessions, Request(s)
      PROVE  IInv'
  BY <1>1, RequestKeeps
<1>2. ASSUME NEW s \in Sessions, Execute(s)
      PROVE  IInv'
  BY <1>2, ExecuteKeeps
<1>3. ASSUME NEW s \in Sessions,
             ListEvidence(s) \/ \E k \in Keys: DeleteObject(s, k)
      PROVE  IInv'
  BY <1>3, ListEvidenceKeeps, DeleteObjectKeeps
<1>4. ASSUME NEW s \in Sessions, ExecuteDelete(s)
      PROVE  IInv'
  BY <1>4, ExecuteDeleteKeeps
<1>5. ASSUME NEW s \in Sessions, Commit(s)
      PROVE  IInv'
  BY <1>5, CommitKeeps
<1>6. ASSUME NEW s \in Sessions, Fail(s)
      PROVE  IInv'
  BY <1>6, FailKeeps
<1>7. CASE AdvanceEngagement
  BY <1>7, AdvanceKeeps
<1>8. ASSUME NEW k \in Keys, Expire(k) \/ \E c \in Contents: Put(k, c)
      PROVE  IInv'
  BY <1>8, ExpireKeeps, PutKeeps
<1>9. CASE UNCHANGED vars
  <2>1. UNCHANGED <<tables, store, tx>>
    BY <1>9 DEF vars
  <2> QED BY <2>1
          DEF IInv, WellTyped, TypeOK, Pending, Held, OfClient, OfRequest,
              OfIntent, OfObject, OfEngagement, OfDeletion, Proven, KeptApart,
              Apart, Bare, Blank, CompletedOnEvidence, DigestOfObject, ClientCredited,
              tables, store
<1> QED BY <1>1, <1>2, <1>3, <1>4, <1>5, <1>6, <1>7, <1>8, <1>9 DEF Next

\* The invariant holds in every reachable state.
THEOREM Invariance == Spec => []IInv
<1>1. Init => IInv
  BY InitHolds
<1>2. IInv /\ [Next]_vars => IInv'
  BY NextKeeps
<1> QED BY <1>1, <1>2, PTL DEF Spec

\* The tables, the object store and the transactions are well typed.
THEOREM TypeCorrect == Spec => []TypeOK
<1>1. IInv => TypeOK
  BY DEF IInv, WellTyped
<1> QED BY <1>1, Invariance, PTL

\* A PBC request is COMPLETED or CLOSED on evidence linked to it, uploaded by
\* the user it names.
THEOREM CompletionsProven == Spec => []CompletedOnEvidence
<1>1. IInv => CompletedOnEvidence
  BY DEF IInv
<1> QED BY <1>1, Invariance, PTL

\* The digest of uploaded evidence is that of an object which is there, or was
\* deleted, or was written once more.
THEOREM DigestsTrue == Spec => []DigestOfObject
<1>1. IInv => DigestOfObject
  BY DEF IInv
<1> QED BY <1>1, Invariance, PTL

\* Evidence from the portal is the upload of the client it is credited to.
THEOREM ClientsCredited == Spec => []ClientCredited
<1>1. IInv => ClientCredited
  BY DEF IInv
<1> QED BY <1>1, Invariance, PTL

\* What is finalized has the authorized length, and its type unless the object
\* was written between HEAD and GET.
THEOREM UploadsVerified == Spec => VerifiedUpload
<1>1. IInv =>
        \A s \in Sessions: Commits(s) /\ tx[s].op = "finalize" =>
          /\ tx[s].sha256 \in Sized
          /\ tx[s].sha256 \in Typed \/ "object" \in tx[s].changed
  BY DEF IInv, Pending, Held, OfObject, Commits
<1>2. IInv =>
        [\A s \in Sessions: Commits(s) /\ tx[s].op = "finalize" =>
           /\ tx[s].sha256 \in Sized
           /\ tx[s].sha256 \in Typed \/ "object" \in tx[s].changed]_vars
  BY <1>1
<1> QED BY <1>2, Invariance, PTL DEF VerifiedUpload

\* What a client writes is within the assignment that was checked, unless it
\* changed since.
THEOREM ClientsWithin == Spec => WithinAssignment
<1>1. IInv =>
        \A s \in Sessions:
          Commits(s) /\ tx[s].by \in Clients =>
            LET r == tx[s] p == request[r.on] IN
            /\ p.assignee = r.by \/ "assignment" \in r.changed
            /\ r.by \in access \/ "access" \in r.changed
            /\ p.status \notin {"CLOSED", "CANCELLED"} \/ "status" \in r.changed
  BY DEF IInv, Pending, Held, OfClient, Commits
<1>2. IInv =>
        [\A s \in Sessions:
           Commits(s) /\ tx[s].by \in Clients =>
             LET r == tx[s] p == request[r.on] IN
             /\ p.assignee = r.by \/ "assignment" \in r.changed
             /\ r.by \in access \/ "access" \in r.changed
             /\ p.status \notin {"CLOSED", "CANCELLED"} \/ "status" \in r.changed
        ]_vars
  BY <1>1
<1> QED BY <1>2, Invariance, PTL DEF WithinAssignment

\* No request is created by createPbcRequest, completed, closed or cancelled, no
\* intent made, no upload finalized and no evidence registered outside TESTING
\* unless the engagement's transition came in between.  Assignments and accepted
\* privacy candidates, which look at no status, are not among these operations.
THEOREM TestingOnly == Spec => OnlyInTesting
<1>1. IInv =>
        \A s \in Sessions:
          /\ Commits(s)
          /\ tx[s].op \in {"create", "complete", "close", "cancel",
                           "createIntent", "finalize", "register"}
          => engagement = "TESTING" \/ "engagement" \in tx[s].changed
  BY DEF IInv, Pending, Held, OfEngagement, TestingOps, Commits
<1>2. IInv =>
        [\A s \in Sessions:
           /\ Commits(s)
           /\ tx[s].op \in {"create", "complete", "close", "cancel",
                            "createIntent", "finalize", "register"}
           => engagement = "TESTING" \/ "engagement" \in tx[s].changed]_vars
  BY <1>1
<1> QED BY <1>2, Invariance, PTL DEF OnlyInTesting

\* Objects of registered evidence are deleted only by a deletion of the
\* engagement that its transition overtook.
THEOREM ObjectsStay == Spec => ObjectsKept
<1>1. IInv /\ [Next]_vars =>
        [\A k \in Keys: object[k] # None /\ object'[k] = None =>
           \E s \in Sessions:
             tx[s].op = "delete" /\ "engagement" \in tx[s].changed]_vars
  <2> SUFFICES ASSUME IInv, Next, NEW k \in Keys, object[k] # None,
                      object'[k] = None
               PROVE  \E s \in Sessions:
                        tx[s].op = "delete" /\ "engagement" \in tx[s].changed
    OBVIOUS
  <2>1. PICK s \in Sessions, j \in Keys: DeleteObject(s, j)
    <3>1. ASSUME NEW s \in Sessions, Request(s) \/ Execute(s)
                   \/ ListEvidence(s) \/ ExecuteDelete(s) \/ Commit(s)
                   \/ Fail(s)
          PROVE  FALSE
      <4>1. CASE Request(s)
        <5>1. UNCHANGED object
          BY <4>1
          DEF Request, Administers, Executes, Stores, Portal,
              GrantClientAccess, RevokeClientAccess, CreatePbcRequest,
              AcceptPrivacyAssuranceCandidate,
              AssignPbcToClientUser, CompletePbcRequest, ClosePbcRequest,
              CancelPbcRequest, CreateEvidenceUploadIntent,
              CreateClientEvidenceUploadIntent, FinalizeEvidenceUpload,
              FinalizeClientEvidenceUpload, RegisterEvidence,
              SubmitPbcResponse, DeletePlanningEngagement, Begin, store
        <5> QED BY <5>1
      <4>2. CASE \/ Execute(s) \/ ListEvidence(s) \/ ExecuteDelete(s)
                 \/ Commit(s) \/ Fail(s)
        BY <4>2 DEF Execute, ListEvidence, ExecuteDelete, Commit, Fail, store
      <4> QED BY <3>1, <4>1, <4>2
    <3>2. CASE AdvanceEngagement
      BY <3>2 DEF AdvanceEngagement, store
    <3>3. ASSUME NEW j \in Keys, Expire(j)
          PROVE  FALSE
      BY <3>3 DEF Expire
    <3>4. ASSUME NEW j \in Keys, NEW c \in Contents, Put(j, c)
          PROVE  FALSE
      <4>1. object' = [object EXCEPT ![j] = c]
        BY <3>4 DEF Put
      <4> QED BY <4>1, NoneApart DEF IInv, WellTyped, TypeOK
    <3> QED BY <3>1, <3>2, <3>3, <3>4 DEF Next
  <2>2. tx[s].left # {}
    BY <2>1 DEF DeleteObject
  <2> QED BY <2>2 DEF IInv, Pending, Held, OfDeletion
<1> QED BY <1>1, Invariance, PTL DEF Spec, ObjectsKept


-----------------------------------------------------------------------------
(* Upload intents as one-time grants.                                      *)

\* A finalized intent has its row of evidence.
Spent ==
  \A k \in Keys: intent[k].status = "FINALIZED" => evidence[k] # NoEvidence

\* What a commit makes of an intent and its evidence.
LEMMA CommitSpends ==
  ASSUME IInv, Spent, NEW s \in Sessions, Commit(s), NEW k \in Keys
  PROVE  \/ /\ intent'[k].status = intent[k].status
            /\ intent[k].status = "FINALIZED" => evidence'[k] = evidence[k]
         \/ /\ intent[k].status = "none" /\ intent'[k].status = "PENDING"
            /\ k = tx[s].key
         \/ /\ intent[k].status = "PENDING" /\ intent'[k].status = "FINALIZED"
            /\ evidence'[k] \in Evidence \ {NoEvidence} /\ k = tx[s].key
<1>1. PICK r: r = tx[s] /\ Committing(s, r)
  BY CommitIs
<1>2. /\ intent'[k] = IF k = r.key THEN WrittenIntent(r) ELSE intent[k]
      /\ evidence'[k] = IF k = r.key /\ r.op \in {"finalize", "register"}
                        THEN Registered(r) ELSE evidence[k]
  BY <1>1 DEF Commit
<1>3. intent[k] \in Intent
  BY DEF IInv, WellTyped, TypeOK
<1>4. intent[k].status = "FINALIZED" => evidence'[k] = evidence[k]
  BY <1>1, EvidenceStays DEF Spent
<1>5. CASE k = r.key /\ r.op = "createIntent"
  <2>1. intent[k] = NoIntent
    BY <1>1, <1>5 DEF Committing, Held, OfIntent
  <2>2. intent'[k] = [status |-> "PENDING", creator |-> r.by, on |-> r.on]
    BY <1>2, <1>5 DEF WrittenIntent
  <2> QED BY <1>1, <1>5, <2>1, <2>2 DEF NoIntent
<1>6. CASE k = r.key /\ r.op = "finalize"
  <2>1. intent[k].status = "PENDING"
    BY <1>1, <1>6 DEF Committing, Held, OfIntent
  <2>2. intent'[k] = [intent[k] EXCEPT !.status = "FINALIZED"]
    BY <1>2, <1>6 DEF WrittenIntent
  <2>3. intent'[k].status = "FINALIZED"
    BY <1>3, <2>2 DEF Intent
  <2>4. r \in Transaction /\ r.op # "register"
    BY <1>1, <1>6 DEF Committing
  <2>5. Registered(r) \in Evidence /\ Registered(r) # NoEvidence
    BY <2>4, RegisteredIs
  <2>6. evidence'[k] = Registered(r)
    BY <1>2, <1>6
  <2> QED BY <1>1, <1>6, <2>1, <2>3, <2>5, <2>6
<1>7. CASE ~(k = r.key /\ r.op \in {"createIntent", "finalize"})
  <2>1. intent'[k] = intent[k]
    BY <1>2, <1>7 DEF WrittenIntent
  <2> QED BY <1>4, <2>1
<1> QED BY <1>5, <1>6, <1>7

\* Nothing but a commit changes requests, intents or evidence.
LEMMA OthersSpare ==
  ASSUME Next, ~\E s \in Sessions: Commit(s)
  PROVE  UNCHANGED <<request, intent, evidence>>
<1>1. ASSUME NEW s \in Sessions, Request(s)
      PROVE  UNCHANGED <<request, intent, evidence>>
  BY <1>1
  DEF Request, Administers, Executes, Stores, Portal, GrantClientAccess,
      RevokeClientAccess, CreatePbcRequest, AssignPbcToClientUser,
      AcceptPrivacyAssuranceCandidate, CompletePbcRequest, ClosePbcRequest,
      CancelPbcRequest, CreateEvidenceUploadIntent,
      CreateClientEvidenceUploadIntent, FinalizeEvidenceUpload,
      FinalizeClientEvidenceUpload, RegisterEvidence,
      SubmitPbcResponse, DeletePlanningEngagement, Begin, tables
<1>2. ASSUME NEW s \in Sessions,
             \/ Execute(s) \/ ListEvidence(s)
             \/ \E k \in Keys: DeleteObject(s, k)
             \/ ExecuteDelete(s) \/ Fail(s)
      PROVE  UNCHANGED <<request, intent, evidence>>
  BY <1>2 DEF Execute, ListEvidence, DeleteObject, ExecuteDelete, Fail, tables
<1>3. CASE \/ AdvanceEngagement
           \/ \E k \in Keys: Expire(k) \/ \E c \in Contents: Put(k, c)
  BY <1>3 DEF AdvanceEngagement, Expire, Put, tables
<1> QED BY <1>1, <1>2, <1>3 DEF Next

\* A step of the portal creates an intent, finalizes one, or does neither.
LEMMA UploadsMove ==
  ASSUME IInv, Spent, [Next]_vars
  PROVE  Spent' /\ [UploadGrants!Next]_UploadGrants!vars
<1> USE DEF UploadGrants!vars
<1> DEFINE State == [k \in Keys |-> UploadState[intent[k].status]]
           Given == [k \in Keys |-> IF intent[k].status = "FINALIZED"
                                    THEN {evidence[k]} ELSE {}]
<1>1. CASE intent' = intent /\ evidence' = evidence
  BY <1>1 DEF Spent
<1>2. ASSUME NEW s \in Sessions, Commit(s)
      PROVE  Spent' /\ [UploadGrants!Next]_UploadGrants!vars
  <2>1. Spent'
    BY <1>2, CommitSpends DEF Spent
  <2>2. CASE \A k \in Keys: /\ intent'[k].status = intent[k].status
                            /\ intent[k].status = "FINALIZED" =>
                                 evidence'[k] = evidence[k]
    BY <2>1, <2>2
  <2>3. ASSUME NEW k \in Keys, intent[k].status = "none",
               intent'[k].status = "PENDING", k = tx[s].key
        PROVE  UploadGrants!Next
    <3>1. \A j \in Keys \ {k}:
            /\ intent'[j].status = intent[j].status
            /\ intent[j].status = "FINALIZED" => evidence'[j] = evidence[j]
      BY <1>2, <2>3, CommitSpends
    <3>2. Given' = Given
      BY <2>3, <3>1
    <3>3. UploadState["none"] = "none" /\ UploadState["PENDING"] = "offered"
      BY DEF UploadState
    <3>4. State' = [State EXCEPT ![k] = "offered"] /\ State[k] = "none"
      <4>1. \A j \in Keys: UploadState[intent'[j].status] =
              IF j = k THEN "offered" ELSE UploadState[intent[j].status]
        BY <2>3, <3>1, <3>3
      <4> QED BY <2>3, <3>3, <4>1 DEF UploadState
    <3>5. UploadGrants!Offer(k)
      BY <3>2, <3>4 DEF UploadGrants!Offer, UploadGrants!Moves
    <3> QED BY <3>5 DEF UploadGrants!Next
  <2>4. ASSUME NEW k \in Keys, intent[k].status = "PENDING",
               intent'[k].status = "FINALIZED", k = tx[s].key,
               evidence'[k] \in Evidence \ {NoEvidence}
        PROVE  UploadGrants!Next
    <3>1. \A j \in Keys \ {k}:
            /\ intent'[j].status = intent[j].status
            /\ intent[j].status = "FINALIZED" => evidence'[j] = evidence[j]
      BY <1>2, <2>4, CommitSpends
    <3>2. PICK e \in Evidence \ {NoEvidence}: e = evidence'[k]
      BY <2>4
    <3>3. Given' = [Given EXCEPT ![k] = {e}]
      <4>1. \A j \in Keys:
              (IF intent'[j].status = "FINALIZED" THEN {evidence'[j]} ELSE {}) =
                IF j = k THEN {e}
                ELSE IF intent[j].status = "FINALIZED" THEN {evidence[j]}
                ELSE {}
        BY <2>4, <3>1, <3>2
      <4> QED BY <4>1
    <3>4. UploadState["PENDING"] = "offered"
          /\ UploadState["FINALIZED"] = "taken"
      BY DEF UploadState
    <3>5. State' = [State EXCEPT ![k] = "taken"] /\ State[k] = "offered"
      <4>1. \A j \in Keys: UploadState[intent'[j].status] =
              IF j = k THEN "taken" ELSE UploadState[intent[j].status]
        BY <2>4, <3>1, <3>4
      <4> QED BY <2>4, <3>4, <4>1 DEF UploadState
    <3>6. UploadGrants!Take(k, e)
      BY <3>3, <3>5 DEF UploadGrants!Take, UploadGrants!Moves
    <3> QED BY <3>6 DEF UploadGrants!Next
  <2> QED BY <1>2, <2>1, <2>2, <2>3, <2>4, CommitSpends
<1>3. CASE UNCHANGED vars
  BY <1>1, <1>3 DEF vars, tables
<1> QED BY <1>1, <1>2, <1>3, OthersSpare

\* An upload intent is finalized at most once, whatever finalizations race, is
\* never pending again, and the row of evidence it gave is never rewritten.
THEOREM UploadsAreGrants == Spec => UploadPromise
<1>1. Init => Spent /\ UploadGrants!Init
  <2> SUFFICES ASSUME Init PROVE Spent /\ UploadGrants!Init
    OBVIOUS
  <2>1. \A k \in Keys: intent[k].status = "none"
    BY DEF Init, NoIntent
  <2> QED BY <2>1 DEF Spent, UploadGrants!Init, UploadState
<1>2. IInv /\ Spent /\ [Next]_vars =>
        Spent' /\ [UploadGrants!Next]_UploadGrants!vars
  BY UploadsMove
<1> QED
  BY <1>1, <1>2, Invariance, PTL DEF Spec, UploadPromise, UploadGrants!Spec

-----------------------------------------------------------------------------
(* Who waits for whom.                                                     *)

\* Transactions that wait for each other's locks never form a cycle: each
\* waits only for others of a lower rank.
THEOREM LocksAreOrdered == Spec => []LocksOrdered
<1>1. IInv => LocksOrdered
  <2> SUFFICES ASSUME IInv, NEW s \in Sessions, NEW t \in Sessions, s # t,
                      tx[s].stage \in {"checked", "emptying"}, Obstructs(t, s)
               PROVE  Rank(tx[t]) < Rank(tx[s])
    BY DEF LocksOrdered
  <2>1. tx[s].stage # "written"
    OBVIOUS
  <2>2. CASE tx[t].stage = "written"
    BY <2>1, <2>2 DEF Rank
  <2>3. CASE tx[t].stage # "written"
    <3>1. tx[s].on # None /\ Locks(t, tx[s].on)
      BY <2>3 DEF Obstructs, Uses, Inserts
    <3>2. Apart(tx[t], tx[s])
      BY DEF IInv, KeptApart
    <3>3. tx[s].op \notin {"complete", "close", "cancel"}
      BY <3>1, <3>2 DEF Apart, Locks
    <3> QED BY <2>1, <2>3, <3>1, <3>3 DEF Rank, Locks
  <2> QED BY <2>2, <2>3
<1> QED BY <1>1, Invariance, PTL

-----------------------------------------------------------------------------
(* One request at a time.                                                  *)

\* At most one request is open.
Serial ==
  \A s, t \in Sessions:
    tx[s].stage # "idle" /\ tx[t].stage # "idle" => s = t

\* What a request has read may change by the URL and by the engagement's
\* transitions, which are no requests here, and by nothing else.
Undisturbed == \A s \in Sessions: tx[s].changed \subseteq {"engagement", "object"}

LEMMA AsksNew ==
  \A op, u, p, k, c: /\ Asks(op, u, p, k).changed = {}
                     /\ [Asks(op, u, p, k) EXCEPT !.user = c].changed = {}
BY DEF Asks, Idle

LEMMA RequestIsNew ==
  ASSUME NEW s \in Sessions, Request(s)
  PROVE  \E r: r.changed = {} /\ tx' = [tx EXCEPT ![s] = r]
<1> USE AsksNew
<1>1. PICK u \in Users:
        \/ Administers(s, u)
        \/ \E p \in Requests: Executes(s, u, p)
        \/ \E k \in Keys: Stores(s, u, k) \/ Portal(s, u, k)
        \/ DeletePlanningEngagement(s, u)
  BY DEF Request
<1>2. CASE Administers(s, u)
  BY <1>2 DEF Administers, GrantClientAccess, RevokeClientAccess,
              AssignPbcToClientUser, Begin
<1>3. CASE \E p \in Requests: Executes(s, u, p)
  BY <1>3 DEF Executes, CreatePbcRequest, AcceptPrivacyAssuranceCandidate,
              CompletePbcRequest, ClosePbcRequest, CancelPbcRequest, Begin
<1>4. CASE \E k \in Keys: Stores(s, u, k)
  BY <1>4 DEF Stores, CreateEvidenceUploadIntent, FinalizeEvidenceUpload,
              RegisterEvidence, Begin
<1>5. CASE \E k \in Keys: Portal(s, u, k)
  BY <1>5 DEF Portal, CreateClientEvidenceUploadIntent,
              FinalizeClientEvidenceUpload, SubmitPbcResponse, Begin
<1>6. CASE DeletePlanningEngagement(s, u)
  BY <1>6 DEF DeletePlanningEngagement, Begin
<1> QED BY <1>1, <1>2, <1>3, <1>4, <1>5, <1>6

LEMMA NoticedOnly ==
  ASSUME NEW q \in Transaction, NEW C,
         q.changed \cup C \subseteq {"engagement", "object"}
  PROVE  Noticed(q, C).changed \subseteq {"engagement", "object"}
<1> DEFINE D == CASE q.op \in {"createIntent", "finalize", "respond"} -> C
                  [] q.op \in {"create", "complete", "close", "cancel",
                               "register", "delete"} -> C \cap {"engagement"}
                  [] OTHER -> {}
<1>1. Noticed(q, C) = [q EXCEPT !.changed = @ \cup D]
  BY DEF Noticed
<1>2. D \subseteq C
  OBVIOUS
<1> HIDE DEF D
<1>3. Noticed(q, C).changed = q.changed \cup D
  BY <1>1 DEF Transaction
<1> QED BY <1>2, <1>3

LEMMA UndisturbedStays ==
  ASSUME IInv, Undisturbed, Serial, [Next]_vars
  PROVE  Undisturbed'
<1> USE DEF Undisturbed
<1>0. tx \in [Sessions -> Transaction]
  BY DEF IInv, WellTyped, TypeOK
<1>1. ASSUME NEW s \in Sessions, NEW r, tx' = [tx EXCEPT ![s] = r],
             r.changed \subseteq {"engagement", "object"}
      PROVE  Undisturbed'
  BY <1>0, <1>1
<1>2. ASSUME NEW s \in Sessions, Request(s) PROVE Undisturbed'
  <2>1. PICK r: r.changed = {} /\ tx' = [tx EXCEPT ![s] = r]
    BY <1>2, RequestIsNew
  <2> QED BY <1>1, <2>1
<1>3. ASSUME NEW s \in Sessions, Execute(s) PROVE Undisturbed'
  <2> DEFINE r == [tx[s] EXCEPT !.stage = "written", !.sha256 = Digest(tx[s]),
                                !.changed = @ \ Rechecked(tx[s])]
  <2>1. tx' = [tx EXCEPT ![s] = r]
    BY <1>3 DEF Execute
  <2>2. r.changed = tx[s].changed \ Rechecked(tx[s])
    BY <1>0 DEF Transaction
  <2> HIDE DEF r
  <2> QED BY <1>1, <2>1, <2>2
<1>4. ASSUME NEW s \in Sessions,
             \/ ListEvidence(s) \/ \E k \in Keys: DeleteObject(s, k)
             \/ ExecuteDelete(s)
      PROVE  Undisturbed'
  <2>1. PICK stage, left:
          tx' = [tx EXCEPT ![s] = [tx[s] EXCEPT !.stage = stage, !.left = left]]
    <3>1. CASE ListEvidence(s)
      BY <1>0, <3>1 DEF ListEvidence
    <3>2. ASSUME NEW k \in Keys, DeleteObject(s, k)
          PROVE  \E stage, left: tx' = [tx EXCEPT ![s] =
                   [tx[s] EXCEPT !.stage = stage, !.left = left]]
      <4>1. tx' = [tx EXCEPT ![s] = [tx[s] EXCEPT !.stage = tx[s].stage,
                                                  !.left = tx[s].left \ {k}]]
        BY <1>0, <3>2 DEF DeleteObject, Transaction
      <4> QED BY <4>1
    <3>3. CASE ExecuteDelete(s)
      <4>1. tx' = [tx EXCEPT ![s] = [tx[s] EXCEPT !.stage = "written",
                                                  !.left = tx[s].left]]
        BY <1>0, <3>3 DEF ExecuteDelete, Transaction
      <4> QED BY <4>1
    <3> QED BY <1>4, <3>1, <3>2, <3>3
  <2>2. [tx[s] EXCEPT !.stage = stage, !.left = left].changed = tx[s].changed
    BY <1>0 DEF Transaction
  <2> QED BY <1>1, <2>1, <2>2
<1>5. ASSUME NEW s \in Sessions, Fail(s) PROVE Undisturbed'
  <2>1. Idle.changed = {}
    BY DEF Idle
  <2> QED BY <1>1, <1>5, <2>1 DEF Fail
<1>6. ASSUME NEW s \in Sessions, Commit(s) PROVE Undisturbed'
  <2>1. Committing(s, tx[s])
    BY <1>6, CommitIs
  <2>2. \A t \in Sessions: tx'[t] = Idle
    <3>1. \A t \in Sessions \ {s}: tx[t].stage = "idle"
      BY <2>1 DEF Serial, Committing
    <3> QED BY <2>1, <3>1 DEF Committing
  <2>3. Idle.changed = {}
    BY DEF Idle
  <2> QED BY <2>2, <2>3
<1>7. CASE AdvanceEngagement
  <2>1. \A t \in Sessions: tx'[t] = Noticed(tx[t], {"engagement"})
    BY <1>7 DEF AdvanceEngagement
  <2> QED BY <1>0, <2>1, NoticedOnly
<1>8. ASSUME NEW k \in Keys, NEW c \in Contents, Put(k, c) PROVE Undisturbed'
  <2>1. \A t \in Sessions:
          tx'[t] = tx[t] \/ tx'[t] = Noticed(tx[t], {"object"})
    BY <1>8 DEF Put
  <2> QED BY <1>0, <2>1, NoticedOnly
<1>9. CASE UNCHANGED vars \/ \E k \in Keys: Expire(k)
  BY <1>9 DEF vars, Expire
<1> QED BY <1>2, <1>3, <1>4, <1>5, <1>6, <1>7, <1>8, <1>9 DEF Next

\* As long as requests do not overlap, the portal's checks are enough: what a
\* client writes is for a request that is open and assigned to them, of a
\* client they have access to, as the commit finds them.
THEOREM SerialClientsWithin ==
  Spec /\ []Serial =>
    [][\A s \in Sessions:
         Commits(s) /\ tx[s].by \in Clients =>
           /\ tx[s].by \in access
           /\ request[tx[s].on].assignee = tx[s].by
           /\ request[tx[s].on].status \notin {"CLOSED", "CANCELLED"}]_vars
<1> DEFINE Within ==
      \A s \in Sessions:
         Commits(s) /\ tx[s].by \in Clients =>
           /\ tx[s].by \in access
           /\ request[tx[s].on].assignee = tx[s].by
           /\ request[tx[s].on].status \notin {"CLOSED", "CANCELLED"}
<1>1. Init => Undisturbed
  BY DEF Init, Undisturbed, Idle
<1>2. IInv /\ Undisturbed /\ Serial /\ [Next]_vars => Undisturbed'
  BY UndisturbedStays
<1>3. IInv /\ Undisturbed => [Within]_vars
  BY DEF IInv, Pending, Held, OfClient, Undisturbed, Commits
<1> QED BY <1>1, <1>2, <1>3, Invariance, PTL DEF Spec

-----------------------------------------------------------------------------
(* Requests move forward.                                                  *)

LEMMA CommitForward ==
  ASSUME IInv, NEW s \in Sessions, Commit(s), NEW p \in Requests
  PROVE  /\ \/ request[p].status = request'[p].status
            \/ <<request[p].status, request'[p].status>> \in Forward
         /\ request[p].status \in {"COMPLETED", "CLOSED"} =>
              request'[p].fulfiller = request[p].fulfiller
<1>1. PICK r: r = tx[s] /\ Committing(s, r)
  BY CommitIs
<1>2. PICK old, new: old = request[p] /\ new = request'[p]
  OBVIOUS
<1>3. /\ r \in Transaction /\ Held(r)
      /\ new = IF p = r.on THEN WrittenRequest(r) ELSE old
  BY <1>1, <1>2 DEF Committing, Commit
<1>4. CASE p # r.on
  BY <1>2, <1>3, <1>4
<1>5. CASE p = r.on
  <2>1. new = WrittenRequest(r) /\ OfRequest(r)
    BY <1>3, <1>5 DEF Held
  <2>2. CASE r.op \in {"create", "accept"}
    <3>1. old.status = "none" /\ new.status = "OPEN"
      BY <1>2, <1>3, <1>5, <2>1, <2>2, WrittenRequestIs DEF OfRequest, NoRequest
    <3> QED BY <1>2, <3>1 DEF Forward
  <2>3. CASE r.op = "assign"
    <3>1. /\ new.status = IF old.status = "OPEN" THEN "IN_PROGRESS"
                          ELSE old.status
          /\ new.fulfiller = old.fulfiller
      BY <1>2, <1>3, <1>5, <2>1, <2>3, WrittenRequestIs
    <3> QED BY <1>2, <3>1 DEF Forward
  <2>4. CASE r.op \in {"complete", "cancel"}
    <3>1. /\ old.status \in {"OPEN", "IN_PROGRESS"}
          /\ new.status \in {"COMPLETED", "CANCELLED"}
      BY <1>2, <1>3, <1>5, <2>1, <2>4, WrittenRequestIs DEF OfRequest
    <3> QED BY <1>2, <3>1 DEF Forward
  <2>5. CASE r.op = "close"
    <3>1. /\ old.status = "COMPLETED" /\ new.status = "CLOSED"
          /\ new.fulfiller = old.fulfiller
      BY <1>2, <1>3, <1>5, <2>1, <2>5, WrittenRequestIs DEF OfRequest
    <3> QED BY <1>2, <3>1 DEF Forward
  <2>6. CASE r.op \notin {"create", "accept", "assign", "complete", "close",
                       "cancel"}
    BY <1>2, <1>3, <1>5, <2>1, <2>6, WrittenRequestIs
  <2> QED BY <2>2, <2>3, <2>4, <2>5, <2>6
<1> QED BY <1>4, <1>5

\* A PBC request is not reopened, cancelled after its completion or credited to
\* another user, whatever completions, assignments and cancellations overlap:
\* the row lock of the service and the statement of the assignment see to it.
THEOREM RequestsMoveForward == Spec => RequestsForward
<1> DEFINE Moves ==
      \A p \in Requests:
       LET old == request[p] new == request'[p] IN
       /\ old.status = new.status \/ <<old.status, new.status>> \in Forward
       /\ old.status \in {"COMPLETED", "CLOSED"} =>
            new.fulfiller = old.fulfiller
<1>1. IInv /\ [Next]_vars => [Moves]_vars
  <2> SUFFICES ASSUME IInv, Next, NEW p \in Requests
               PROVE  /\ \/ request[p].status = request'[p].status
                         \/ <<request[p].status, request'[p].status>> \in Forward
                      /\ request[p].status \in {"COMPLETED", "CLOSED"} =>
                           request'[p].fulfiller = request[p].fulfiller
    OBVIOUS
  <2>1. CASE \E s \in Sessions: Commit(s)
    BY <2>1, CommitForward
  <2>2. CASE ~\E s \in Sessions: Commit(s)
    BY <2>2, OthersSpare
  <2> QED BY <2>1, <2>2
<1> QED BY <1>1, Invariance, PTL DEF Spec, RequestsForward
=============================================================================
