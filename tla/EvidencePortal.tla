--------------------------- MODULE EvidencePortal ---------------------------
(***************************************************************************)
(* Evidence of one engagement, from the PBC request that asks for it to    *)
(* the row that proves it: PBC requests                                    *)
(* (src/src/domain/engagement/pbc-service.ts), those that an accepted      *)
(* privacy candidate makes (db/migrations/0016), the client portal         *)
(* (domain/client-portal), upload intents and registration                 *)
(* (domain/evidence), the deletion of an engagement                        *)
(* (domain/engagement/deletion-service.ts) and the object store they       *)
(* upload to, which is no part of any transaction.                         *)
(*                                                                         *)
(* A browser writes an object through a URL that stays valid for ten       *)
(* minutes, before and after the server reads it back.  The server reads   *)
(* it twice: HEAD for the content type, then GET for the bytes.            *)
(*                                                                         *)
(* Requests are transactions as in FindingClosure: idle, checked, written, *)
(* idle.  complete, close, cancel and finalize hold a row lock from their  *)
(* first read on.  What a finalization does between its checks and its     *)
(* statements is local to it: HEAD is part of the checks and GET of the    *)
(* statements.                                                             *)
(***************************************************************************)
EXTENDS Integers, FiniteSets, Rbac

CONSTANTS
  Users,        \* members of the organization
  RoleOf,       \* their membership roles; the CLIENTs are of this client
  Sessions,     \* pooled database connections, one transaction at a time
  Requests,     \* PBC requests that may be created
  Keys,         \* storage keys: an object, its intent and its evidence
  Contents,     \* what may be uploaded, a digest each
  Sized,        \* the contents of the authorized byte length
  Typed,        \* those uploaded with the authorized content type
  None          \* no user, request, key or content

ASSUME RoleAssumption == RoleOf \in [Users -> Roles]
ASSUME ContentAssumption == Sized \subseteq Contents /\ Typed \subseteq Contents
ASSUME NoneAssumption == None \notin Users \cup Requests \cup Keys \cup Contents

VARIABLES
  engagement,   \* engagements.status; FROZEN and DELETED say what they say
  access,       \* the users with an ACTIVE row in client_user_access
  request,      \* rows of pbc_requests
  intent,       \* rows of evidence_upload_intents
  object,       \* the object store
  age,          \* of an intent and its URL: live, expired, dead
  evidence,     \* rows of evidence, at most one per storage key
  overwritten,  \* history: objects written after their digest was taken
  tx            \* the transaction of each session

tables == <<engagement, access, request, intent, evidence>>
store == <<object, age, overwritten>>
vars == <<tables, store, tx>>

-----------------------------------------------------------------------------
Clients == {u \in Users: RoleOf[u] = "CLIENT"}

RequestStatuses ==
  {"none", "OPEN", "IN_PROGRESS", "COMPLETED", "CLOSED", "CANCELLED"}

PbcRequest ==
  [status: RequestStatuses, requester: Users \cup {None},
   assignee: Users \cup {None}, fulfiller: Users \cup {None}]

NoRequest ==
  [status |-> "none", requester |-> None, assignee |-> None, fulfiller |-> None]

\* EXPIRED and CANCELLED are never stored: the update to EXPIRED is rolled
\* back by the error that follows it, and no code writes CANCELLED.
Intent ==
  [status: {"none", "PENDING", "FINALIZED"}, creator: Users \cup {None},
   on: Requests \cup {None}]

NoIntent == [status |-> "none", creator |-> None, on |-> None]

\* source_type: CLIENT_PORTAL_UPLOAD or UPLOAD, here REGISTERED, without a
\* sha256, where the auditor gave the digest.
Sources == {"none", "REGISTERED", "UPLOAD", "CLIENT_PORTAL_UPLOAD"}

Evidence ==
  [source: Sources, uploader: Users \cup {None}, on: Requests \cup {None},
   sha256: Contents \cup {None}]

NoEvidence == [source |-> "none", uploader |-> None, on |-> None, sha256 |-> None]

Operations ==
  {"grant", "revoke", "create", "accept", "assign", "complete", "close",
   "cancel", "createIntent", "finalize", "register", "respond", "delete"}

\* What others may change under a request that has checked it.
Changes == {"assignment", "status", "access", "engagement", "object"}

\* user: whom the operation is about.  changed: what has changed since it was
\* last read.  left: the objects a deletion has still to delete.
Transaction ==
  [stage: {"idle", "checked", "emptying", "written"},
   op: Operations \cup {"none"}, by: Users \cup {None},
   on: Requests \cup {None}, key: Keys \cup {None}, user: Users \cup {None},
   sha256: Contents \cup {None}, changed: SUBSET Changes, left: SUBSET Keys]

Idle ==
  [stage |-> "idle", op |-> "none", by |-> None, on |-> None, key |-> None,
   user |-> None, sha256 |-> None, changed |-> {}, left |-> {}]

TypeOK ==
  /\ engagement \in {"PLANNING", "TESTING", "REVIEW", "FROZEN", "DELETED"}
  /\ access \subseteq Clients
  /\ request \in [Requests -> PbcRequest]
  /\ intent \in [Keys -> Intent]
  /\ object \in [Keys -> Contents \cup {None}]
  /\ age \in [Keys -> {"live", "expired", "dead"}]
  /\ evidence \in [Keys -> Evidence]
  /\ overwritten \subseteq Keys
  /\ tx \in [Sessions -> Transaction]

Init ==
  /\ engagement = "PLANNING"
  /\ access = {}
  /\ request = [p \in Requests |-> NoRequest]
  /\ intent = [k \in Keys |-> NoIntent]
  /\ object = [k \in Keys |-> None]
  /\ age = [k \in Keys |-> "live"]
  /\ evidence = [k \in Keys |-> NoEvidence]
  /\ overwritten = {}
  /\ tx = [s \in Sessions |-> Idle]

-----------------------------------------------------------------------------
(* Row locks.                                                              *)

\* SELECT ... FOR UPDATE of the request, from the first read on.
Locks(t, p) == tx[t].op \in {"complete", "close", "cancel"} /\ tx[t].on = p

\* A foreign key to the request, or an update of it.
Uses(t, p) == tx[t].stage = "written" /\ tx[t].on = p

Free(s, p) == \A t \in Sessions \ {s}: ~Locks(t, p)

\* Mutant: requests are read FOR SHARE, and locked when they are updated.
UnusedShared(s, p) == \A t \in Sessions \ {s}: ~Uses(t, p)

Unused(s, p) == Free(s, p) /\ \A t \in Sessions \ {s}: ~Uses(t, p)

\* The intent is locked by a finalization, FOR UPDATE from its first read on.
IntentFree(s, k) ==
  \A t \in Sessions \ {s}: tx[t].key = k => tx[t].op # "finalize"

\* An insert of evidence under a storage key, unique in the organization.
Inserts(t, k) ==
  /\ tx[t].stage = "written" /\ tx[t].op \in {"finalize", "register"}
  /\ tx[t].key = k

\* ids of new rows are random, no two transactions choose the same.
Fresh(x) == \A t \in Sessions: x \notin {tx[t].on, tx[t].key}

-----------------------------------------------------------------------------
(* Requests: what the service reads and checks before it writes.           *)

Begin(s, u, permission, r) ==
  /\ tx[s].stage = "idle"
  /\ HasPermission(RoleOf[u], permission)
  /\ tx' = [tx EXCEPT ![s] = r]
  /\ UNCHANGED <<tables, store>>

Asks(op, u, p, k) ==
  [Idle EXCEPT !.stage = "checked", !.op = op, !.by = u, !.on = p, !.key = k]

\* Mutant: without the trigger that asks for a CLIENT membership.
GrantAnyUserAccess(s, u) ==
  \E c \in Users \ access:
    Begin(s, u, "organization.manage_users",
          [Asks("grant", u, None, None) EXCEPT !.user = c])

\* To a client who has it, it changes nothing here.
GrantClientAccess(s, u) ==
  \E c \in Clients \ access:
    Begin(s, u, "organization.manage_users",
          [Asks("grant", u, None, None) EXCEPT !.user = c])

RevokeClientAccess(s, u) ==
  \E c \in access:
    Begin(s, u, "organization.manage_users",
          [Asks("revoke", u, None, None) EXCEPT !.user = c])

\* Mutant: the engagement's status is not looked at.
CreateAnytimePbcRequest(s, u, p) ==
  /\ request[p].status = "none" /\ Fresh(p)
  /\ Begin(s, u, "evidence.upload", Asks("create", u, p, None))

CreatePbcRequest(s, u, p) ==
  /\ engagement = "TESTING" /\ request[p].status = "none" /\ Fresh(p)
  /\ Begin(s, u, "evidence.upload", Asks("create", u, p, None))

\* The other way a request comes to be: an accepted candidate of type
\* EVIDENCE_REQUEST.  Neither the service nor the function of 0016 looks at
\* the engagement's status, only at the freeze (Refused).  Candidates, their
\* proposers and the lock on them are Registers'; each is of another request.
AcceptPrivacyAssuranceCandidate(s, u, p) ==
  /\ engagement # "DELETED" /\ request[p].status = "none" /\ Fresh(p)
  /\ Begin(s, u, "privacy.assurance.decide", Asks("accept", u, p, None))

\* One statement, which looks at neither status.
AssignPbcToClientUser(s, u, p) ==
  /\ request[p].status # "none"
  /\ \E c \in Clients \ {request[p].assignee}:
       Begin(s, u, "workpaper.update",
             [Asks("assign", u, p, None) EXCEPT !.user = c])

\* Mutant: any evidence of the engagement will do.
CompleteOnAnyEvidence(s, u, p) ==
  /\ Unused(s, p)
  /\ request[p].status \in {"OPEN", "IN_PROGRESS"} /\ engagement = "TESTING"
  /\ \E k \in Keys:
       /\ evidence[k].source # "none"
       /\ Begin(s, u, "workpaper.update",
                [Asks("complete", u, p, None) EXCEPT !.user = evidence[k].uploader])

\* Completed by the uploader of the latest ACTIVE evidence linked: of any.
CompletePbcRequest(s, u, p) ==
  /\ Unused(s, p)
  /\ request[p].status \in {"OPEN", "IN_PROGRESS"} /\ engagement = "TESTING"
  /\ \E k \in Keys:
       /\ evidence[k].source # "none" /\ evidence[k].on = p
       /\ Begin(s, u, "workpaper.update",
                [Asks("complete", u, p, None) EXCEPT !.user = evidence[k].uploader])

ClosePbcRequest(s, u, p) ==
  /\ Unused(s, p)
  /\ engagement = "TESTING"
  /\ request[p].status = "COMPLETED" /\ request[p].requester # u
  /\ Begin(s, u, "workpaper.review", Asks("close", u, p, None))

CancelPbcRequest(s, u, p) ==
  /\ Unused(s, p)
  /\ engagement = "TESTING"
  /\ request[p].status \in {"OPEN", "IN_PROGRESS"}
  /\ Begin(s, u, "evidence.upload", Asks("cancel", u, p, None))

\* Mutant: whoever has access to the client, assigned or not.
OpenToAccess(u, p) ==
  /\ request[p].status # "none" /\ u \in access
  /\ request[p].status \notin {"CLOSED", "CANCELLED"}

\* requireAssignedOpenPbc, and the portal's own read in submitPbcResponse.
\* A request's workpaper never changes; here it has one.
AssignedOpen(u, p) ==
  /\ request[p].assignee = u /\ u \in access
  /\ request[p].status \notin {"CLOSED", "CANCELLED"}

\* createEvidenceUploadIntent, for a request in whatever status or none.
CreateEvidenceUploadIntent(s, u, p, k) ==
  /\ engagement = "TESTING"
  /\ p # None => request[p].status # "none"
  /\ intent[k] = NoIntent /\ evidence[k] = NoEvidence /\ Fresh(k)
  /\ Begin(s, u, "evidence.upload", Asks("createIntent", u, p, k))

CreateClientEvidenceUploadIntent(s, u, p, k) ==
  /\ engagement = "TESTING" /\ AssignedOpen(u, p)
  /\ intent[k] = NoIntent /\ evidence[k] = NoEvidence /\ Fresh(k)
  /\ Begin(s, u, "client_portal.pbc.respond", Asks("createIntent", u, p, k))

\* Mutant: the content type is not compared.
UploadedAnyType(s, k) ==
  /\ IntentFree(s, k)
  /\ intent[k].status = "PENDING" /\ age[k] = "live"
  /\ engagement = "TESTING"
  /\ object[k] # None

\* The intent, locked, and HEAD of its object.
Uploaded(s, k) ==
  /\ IntentFree(s, k)
  /\ intent[k].status = "PENDING" /\ age[k] = "live"
  /\ engagement = "TESTING"
  /\ object[k] \in Typed

\* Whoever created the intent.
FinalizeEvidenceUpload(s, u, k) ==
  /\ Uploaded(s, k)
  /\ Begin(s, u, "evidence.upload", Asks("finalize", u, intent[k].on, k))

\* Mutant: the intent may be another user's.
FinalizeAnyClientUpload(s, u, k) ==
  /\ Uploaded(s, k)
  /\ intent[k].on # None /\ AssignedOpen(u, intent[k].on)
  /\ Begin(s, u, "client_portal.pbc.respond", Asks("finalize", u, intent[k].on, k))

FinalizeClientEvidenceUpload(s, u, k) ==
  /\ Uploaded(s, k)
  /\ intent[k].creator = u
  /\ intent[k].on # None /\ AssignedOpen(u, intent[k].on)
  /\ Begin(s, u, "client_portal.pbc.respond", Asks("finalize", u, intent[k].on, k))

\* registerEvidence by itself: the auditor gives the key, and a digest nothing
\* compares with an object.
RegisterEvidence(s, u, p, k) ==
  /\ engagement = "TESTING"
  /\ p # None => request[p].status # "none"
  /\ Begin(s, u, "evidence.upload", Asks("register", u, p, k))

SubmitPbcResponse(s, u, p) ==
  /\ AssignedOpen(u, p)
  /\ Begin(s, u, "client_portal.pbc.respond", Asks("respond", u, p, None))

\* Mutant: an engagement may be deleted in any status.
DeleteAnyEngagement(s, u) ==
  /\ engagement # "DELETED"
  /\ Begin(s, u, "engagement.update", Asks("delete", u, None, None))

DeletePlanningEngagement(s, u) ==
  /\ engagement = "PLANNING"
  /\ Begin(s, u, "engagement.update", Asks("delete", u, None, None))

-----------------------------------------------------------------------------
(* Statements and their triggers.                                          *)

\* enforce_client_user_access_membership is no concern here: Clients are active
\* CLIENT members.  enforce_pbc_client_assignee and
\* enforce_client_pbc_response; the freeze triggers; the size of the bytes GET
\* returns; registerEvidence's own check; one row of evidence per storage key.
Refused(s) ==
  LET r == tx[s] IN
  \/ r.op = "assign" /\ r.user \notin access
  \/ r.op = "respond" /\ (request[r.on].assignee # r.by \/ r.by \notin access)
  \/ r.op \in {"create", "accept", "assign", "complete", "close", "cancel",
               "createIntent", "finalize", "register"}
       /\ engagement \in {"FROZEN", "DELETED"}
  \/ r.op = "finalize" /\ object[r.key] \notin Sized
  \/ r.op = "finalize" /\ r.by \notin Clients /\ engagement # "TESTING"
  \/ r.op \in {"finalize", "register"} /\ evidence[r.key] # NoEvidence

\* The statement of s goes on only when t's transaction has ended.  A foreign
\* key or an update needs the row of a PBC request, an insert of evidence its
\* storage key; a deletion takes the row of the engagement, which whatever
\* refers to it needs, and waits for whoever is about to.
Obstructs(t, s) ==
  LET r == tx[s] IN
  \/ /\ tx[t].stage = "written" /\ "delete" \in {r.op, tx[t].op}
     /\ {r.op, tx[t].op} \cap {"grant", "revoke"} = {}
  \/ r.on # None /\ Locks(t, r.on)
  \/ r.op = "assign" /\ tx[t].op = "assign" /\ Uses(t, r.on)
  \/ r.op \in {"finalize", "register"} /\ Inserts(t, r.key)

Waits(s) == \E t \in Sessions \ {s}: Obstructs(t, s)

\* What the statements of a request check again.
Rechecked(r) ==
  CASE r.op = "respond" -> {"assignment", "access"}
    [] r.op = "finalize" /\ r.by \notin Clients -> {"engagement"}
    [] OTHER -> {}

\* Mutant: the digest is one the browser sent along.
GivenDigest(r) ==
  IF r.op = "finalize" THEN CHOOSE c \in Sized: TRUE ELSE None

\* Of the bytes GET returns.
Digest(r) == IF r.op = "finalize" THEN object[r.key] ELSE None

Execute(s) ==
  LET r == tx[s] IN
  /\ r.stage = "checked" /\ r.op # "delete"
  /\ ~Waits(s)
  /\ ~Refused(s)
  /\ tx' = [tx EXCEPT ![s] = [r EXCEPT !.stage = "written",
                                       !.sha256 = Digest(r),
                                       !.changed = @ \ Rechecked(r)]]
  /\ overwritten' = overwritten \ {k \in Keys: r.op = "finalize" /\ k = r.key}
  /\ UNCHANGED <<tables, object, age>>

\* deletePlanningEngagement reads, after the status, which rows of evidence
\* there are.
ListEvidence(s) ==
  /\ tx[s].stage = "checked" /\ tx[s].op = "delete"
  /\ tx' = [tx EXCEPT ![s].stage = "emptying",
                      ![s].left = {k \in Keys: evidence[k] # NoEvidence}]
  /\ UNCHANGED <<tables, store>>

\* It then deletes their objects one by one; the store keeps no transaction.
DeleteObject(s, k) ==
  /\ tx[s].stage = "emptying" /\ k \in tx[s].left
  /\ object' = [object EXCEPT ![k] = None]
  /\ tx' = [tx EXCEPT ![s].left = @ \ {k}]
  /\ UNCHANGED <<tables, age, overwritten>>

\* A row that refers to the engagement refuses its deletion; one that is about
\* to be committed makes it wait.
ExecuteDelete(s) ==
  /\ tx[s].stage = "emptying" /\ tx[s].left = {}
  /\ engagement # "DELETED"
  /\ \A p \in Requests: request[p] = NoRequest
  /\ \A k \in Keys: intent[k] = NoIntent /\ evidence[k] = NoEvidence
  /\ ~Waits(s)
  /\ tx' = [tx EXCEPT ![s].stage = "written"]
  /\ UNCHANGED <<tables, store>>

Fail(s) ==
  /\ tx[s].stage # "idle"
  /\ tx' = [tx EXCEPT ![s] = Idle]
  /\ UNCHANGED <<tables, store>>

\* The request, the intent and the evidence as a transaction has written them.
WrittenRequest(r) ==
  LET old == request[r.on] IN
  CASE r.op \in {"create", "accept"} ->
         [NoRequest EXCEPT !.status = "OPEN", !.requester = r.by]
    [] r.op = "assign"   ->
         [old EXCEPT !.assignee = r.user,
                     !.status = IF @ = "OPEN" THEN "IN_PROGRESS" ELSE @]
    [] r.op = "complete" ->
         [old EXCEPT !.status = "COMPLETED", !.fulfiller = r.user]
    [] r.op = "close"    -> [old EXCEPT !.status = "CLOSED"]
    [] r.op = "cancel"   -> [old EXCEPT !.status = "CANCELLED", !.assignee = None]
    [] OTHER             -> old

WrittenIntent(r) ==
  LET old == intent[r.key] IN
  CASE r.op = "createIntent" -> [status |-> "PENDING", creator |-> r.by, on |-> r.on]
    [] r.op = "finalize"     -> [old EXCEPT !.status = "FINALIZED"]
    [] OTHER                 -> old

Registered(r) ==
  [source   |-> CASE r.op = "register" -> "REGISTERED"
                  [] r.by \in Clients  -> "CLIENT_PORTAL_UPLOAD"
                  [] OTHER             -> "UPLOAD",
   uploader |-> r.by, on |-> r.on, sha256 |-> r.sha256]

\* What the commit of r changes for another transaction.
ChangesOf(r, other) ==
  CASE r.op = "revoke" /\ r.user = other.by -> {"access"}
    [] r.op = "assign" /\ r.on = other.on   -> {"assignment"}
    [] r.op = "close"  /\ r.on = other.on   -> {"status"}
    [] r.op = "cancel" /\ r.on = other.on   -> {"assignment", "status"}
    [] OTHER                                -> {}

\* Only what the properties ask about is kept.
Noticed(other, changes) ==
  [other EXCEPT !.changed = @ \cup
     CASE other.op \in {"createIntent", "finalize", "respond"} -> changes
       [] other.op \in {"create", "complete", "close", "cancel", "register",
                        "delete"} -> changes \cap {"engagement"}
       [] OTHER -> {}]

\* What a committing request has written.  A response (client_pbc_responses) is
\* a row nothing reads again: only that it is committed is seen here.
Commit(s) ==
  LET r == tx[s] IN
  /\ r.stage = "written"
  /\ access' = CASE r.op = "grant"  -> access \cup {r.user}
                 [] r.op = "revoke" -> access \ {r.user}
                 [] OTHER           -> access
  /\ request' = [p \in Requests |->
                   IF p = r.on THEN WrittenRequest(r) ELSE request[p]]
  /\ intent' = [k \in Keys |-> IF k = r.key THEN WrittenIntent(r) ELSE intent[k]]
  /\ evidence' = [k \in Keys |->
                    IF k = r.key /\ r.op \in {"finalize", "register"}
                    THEN Registered(r) ELSE evidence[k]]
  /\ engagement' = IF r.op = "delete" THEN "DELETED" ELSE engagement
  /\ tx' = [t \in Sessions |->
              IF t = s THEN Idle ELSE Noticed(tx[t], ChangesOf(r, tx[t]))]
  /\ UNCHANGED store

-----------------------------------------------------------------------------
(* What is no transaction of these services.                               *)

\* startTesting, enterReview, which looks at no request, and closeEngagement
\* with the freeze.  Their gates (Finalization) are not repeated here: they
\* refuse while a request is open, but one may be committed once they are
\* passed.  REVIEW is also CLOSED, which none of these operations tells apart.
AdvanceEngagement ==
  /\ engagement' \in
       CASE engagement = "PLANNING" -> {"TESTING"}
         [] engagement = "TESTING"  -> {"REVIEW"}
         [] engagement = "REVIEW"   -> {"FROZEN"}
         [] OTHER                   -> {}
  /\ \A t \in Sessions: tx[t].stage = "written" => tx[t].op # "delete"
  /\ tx' = [t \in Sessions |-> Noticed(tx[t], {"engagement"})]
  /\ UNCHANGED <<access, request, intent, evidence, store>>

\* Whoever holds the signed URL: once, again with other content, or never.
Put(k, c) ==
  /\ intent[k] # NoIntent /\ age[k] # "dead" /\ object[k] # c
  /\ object' = [object EXCEPT ![k] = c]
  /\ overwritten' =
       IF \/ evidence[k] # NoEvidence
          \/ \E t \in Sessions: tx[t].key = k /\ tx[t].stage = "written"
       THEN overwritten \cup {k} ELSE overwritten
  /\ tx' = [t \in Sessions |->
              IF tx[t].key = k /\ tx[t].stage = "checked"
              THEN Noticed(tx[t], {"object"}) ELSE tx[t]]
  /\ UNCHANGED <<tables, age>>

\* The intent expires ten minutes after it was made, and the URL, which is
\* signed a moment later, after it.
Expire(k) ==
  /\ intent[k] # NoIntent
  /\ \/ age[k] = "live" /\ age' = [age EXCEPT ![k] = "expired"]
     \/ age[k] = "expired" /\ age' = [age EXCEPT ![k] = "dead"]
  /\ UNCHANGED <<tables, object, overwritten, tx>>

-----------------------------------------------------------------------------
Administers(s, u) ==
  \/ GrantClientAccess(s, u) \/ RevokeClientAccess(s, u)
  \/ \E p \in Requests: AssignPbcToClientUser(s, u, p)

Executes(s, u, p) ==
  \/ CreatePbcRequest(s, u, p) \/ AcceptPrivacyAssuranceCandidate(s, u, p)
  \/ CompletePbcRequest(s, u, p)
  \/ ClosePbcRequest(s, u, p) \/ CancelPbcRequest(s, u, p)

Stores(s, u, k) ==
  \/ \E p \in Requests \cup {None}: CreateEvidenceUploadIntent(s, u, p, k)
  \/ FinalizeEvidenceUpload(s, u, k)
  \/ \E p \in Requests \cup {None}: RegisterEvidence(s, u, p, k)

Portal(s, u, k) ==
  \/ \E p \in Requests: CreateClientEvidenceUploadIntent(s, u, p, k)
  \/ FinalizeClientEvidenceUpload(s, u, k)
  \/ \E p \in Requests: SubmitPbcResponse(s, u, p)

Request(s) ==
  \E u \in Users:
    \/ Administers(s, u)
    \/ \E p \in Requests: Executes(s, u, p)
    \/ \E k \in Keys: Stores(s, u, k) \/ Portal(s, u, k)
    \/ DeletePlanningEngagement(s, u)

Next ==
  \/ \E s \in Sessions: \/ Request(s) \/ Execute(s) \/ ListEvidence(s)
                        \/ \E k \in Keys: DeleteObject(s, k)
                        \/ ExecuteDelete(s) \/ Commit(s) \/ Fail(s)
  \/ AdvanceEngagement
  \/ \E k \in Keys: Expire(k) \/ \E c \in Contents: Put(k, c)

Spec == Init /\ [][Next]_vars

-----------------------------------------------------------------------------
(***************************************************************************)
(* Properties.                                                             *)
(***************************************************************************)

\* "PBC request cannot be completed until active evidence is linked": a
\* COMPLETED or CLOSED request has evidence, and fulfilled_by uploaded some of
\* it, whatever was uploaded, cancelled or reassigned meanwhile.
CompletedOnEvidence ==
  \A p \in Requests: request[p].status \in {"COMPLETED", "CLOSED"} =>
    \E k \in Keys: /\ evidence[k].source # "none" /\ evidence[k].on = p
                   /\ evidence[k].uploader = request[p].fulfiller

\* "computes SHA-256 itself, and only then creates the evidence record"
\* (docs/PRODUCTION-READINESS.md): the digest of uploaded evidence is that of
\* the object, unless the object was written again, through the URL that
\* outlives the finalization, or deleted.
DigestOfObject ==
  \A k \in Keys: evidence[k].source \in {"UPLOAD", "CLIENT_PORTAL_UPLOAD"} =>
    object[k] \in {evidence[k].sha256, None} \/ k \in overwritten

\* Evidence that says it came from the portal was finalized by the client who
\* made the intent, for the request the intent was made for.  (An auditor may
\* finalize a client's upload, which is then the auditor's.)
ClientCredited ==
  \A k \in Keys: evidence[k].source = "CLIENT_PORTAL_UPLOAD" =>
    /\ intent[k].status = "FINALIZED"
    /\ evidence[k].uploader = intent[k].creator
    /\ evidence[k].on = intent[k].on /\ evidence[k].on # None

\* A PBC request only moves forward, whatever overlaps: what is settled is not
\* reopened, by an assignment of it either, and who fulfilled a request that
\* is COMPLETED is never replaced.
Forward ==
  {<<"none", "OPEN">>, <<"OPEN", "IN_PROGRESS">>, <<"COMPLETED", "CLOSED">>}
    \cup ({"OPEN", "IN_PROGRESS"} \X {"COMPLETED", "CANCELLED"})

RequestsForward ==
  [][\A p \in Requests:
       LET old == request[p] new == request'[p] IN
       /\ old.status = new.status \/ <<old.status, new.status>> \in Forward
       /\ old.status \in {"COMPLETED", "CLOSED"} =>
            new.fulfiller = old.fulfiller]_vars

\* No deadlock: a statement waits only for transactions that are ahead of its
\* own, those that hold a PBC request before those that do not, and those that
\* have written before all.  getTestingRequest and completePbcRequest lock FOR
\* UPDATE what they update, so that no two of them wait for each other.
Rank(r) ==
  IF r.stage = "written" THEN 0
  ELSE IF r.op \in {"complete", "close", "cancel"} THEN 1 ELSE 2

LocksOrdered ==
  \A s, t \in Sessions:
    s # t /\ tx[s].stage \in {"checked", "emptying"} /\ Obstructs(t, s) =>
      Rank(tx[t]) < Rank(tx[s])

\* As a protocol, upload intents are one-time grants (OneTimeGrant) of a row
\* of evidence: finalized once, and never pending again.
UploadState == [none |-> "none", PENDING |-> "offered", FINALIZED |-> "taken"]

UploadGrants ==
  INSTANCE OneTimeGrant
    WITH Items <- Keys, Gifts <- Evidence \ {NoEvidence},
         state <- [k \in Keys |-> UploadState[intent[k].status]],
         given <- [k \in Keys |-> IF intent[k].status = "FINALIZED"
                                  THEN {evidence[k]} ELSE {}]

UploadPromise == UploadGrants!Spec

\* The transaction of s commits.
Commits(s) == tx[s].stage = "written" /\ tx'[s] = Idle

\* "checks the authorized byte length and content type": evidence finalized is
\* of the authorized length, and of the authorized type unless the object was
\* written between HEAD and GET.
VerifiedUpload ==
  [][\A s \in Sessions: Commits(s) /\ tx[s].op = "finalize" =>
       /\ tx[s].sha256 \in Sized
       /\ tx[s].sha256 \in Typed \/ "object" \in tx[s].changed]_vars

\* "Explicit client-entity authorization for CLIENT users" and "Only the
\* assigned client user may respond": what a client writes is for a request
\* assigned to them, open, of a client they have access to, unless the request
\* was reassigned or settled, or the access revoked, after it was checked.
WithinAssignment ==
  [][\A s \in Sessions:
       Commits(s) /\ tx[s].by \in Clients =>
         LET r == tx[s] p == request[r.on] IN
         /\ p.assignee = r.by \/ "assignment" \in r.changed
         /\ r.by \in access \/ "access" \in r.changed
         /\ p.status \notin {"CLOSED", "CANCELLED"} \/ "status" \in r.changed]_vars

\* "Evidence upload is only allowed in TESTING", and likewise for the other
\* operations whose service asks for TESTING: a request is created by
\* createPbcRequest, completed, closed or cancelled, an intent made, an upload
\* finalized and evidence registered outside TESTING only by a transaction
\* that the engagement's transition overtook.  It is not about the two writes
\* of requests that look at no status: an assignment, and the acceptance of a
\* privacy candidate, which makes a request in any status before the freeze.
OnlyInTesting ==
  [][\A s \in Sessions:
       /\ Commits(s)
       /\ tx[s].op \in {"create", "complete", "close", "cancel", "createIntent",
                        "finalize", "register"}
       => engagement = "TESTING" \/ "engagement" \in tx[s].changed]_vars

\* "Only PLANNING engagements may be permanently deleted": the object of
\* registered evidence is deleted only by a deletion that had read PLANNING
\* before the engagement moved on.
ObjectsKept ==
  [][\A k \in Keys: object[k] # None /\ object'[k] = None =>
       \E s \in Sessions: tx[s].op = "delete" /\ "engagement" \in tx[s].changed]_vars

=============================================================================
