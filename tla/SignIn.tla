------------------------------- MODULE SignIn -------------------------------
(***************************************************************************)
(* Signing in by e-mail: rate limits (src/src/security/rate-limit.ts),     *)
(* login tokens and sessions (src/src/auth/session-store.ts) and what a    *)
(* request does with the session of its cookie                             *)
(* (src/src/auth/cookie-session.ts, session.ts).                           *)
(*                                                                         *)
(* A handler is one HTTP request in progress on a stateless server.        *)
(* Asking for a link runs five statements, each its own transaction, the   *)
(* first two at once, and what it counted may be out of date when it       *)
(* inserts. Following a link is one transaction: the row lock of the       *)
(* token, taken by the UPDATE of consume_login_token, is held to its end,  *)
(* and what it has written is seen by others from its commit on. Work      *)
(* under a session, and logging out, resolve the session first and act     *)
(* afterwards.                                                             *)
(*                                                                         *)
(* The server's clock and the database's are one clock.  auth_sessions'    *)
(* last_seen_at, which nothing reads, is left out.                         *)
(***************************************************************************)
EXTENDS Integers, FiniteSets

CONSTANTS
  Users,         \* people with an e-mail address each, a row of users or not
  Networks,      \* addresses requests come from
  None,          \* a request without x-forwarded-for; no user, token, session
  Handlers,      \* requests in progress
  Tokens,        \* login tokens that may be issued
  Logins,        \* sessions that may be created
  EmailLimit, NetworkLimit,  \* requests of one window let through: 5 and 20
  LoginLimit,    \* MAX_LOGIN_REQUESTS_PER_WINDOW: 5
  Window,        \* the window of both limits and LOGIN_TOKEN_TTL_MS: 15 minutes
  SessionTtl,    \* SESSION_TTL_MS: 12 hours
  MaxTime        \* where the clock stops

ASSUME LimitAssumption ==
  {EmailLimit, NetworkLimit, LoginLimit, Window, SessionTtl, MaxTime}
    \subseteq Nat \ {0}
ASSUME NoneAssumption == None \notin Users \cup Networks \cup Tokens \cup Logins
ASSUME KeyAssumption == Users \cap Networks = {}
ASSUME FiniteAssumption == IsFiniteSet(Handlers) /\ IsFiniteSet(Tokens)

VARIABLES
  clock,     \* now()
  active,    \* the users with users.status = ACTIVE
  hits,      \* request_count of the current window's row of each rate key
  token,     \* rows of auth_login_tokens
  login,     \* rows of auth_sessions
  handler    \* the requests in progress

vars == <<clock, active, hits, token, login, handler>>

-----------------------------------------------------------------------------
Times == 0..(MaxTime + Window + SessionTtl)

Origins == Networks \cup {None}

\* The limit of a rate key: namespaces magic-link-email and magic-link-ip.
LimitOf(key) == IF key \in Users THEN EmailLimit ELSE NetworkLimit

\* window, overtaken: history; the window the request was let through in, and
\* whether a token of its address was issued between its count and its insert.
Token ==
  [email: Users \cup {None}, origin: Origins, requested: Times, expires: Times,
   consumed: BOOLEAN, window: 0..MaxTime, overtaken: BOOLEAN]

NoToken ==
  [email |-> None, origin |-> None, requested |-> 0, expires |-> 0,
   consumed |-> FALSE, window |-> 0, overtaken |-> FALSE]

\* by: history; the token it was created from.
Login ==
  [user: Users \cup {None}, issued: Times, expires: Times, revoked: BOOLEAN,
   by: Tokens \cup {None}]

NoLogin ==
  [user |-> None, issued |-> 0, expires |-> 0, revoked |-> FALSE, by |-> None]

\* due: the rate keys still to be consumed; email is None once one refused.
\* at: the window its address was counted in, or the start of the transaction
\* that follows a link.  late: history; what it read has changed since.
Handler ==
  [stage: {"idle", "asked", "allowed", "counted", "found", "begun", "consumed",
           "resolved"},
   email: Users \cup {None}, origin: Origins, token: Tokens \cup {None},
   login: Logins \cup {None}, at: 0..MaxTime, late: BOOLEAN,
   due: SUBSET (Users \cup Origins)]

Idle ==
  [stage |-> "idle", email |-> None, origin |-> None, token |-> None,
   login |-> None, at |-> 0, late |-> FALSE, due |-> {}]

TypeOK ==
  /\ clock \in 0..MaxTime
  /\ active \subseteq Users
  /\ \A key \in Users \cup Origins: hits[key] \in 0..(LimitOf(key) + 1)
  /\ token \in [Tokens -> Token]
  /\ login \in [Logins -> Login]
  /\ handler \in [Handlers -> Handler]

Init ==
  /\ clock = 0
  /\ active = Users
  /\ hits = [key \in Users \cup Origins |-> 0]
  /\ token = [t \in Tokens |-> NoToken]
  /\ login = [l \in Logins |-> NoLogin]
  /\ handler = [h \in Handlers |-> Idle]

Issued(t) == token[t].email # None

Created(l) == login[l].user # None

\* Mutant: milliseconds added to a clock that counts seconds.
ExpiryInSeconds(ttl) == clock + 1000 * ttl

\* new Date(Date.now() + ttl), of a token and of a session.
Expiry(ttl) == clock + ttl

-----------------------------------------------------------------------------
(* POST /api/auth/magic-link/request                                       *)

\* Mutant: the row is read before it is written, as if by two statements of
\* which the second does not add to what others have added.
CountOnce(count, key) ==
  IF count[key] = 0 THEN [count EXCEPT ![key] = 1] ELSE count

\* consume_rate_limit, one atomic upsert.  Past the limit counting on changes
\* no answer.
Hit(count, key) ==
  IF count[key] <= LimitOf(key) THEN [count EXCEPT ![key] = @ + 1] ELSE count

\* Both limits are consumed, whatever the other says: Promise.all.
RequestLink(h, u, o) ==
  /\ handler[h].stage = "idle"
  /\ handler' = [handler EXCEPT ![h] =
       [Idle EXCEPT !.stage = "asked", !.email = u, !.origin = o,
                    !.due = {u, o}]]
  /\ UNCHANGED <<clock, active, hits, token, login>>

\* One of them, in the window that is on; the last one decides.
ConsumeRateLimit(h, key) ==
  LET r == handler[h]
      left == r.due \ {key}
      passed == r.email # None /\ Hit(hits, key)[key] <= LimitOf(key)
      stage == IF left # {} THEN "asked"
               ELSE IF passed THEN "allowed" ELSE "idle"
  IN
  /\ r.stage = "asked" /\ key \in r.due
  /\ hits' = Hit(hits, key)
  /\ handler' = [handler EXCEPT ![h] =
       IF passed
       THEN [r EXCEPT !.stage = stage, !.due = left,
                      !.at = IF key \in Users THEN clock \div Window ELSE @]
       ELSE [Idle EXCEPT !.stage = stage, !.due = left]]
  /\ UNCHANGED <<clock, active, token, login>>

\* Tokens issued to the address, or from the network, since the start of the
\* window that ends now.
Recent(u, o) ==
  {t \in Tokens: /\ Issued(t)
                 /\ token[t].requested >= clock - Window
                 /\ token[t].email = u \/ (o # None /\ token[t].origin = o)}

CountTokens(h) ==
  LET r == handler[h] IN
  /\ r.stage = "allowed"
  /\ handler' = [handler EXCEPT ![h] =
       IF Cardinality(Recent(r.email, r.origin)) >= LoginLimit THEN Idle
       ELSE [r EXCEPT !.stage = "counted"]]
  /\ UNCHANGED <<clock, active, hits, token, login>>

\* auth_active_user_by_email; the answer to the browser is the same.
FindUser(h) ==
  LET r == handler[h] IN
  /\ r.stage = "counted"
  /\ handler' = [handler EXCEPT ![h] =
       IF r.email \in active THEN [r EXCEPT !.stage = "found"] ELSE Idle]
  /\ UNCHANGED <<clock, active, hits, token, login>>

\* The link is sent, or lost, after this.
InsertToken(h, t) ==
  LET r == handler[h] IN
  /\ r.stage = "found" /\ ~Issued(t)
  /\ token' = [token EXCEPT ![t] =
       [email |-> r.email, origin |-> r.origin, requested |-> clock,
        expires |-> Expiry(Window), consumed |-> FALSE, window |-> r.at,
        overtaken |-> r.late]]
  /\ handler' = [g \in Handlers |->
       IF g = h THEN Idle
       ELSE IF /\ handler[g].stage \in {"counted", "found"}
               /\ \/ handler[g].email = r.email
                  \/ r.origin # None /\ handler[g].origin = r.origin
       THEN [handler[g] EXCEPT !.late = TRUE] ELSE handler[g]]
  /\ UNCHANGED <<clock, active, hits, login>>

-----------------------------------------------------------------------------
(* GET /api/auth/magic-link/verify                                         *)

\* Whoever holds the link, again as often as they like.
Verify(h, t) ==
  /\ handler[h].stage = "idle" /\ Issued(t)
  /\ handler' = [handler EXCEPT ![h] =
       [Idle EXCEPT !.stage = "begun", !.token = t, !.at = clock]]
  /\ UNCHANGED <<clock, active, hits, token, login>>

\* Another transaction holds the row lock of the token.
Locked(h, t) ==
  \E g \in Handlers \ {h}: handler[g].token = t /\ handler[g].stage = "consumed"

\* Mutant: the token is read, and written later, instead of one UPDATE.
ConsumeReadToken(h) ==
  LET r == handler[h] IN
  /\ r.stage = "begun"
  /\ ~token[r.token].consumed /\ token[r.token].expires > r.at
  /\ handler' = [handler EXCEPT ![h].stage = "consumed"]
  /\ UNCHANGED <<clock, active, hits, token, login>>

\* consume_login_token: of two, the second waits and looks at the row again;
\* now() is still the start of its own transaction.
ConsumeLoginToken(h) ==
  LET r == handler[h] IN
  /\ r.stage = "begun" /\ ~Locked(h, r.token)
  /\ ~token[r.token].consumed /\ token[r.token].expires > r.at
  /\ handler' = [handler EXCEPT ![h].stage = "consumed"]
  /\ UNCHANGED <<clock, active, hits, token, login>>

\* The user is looked up again, the session inserted and the transaction
\* committed; from the look-up on nothing is read.  issued_at is now(), the
\* start of the transaction.
CreateSession(h, l) ==
  LET r == handler[h]
      user == token[r.token].email IN
  /\ r.stage = "consumed" /\ user \in active /\ ~Created(l)
  /\ token' = [token EXCEPT ![r.token].consumed = TRUE]
  /\ login' = [login EXCEPT ![l] =
       [user |-> user, issued |-> r.at, expires |-> Expiry(SessionTtl),
        revoked |-> FALSE, by |-> r.token]]
  /\ handler' = [handler EXCEPT ![h] = Idle]
  /\ UNCHANGED <<clock, active, hits>>

-----------------------------------------------------------------------------
(* Requests with a cookie, and POST /api/auth/logout.                      *)

Valid(l) ==
  /\ Created(l) /\ ~login[l].revoked
  /\ login[l].expires > clock /\ login[l].user \in active

\* Mutant: a revoked session resolves.
ResolveRevokedSession(h, l) ==
  /\ handler[h].stage = "idle"
  /\ Created(l) /\ login[l].expires > clock /\ login[l].user \in active
  /\ handler' = [handler EXCEPT ![h] =
       [Idle EXCEPT !.stage = "resolved", !.login = l]]
  /\ UNCHANGED <<clock, active, hits, token, login>>

\* resolveSessionToken and requireAuthenticatedPrincipal.
ResolveSession(h, l) ==
  /\ handler[h].stage = "idle" /\ Valid(l)
  /\ handler' = [handler EXCEPT ![h] =
       [Idle EXCEPT !.stage = "resolved", !.login = l]]
  /\ UNCHANGED <<clock, active, hits, token, login>>

\* Whatever the request was for: its transaction looks at the membership of
\* the user, and at neither the session nor the user again.
CommitWork(h) ==
  /\ handler[h].stage = "resolved"
  /\ handler' = [handler EXCEPT ![h] = Idle]
  /\ UNCHANGED <<clock, active, hits, token, login>>

\* Those who resolved a session that is no longer what they read.
Overtaken(changed) ==
  [h \in Handlers |->
     IF handler[h].stage = "resolved" /\ handler[h].login \in changed
     THEN [handler[h] EXCEPT !.late = TRUE] ELSE handler[h]]

\* A revoked session stays revoked: coalesce(revoked_at, now()).
RevokeSession(h) ==
  LET l == handler[h].login IN
  /\ handler[h].stage = "resolved"
  /\ login' = [login EXCEPT ![l].revoked = TRUE]
  /\ handler' = [Overtaken({l}) EXCEPT ![h] = Idle]
  /\ UNCHANGED <<clock, active, hits, token>>

-----------------------------------------------------------------------------
\* An error, a crash of the server, a lost connection; a transaction rolls
\* back and the token is as it was.
Fail(h) ==
  /\ handler[h].stage # "idle"
  /\ handler' = [handler EXCEPT ![h] = Idle]
  /\ UNCHANGED <<clock, active, hits, token, login>>

\* users.status, which no service writes: by the database's administrator.
SetUserStatus(u) ==
  /\ active' = IF u \in active THEN active \ {u} ELSE active \cup {u}
  /\ handler' = IF u \in active THEN Overtaken({l \in Logins: login[l].user = u})
                ELSE handler
  /\ UNCHANGED <<clock, hits, token, login>>

\* A new window has no rows yet.
Tick ==
  /\ clock < MaxTime
  /\ clock' = clock + 1
  /\ hits' = IF clock' % Window = 0 THEN [key \in Users \cup Origins |-> 0] ELSE hits
  /\ handler' = Overtaken({l \in Logins: login[l].expires = clock'})
  /\ UNCHANGED <<active, token, login>>

Requesting(h) ==
  \/ \E u \in Users, o \in Origins: RequestLink(h, u, o)
  \/ \E key \in Users \cup Origins: ConsumeRateLimit(h, key)
  \/ CountTokens(h) \/ FindUser(h) \/ \E t \in Tokens: InsertToken(h, t)

Verifying(h) ==
  \/ \E t \in Tokens: Verify(h, t)
  \/ ConsumeLoginToken(h)
  \/ \E l \in Logins: CreateSession(h, l)

Working(h) ==
  \/ \E l \in Logins: ResolveSession(h, l)
  \/ CommitWork(h) \/ RevokeSession(h)

Next ==
  \/ \E h \in Handlers: Requesting(h) \/ Verifying(h) \/ Working(h) \/ Fail(h)
  \/ \E u \in Users: SetUserStatus(u)
  \/ Tick

Spec == Init /\ [][Next]_vars

-----------------------------------------------------------------------------
(***************************************************************************)
(* Properties.                                                             *)
(***************************************************************************)

\* "Single-use email sign-in tokens": a token is consumed if and only if it
\* opened a session, it opened one, for the user it was sent to, in a
\* transaction that began before it expired, however many follow the link.
SingleUse ==
  \A t \in Tokens:
    LET opened == {l \in Logins: login[l].by = t} IN
    /\ token[t].consumed <=> opened # {}
    /\ \A l, m \in opened: l = m
    /\ \A l \in opened: /\ login[l].user = token[t].email
                        /\ login[l].issued < token[t].expires

\* The same as a protocol: login tokens are one-time grants (OneTimeGrant) of
\* a session, which nobody withdraws.
TokenState(t) ==
  IF token[t].consumed THEN "taken" ELSE IF Issued(t) THEN "offered" ELSE "none"

TokenGrants ==
  INSTANCE OneTimeGrant
    WITH Items <- Tokens, Gifts <- Logins,
         state <- [t \in Tokens |-> TokenState(t)],
         given <- [t \in Tokens |-> {l \in Logins: login[l].by = t}]

TokenPromise == TokenGrants!Spec

\* "Atomic fixed-window rate limit": the requests for one address let through
\* in one window issue at most EmailLimit tokens.  And the limit of
\* issueLoginToken, in a window that slides: more tokens for one address have
\* been issued within any Window only if one was overtaken by another.
IssueLimited ==
  \A u \in Users:
    LET sent == {t \in Tokens: token[t].email = u} IN
    /\ \A w \in 0..(MaxTime \div Window):
         Cardinality({t \in sent: token[t].window = w}) <= EmailLimit
    /\ \A now \in 0..MaxTime:
         LET slice == {t \in sent: token[t].requested \in now..(now + Window)} IN
         Cardinality(slice) <= LoginLimit \/ \E t \in slice: token[t].overtaken

\* Requests that overtake each other exceed that limit by no more than their
\* number: the last of them has counted fewer than LoginLimit tokens.
OvershootBounded ==
  \A u \in Users, now \in 0..MaxTime:
    Cardinality({t \in Tokens: /\ token[t].email = u
                               /\ token[t].requested \in now..(now + Window)})
      < LoginLimit + Cardinality(Handlers)

\* Work is committed, or a session revoked, under a session that is revoked,
\* expired or of an inactive user only by a request that had resolved it
\* before; in particular not after a logout or a deactivation.
SessionHonoured ==
  [][\A h \in Handlers:
       LET r == handler[h] IN
       r.stage = "resolved" /\ handler'[h] = Idle =>
         \/ r.late
         \/ /\ ~login[r.login].revoked /\ login[r.login].user \in active
            /\ login[r.login].issued <= clock /\ clock < login[r.login].expires]_vars

=============================================================================
