---------------------------- MODULE SignInProofs ----------------------------
(***************************************************************************)
(* Proofs about SignIn, for any addresses, networks, handlers, tokens,     *)
(* sessions and limits.                                                    *)
(*                                                                         *)
(* The invariant says of each handler what it still relies on (Knows), of  *)
(* each token and session what was true when it was made, and of each      *)
(* window that the tokens sent and the requests still on their way to one  *)
(* are together within what the rate limit let through.                    *)
(***************************************************************************)
EXTENDS SignIn, FiniteSetTheorems, TLAPS

-----------------------------------------------------------------------------
(* The inductive invariant.                                                *)

\* A request its address has been counted for, and not refused.
Asking(r) ==
  \/ r.stage \in {"allowed", "counted", "found"}
  \/ r.stage = "asked" /\ r.email # None /\ r.email \notin r.due

\* Tokens sent to an address since a time.
Sent(u, from) ==
  {t \in Tokens: token[t].email = u /\ token[t].requested >= from}

\* What a handler has read, or holds the lock of.
Knows(r) ==
  /\ r.stage = "asked" /\ r.email # None =>
       r.email \in Users /\ r.due \cap Users \subseteq {r.email}
  /\ Asking(r) => r.email \in Users /\ r.at <= clock \div Window
  /\ r.stage \in {"counted", "found"} /\ ~r.late =>
       Cardinality(Sent(r.email, clock - Window)) < LoginLimit
  /\ r.stage \in {"begun", "consumed"} =>
       r.token \in Tokens /\ Issued(r.token) /\ r.at <= clock
  /\ r.stage = "consumed" =>
       ~token[r.token].consumed /\ r.at < token[r.token].expires
  /\ r.stage = "resolved" =>
       r.login \in Logins /\ (r.late \/ Valid(r.login))

OneConsumer ==
  \A g, h \in Handlers:
    handler[g].stage = "consumed" /\ handler[h].stage = "consumed"
      /\ handler[g].token = handler[h].token => g = h

TokenFits(t) ==
  /\ ~Issued(t) => ~token[t].consumed
  /\ Issued(t) => /\ token[t].requested <= clock
                  /\ token[t].window <= clock \div Window

LoginFits(l) ==
  /\ ~Created(l) => login[l].by = None
  /\ Created(l) => login[l].by \in Tokens /\ login[l].issued <= clock

\* The tokens and the requests under way that one window let through.
SentIn(u, w) == {t \in Tokens: token[t].email = u /\ token[t].window = w}

AskingIn(u, w) ==
  {h \in Handlers: Asking(handler[h]) /\ handler[h].email = u
                     /\ handler[h].at = w}

Through(u, w) == Cardinality(SentIn(u, w)) + Cardinality(AskingIn(u, w))

LimitsHold ==
  \A u \in Users:
    /\ \A w \in Nat: Through(u, w) <= EmailLimit
    /\ Through(u, clock \div Window) <= hits[u]

\* In any stretch of one window's length.
Slice(u, now) ==
  {t \in Tokens: token[t].email = u /\ token[t].requested \in now..(now + Window)}

SlicesHold ==
  \A u \in Users, now \in Nat:
    \/ Cardinality(Slice(u, now)) <= LoginLimit
    \/ \E t \in Slice(u, now): token[t].overtaken

IInv ==
  /\ TypeOK /\ hits \in [Users \cup Origins -> Nat]
  /\ \A h \in Handlers: Knows(handler[h])
  /\ OneConsumer
  /\ \A t \in Tokens: TokenFits(t)
  /\ \A l \in Logins: LoginFits(l)
  /\ LimitsHold /\ SlicesHold /\ SingleUse

-----------------------------------------------------------------------------
(* Counting and typing.                                                    *)

LEMMA TokenSets ==
  ASSUME NEW S \in SUBSET Tokens
  PROVE  IsFiniteSet(S) /\ Cardinality(S) \in Nat
BY FiniteAssumption, FS_Subset, FS_CardinalityType

LEMMA HandlerSets ==
  ASSUME NEW S \in SUBSET Handlers
  PROVE  IsFiniteSet(S) /\ Cardinality(S) \in Nat
BY FiniteAssumption, FS_Subset, FS_CardinalityType

LEMMA Smaller ==
  ASSUME NEW S \in SUBSET Tokens, NEW T \in SUBSET S
  PROVE  Cardinality(T) \in Nat /\ Cardinality(T) <= Cardinality(S)
BY TokenSets, FS_Subset

LEMMA FewerHandlers ==
  ASSUME NEW S \in SUBSET Handlers, NEW T \in SUBSET S
  PROVE  Cardinality(T) \in Nat /\ Cardinality(T) <= Cardinality(S)
BY HandlerSets, FS_Subset

\* The windows of the clock.
LEMMA Windows ==
  ASSUME NEW c \in Nat
  PROVE  /\ c \div Window \in Nat /\ c \div Window <= c
         /\ (c + 1) \div Window = IF (c + 1) % Window = 0
                                  THEN (c \div Window) + 1 ELSE c \div Window
<1>1. Window \in Nat \ {0}
  BY LimitAssumption
<1>2. c \div Window \in Nat /\ c \div Window <= c
  BY <1>1
<1>3. (c + 1) % Window = 0 => (c + 1) \div Window = (c \div Window) + 1
  BY <1>1
<1>4. (c + 1) % Window # 0 => (c + 1) \div Window = c \div Window
  BY <1>1
<1> QED BY <1>2, <1>3, <1>4

LEMMA Limits ==
  /\ EmailLimit \in Nat \ {0} /\ NetworkLimit \in Nat \ {0}
  /\ LoginLimit \in Nat \ {0} /\ Window \in Nat \ {0}
  /\ SessionTtl \in Nat \ {0} /\ MaxTime \in Nat \ {0}
BY LimitAssumption

LEMMA IdleIs ==
  /\ Idle \in Handler /\ Idle.stage = "idle" /\ Knows(Idle)
  /\ ~Asking(Idle)
BY Limits DEF Idle, Handler, Origins, Knows, Asking

LEMMA KnowsStays ==
  ASSUME UNCHANGED <<clock, active, token, login>>
  PROVE  \A r: Knows(r) => Knows(r)'
BY DEF Knows, Asking, Issued, Valid, Created, Sent

-----------------------------------------------------------------------------
(* A step of one handler that only looks.                                  *)

LEMMA Looks ==
  ASSUME IInv, UNCHANGED <<clock, active, hits, token, login>>,
         NEW h \in Handlers, NEW r \in Handler,
         handler' = [handler EXCEPT ![h] = r], Knows(r),
         r.stage = "consumed" =>
           \A g \in Handlers: g # h =>
             ~(handler[g].stage = "consumed" /\ handler[g].token = r.token),
         Asking(r) => /\ Asking(handler[h]) /\ handler[h].email = r.email
                      /\ handler[h].at = r.at
  PROVE  IInv'
<1>1. /\ handler \in [Handlers -> Handler]
      /\ \A g \in Handlers: handler'[g] = IF g = h THEN r ELSE handler[g]
  BY DEF IInv, TypeOK
<1>2. TypeOK' /\ (hits \in [Users \cup Origins -> Nat])'
  BY <1>1 DEF IInv, TypeOK
<1>3. ASSUME NEW g \in Handlers PROVE Knows(handler[g])'
  <2>1. PICK q: handler'[g] = q /\ Knows(q)
    BY <1>1 DEF IInv
  <2>2. Knows(q)'
    BY <2>1, KnowsStays
  <2> QED BY <2>1, <2>2
<1>4. OneConsumer'
  BY <1>1 DEF IInv, OneConsumer
<1>5. (\A t \in Tokens: TokenFits(t))' /\ (\A l \in Logins: LoginFits(l))'
  BY DEF IInv, TokenFits, LoginFits, Issued, Created
<1>6. LimitsHold'
  <2>1. ASSUME NEW u \in Users, NEW w \in Nat
        PROVE  Through(u, w)' <= Through(u, w) /\ Through(u, w)' \in Nat
    <3>1. SentIn(u, w)' = SentIn(u, w)
      BY DEF SentIn
    <3>2. AskingIn(u, w)' \subseteq AskingIn(u, w)
      BY <1>1 DEF AskingIn, Asking
    <3>3. SentIn(u, w) \subseteq Tokens /\ AskingIn(u, w) \subseteq Handlers
      BY DEF SentIn, AskingIn
    <3> QED BY <3>1, <3>2, <3>3, TokenSets, HandlerSets, FewerHandlers
            DEF Through
  <2>2. clock \div Window \in Nat
    BY Windows DEF IInv, TypeOK
  <2>3. \A u \in Users, w \in Nat: Through(u, w) \in Nat
    <3>1. \A u \in Users, w \in Nat:
            SentIn(u, w) \subseteq Tokens /\ AskingIn(u, w) \subseteq Handlers
      BY DEF SentIn, AskingIn
    <3> QED BY <3>1, TokenSets, HandlerSets DEF Through
  <2>4. \A u \in Users: hits[u] \in Nat
    BY DEF IInv
  <2> QED BY <2>1, <2>2, <2>3, <2>4, Limits DEF IInv, LimitsHold
<1>7. SlicesHold' /\ SingleUse'
  BY DEF IInv, SlicesHold, Slice, SingleUse
<1> QED BY <1>2, <1>3, <1>4, <1>5, <1>6, <1>7 DEF IInv

LEMMA Ends ==
  ASSUME IInv, UNCHANGED <<clock, active, hits, token, login>>,
         NEW h \in Handlers, handler' = [handler EXCEPT ![h] = Idle]
  PROVE  IInv'
BY IdleIs, Looks

LEMMA CountKeeps ==
  ASSUME IInv, NEW h \in Handlers, CountTokens(h)
  PROVE  IInv'
<1> DEFINE old == handler[h]
           r == [old EXCEPT !.stage = "counted"]
<1>1. /\ old \in Handler /\ old.stage = "allowed" /\ Knows(old)
      /\ UNCHANGED <<clock, active, hits, token, login>>
  BY DEF CountTokens, IInv, TypeOK
<1>2. CASE Cardinality(Recent(old.email, old.origin)) >= LoginLimit
  BY <1>2, Ends DEF CountTokens
<1>3. CASE ~(Cardinality(Recent(old.email, old.origin)) >= LoginLimit)
  <2>1. /\ r \in Handler /\ r.stage = "counted" /\ r.email = old.email
        /\ r.at = old.at /\ r.late = old.late
    BY <1>1 DEF Handler
  <2>2. old.email \in Users /\ old.at <= clock \div Window
    BY <1>1 DEF Knows, Asking
  <2>3. Cardinality(Sent(old.email, clock - Window)) < LoginLimit
    <3>1. /\ Sent(old.email, clock - Window) \subseteq
               Recent(old.email, old.origin)
          /\ Recent(old.email, old.origin) \subseteq Tokens
      BY <2>2, NoneAssumption DEF Sent, Recent, Issued
    <3> QED BY <1>3, <3>1, Smaller, TokenSets, Limits
  <2>4. Knows(r)
    BY <2>1, <2>2, <2>3 DEF Knows, Asking
  <2>5. handler' = [handler EXCEPT ![h] = r]
    BY <1>3 DEF CountTokens
  <2>6. Asking(old) /\ Asking(r)
    BY <1>1, <2>1 DEF Asking
  <2> HIDE DEF r
  <2> QED BY <1>1, <2>1, <2>4, <2>5, <2>6, Looks
<1> QED BY <1>2, <1>3

LEMMA FindKeeps ==
  ASSUME IInv, NEW h \in Handlers, FindUser(h)
  PROVE  IInv'
<1> DEFINE old == handler[h]
           r == [old EXCEPT !.stage = "found"]
<1>1. /\ old \in Handler /\ old.stage = "counted" /\ Knows(old)
      /\ UNCHANGED <<clock, active, hits, token, login>>
  BY DEF FindUser, IInv, TypeOK
<1>2. CASE old.email \notin active
  BY <1>2, Ends DEF FindUser
<1>3. CASE old.email \in active
  <2>1. /\ r \in Handler /\ r.stage = "found" /\ r.email = old.email
        /\ r.at = old.at /\ r.late = old.late
    BY <1>1 DEF Handler
  <2>2. Knows(r)
    BY <1>1, <2>1 DEF Knows, Asking
  <2>3. handler' = [handler EXCEPT ![h] = r]
    BY <1>3 DEF FindUser
  <2>4. Asking(old) /\ Asking(r)
    BY <1>1, <2>1 DEF Asking
  <2> HIDE DEF r
  <2> QED BY <1>1, <2>1, <2>2, <2>3, <2>4, Looks
<1> QED BY <1>2, <1>3

LEMMA VerifyKeeps ==
  ASSUME IInv, NEW h \in Handlers, NEW t \in Tokens, Verify(h, t)
  PROVE  IInv'
<1> DEFINE r == [Idle EXCEPT !.stage = "begun", !.token = t, !.at = clock]
<1>1. clock \in 0..MaxTime
  BY DEF IInv, TypeOK
<1>2. r \in Handler /\ r.stage = "begun" /\ r.token = t /\ r.at = clock
  BY <1>1, IdleIs DEF Idle, Handler
<1>3. /\ handler' = [handler EXCEPT ![h] = r] /\ Issued(t)
      /\ UNCHANGED <<clock, active, hits, token, login>>
  BY DEF Verify
<1> HIDE DEF r
<1>4. Knows(r) /\ ~Asking(r)
  BY <1>1, <1>2, <1>3, Limits DEF Knows, Asking
<1> QED BY <1>2, <1>3, <1>4, Looks

LEMMA ConsumeKeeps ==
  ASSUME IInv, NEW h \in Handlers, ConsumeLoginToken(h)
  PROVE  IInv'
<1> DEFINE old == handler[h]
           r == [old EXCEPT !.stage = "consumed"]
<1>1. /\ old \in Handler /\ old.stage = "begun" /\ Knows(old)
      /\ UNCHANGED <<clock, active, hits, token, login>>
  BY DEF ConsumeLoginToken, IInv, TypeOK
<1>2. /\ r \in Handler /\ r.stage = "consumed" /\ r.token = old.token
      /\ r.at = old.at
  BY <1>1 DEF Handler
<1>3. /\ handler' = [handler EXCEPT ![h] = r] /\ ~Locked(h, old.token)
      /\ ~token[old.token].consumed /\ token[old.token].expires > old.at
  BY DEF ConsumeLoginToken
<1> HIDE DEF r
<1>4. token[old.token].expires \in Nat /\ old.at \in Nat
  BY <1>1, Limits DEF Knows, IInv, TypeOK, Token, Handler, Times
<1>5. Knows(r) /\ ~Asking(r)
  BY <1>1, <1>2, <1>3, <1>4 DEF Knows, Asking
<1> QED BY <1>1, <1>2, <1>3, <1>5, Looks DEF Locked

LEMMA ResolveKeeps ==
  ASSUME IInv, NEW h \in Handlers, NEW l \in Logins, ResolveSession(h, l)
  PROVE  IInv'
<1> DEFINE r == [Idle EXCEPT !.stage = "resolved", !.login = l]
<1>1. r \in Handler /\ r.stage = "resolved" /\ r.login = l
  BY IdleIs DEF Idle, Handler
<1>2. /\ handler' = [handler EXCEPT ![h] = r] /\ Valid(l)
      /\ UNCHANGED <<clock, active, hits, token, login>>
  BY DEF ResolveSession
<1> HIDE DEF r
<1>3. Knows(r) /\ ~Asking(r)
  BY <1>1, <1>2 DEF Knows, Asking
<1> QED BY <1>1, <1>2, <1>3, Looks

-----------------------------------------------------------------------------
(* Asking for a link.                                                      *)

LEMMA HitIs ==
  ASSUME NEW count \in [Users \cup Origins -> Nat], NEW k \in Users \cup Origins
  PROVE  /\ Hit(count, k) \in [Users \cup Origins -> Nat]
         /\ \A j \in Users \cup Origins:
              Hit(count, k)[j] = IF j = k /\ count[k] <= LimitOf(k)
                                 THEN count[j] + 1 ELSE count[j]
BY DEF Hit

LEMMA SetsTyped ==
  \A u, w: SentIn(u, w) \in SUBSET Tokens /\ AskingIn(u, w) \in SUBSET Handlers
BY DEF SentIn, AskingIn

LEMMA RequestKeeps ==
  ASSUME IInv, NEW h \in Handlers, NEW u \in Users, NEW o \in Origins,
         RequestLink(h, u, o)
  PROVE  IInv'
<1> DEFINE r == [Idle EXCEPT !.stage = "asked", !.email = u, !.origin = o,
                             !.due = {u, o}]
<1>1. /\ handler' = [handler EXCEPT ![h] = r]
      /\ UNCHANGED <<clock, active, hits, token, login>>
  BY DEF RequestLink
<1>2. /\ r \in Handler /\ r.stage = "asked" /\ r.email = u
      /\ r.due = {u, o}
  BY IdleIs DEF Idle, Handler
<1> HIDE DEF r
<1>3. o \notin Users
  BY NoneAssumption, KeyAssumption DEF Origins
<1>4. Knows(r) /\ ~Asking(r)
  BY <1>2, <1>3 DEF Knows, Asking
<1> QED BY <1>1, <1>2, <1>4, Looks

\* What a request is once one of its keys is consumed.
LEMMA RateIs ==
  ASSUME IInv, NEW h \in Handlers, NEW key \in Users \cup Origins,
         ConsumeRateLimit(h, key)
  PROVE  \E r \in Handler:
           /\ handler' = [handler EXCEPT ![h] = r] /\ Knows(r)
           /\ r.stage \in {"asked", "allowed", "idle"}
           /\ Asking(r) =>
                \/ /\ Asking(handler[h]) /\ r.email = handler[h].email
                   /\ r.at = handler[h].at
                \/ /\ key \in Users /\ r.email = key
                   /\ r.at = clock \div Window
                   /\ Hit(hits, key)[key] <= EmailLimit
<1> DEFINE old == handler[h]
           left == old.due \ {key}
           passed == old.email # None /\ Hit(hits, key)[key] <= LimitOf(key)
           now == clock \div Window
           stage == IF left # {} THEN "asked"
                    ELSE IF passed THEN "allowed" ELSE "idle"
           let == [old EXCEPT !.stage = stage, !.due = left,
                              !.at = IF key \in Users THEN now ELSE @]
           refused == [Idle EXCEPT !.stage = stage, !.due = left]
<1>1. /\ old \in Handler /\ old.stage = "asked" /\ Knows(old)
      /\ key \in old.due
  BY DEF ConsumeRateLimit, IInv, TypeOK
<1>2. /\ passed => handler' = [handler EXCEPT ![h] = let]
      /\ ~passed => handler' = [handler EXCEPT ![h] = refused]
  BY DEF ConsumeRateLimit
<1>3. now \in 0..MaxTime
  <2>1. clock \in Nat /\ clock <= MaxTime
    BY Limits DEF IInv, TypeOK
  <2> QED BY <2>1, Windows, Limits
<1>4. left \in SUBSET (Users \cup Origins)
      /\ stage \in {"asked", "allowed", "idle"}
  BY <1>1 DEF Handler
<1>5. CASE ~passed
  <2>1. stage # "allowed"
    BY <1>5
  <2> HIDE DEF stage, left, passed
  <2>2. /\ refused \in Handler /\ refused.stage = stage
        /\ refused.email = None
    BY <1>4, IdleIs DEF Idle, Handler
  <2> HIDE DEF refused
  <2>3. Knows(refused) /\ ~Asking(refused)
    BY <1>4, <2>1, <2>2 DEF Knows, Asking
  <2> QED BY <1>2, <1>4, <1>5, <2>2, <2>3
<1>6. CASE passed
  <2>1. old.email \in Users /\ old.due \cap Users \subseteq {old.email}
    BY <1>1, <1>6 DEF Knows
  <2>2. stage = IF left = {} THEN "allowed" ELSE "asked"
    BY <1>6
  <2>3. Hit(hits, key)[key] <= LimitOf(key)
    BY <1>6
  <2> HIDE DEF stage, passed
  <2>4. /\ let \in Handler /\ let.stage = stage /\ let.email = old.email
        /\ let.due = left /\ let.at = IF key \in Users THEN now ELSE old.at
    <3> HIDE DEF left, now
    <3> QED BY <1>1, <1>3, <1>4 DEF Handler
  <2> HIDE DEF let
  <2>5. Asking(let) =>
          \/ Asking(old) /\ let.at = old.at
          \/ /\ key \in Users /\ let.email = key /\ let.at = now
             /\ Hit(hits, key)[key] <= EmailLimit
    <3>1. CASE key \in Users
      BY <1>1, <2>1, <2>3, <2>4, <3>1 DEF LimitOf
    <3>2. CASE key \notin Users
      BY <1>1, <2>1, <2>2, <2>4, <3>2, NoneAssumption DEF Asking
    <3> QED BY <3>1, <3>2
  <2>6. Asking(let) => let.at <= now
    BY <1>1, <1>3, <2>5, Limits DEF Knows
  <2>7. Knows(let)
    BY <1>4, <2>1, <2>4, <2>6 DEF Knows
  <2> QED BY <1>2, <1>4, <1>6, <2>4, <2>5, <2>7
<1> QED BY <1>5, <1>6

LEMMA RateKeeps ==
  ASSUME IInv, NEW h \in Handlers, NEW key \in Users \cup Origins,
         ConsumeRateLimit(h, key)
  PROVE  IInv'
<1> DEFINE count == Hit(hits, key)
<1>1. hits' = count /\ UNCHANGED <<clock, active, token, login>>
  BY DEF ConsumeRateLimit
<1>2. PICK r \in Handler:
        /\ handler' = [handler EXCEPT ![h] = r] /\ Knows(r)
        /\ r.stage \in {"asked", "allowed", "idle"}
        /\ Asking(r) =>
             \/ /\ Asking(handler[h]) /\ r.email = handler[h].email
                /\ r.at = handler[h].at
             \/ /\ key \in Users /\ r.email = key
                /\ r.at = clock \div Window /\ count[key] <= EmailLimit
  BY RateIs
<1>3. hits \in [Users \cup Origins -> Nat]
  BY DEF IInv
<1>4. /\ count \in [Users \cup Origins -> Nat]
      /\ \A j \in Users \cup Origins:
           count[j] = IF j = key /\ hits[key] <= LimitOf(key)
                      THEN hits[j] + 1 ELSE hits[j]
  BY <1>3, HitIs
<1> HIDE DEF count
<1>5. \A j \in Users \cup Origins: LimitOf(j) \in Nat
  BY Limits DEF LimitOf
<1>6. \A j \in Users \cup Origins:
        /\ count[j] \in Nat /\ hits[j] \in Nat /\ hits[j] <= count[j]
        /\ \/ count[j] = hits[j]
           \/ count[j] = hits[j] + 1 /\ hits[j] <= LimitOf(j)
  BY <1>3, <1>4, <1>5
<1>7. key \in Users /\ count[key] <= EmailLimit => count[key] = hits[key] + 1
  BY <1>4, <1>6, Limits DEF LimitOf
<1>8. clock \div Window \in Nat
  <2>1. clock \in Nat
    BY Limits DEF IInv, TypeOK
  <2> QED BY <2>1, Windows
<1>9. /\ handler \in [Handlers -> Handler]
      /\ \A g \in Handlers: handler'[g] = IF g = h THEN r ELSE handler[g]
  BY <1>2 DEF IInv, TypeOK
<1>10. TypeOK' /\ (hits \in [Users \cup Origins -> Nat])'
  <2>1. \A j \in Users \cup Origins: count[j] \in 0..(LimitOf(j) + 1)
    BY <1>5, <1>6 DEF IInv, TypeOK
  <2>2. handler' \in [Handlers -> Handler]
    BY <1>2, <1>9
  <2> QED BY <1>1, <1>4, <2>1, <2>2 DEF IInv, TypeOK, LimitOf
<1>11. ASSUME NEW g \in Handlers PROVE Knows(handler[g])'
  <2>1. PICK q: handler'[g] = q /\ Knows(q)
    BY <1>2, <1>9 DEF IInv
  <2>2. Knows(q)'
    BY <1>1, <2>1, KnowsStays
  <2> QED BY <2>1, <2>2
<1>12. OneConsumer'
  BY <1>2, <1>9 DEF IInv, OneConsumer
<1>13. (\A t \in Tokens: TokenFits(t))' /\ (\A l \in Logins: LoginFits(l))'
  BY <1>1 DEF IInv, TokenFits, LoginFits, Issued, Created
<1>14. LimitsHold'
  <2>1. \A v \in Users, w \in Nat: Through(v, w) \in Nat
    BY SetsTyped, TokenSets, HandlerSets DEF Through
  <2>2. ASSUME NEW v \in Users, NEW w \in Nat
        PROVE  Through(v, w)' \in Nat
               /\ \/ Through(v, w)' <= Through(v, w)
                  \/ /\ v = key /\ w = clock \div Window
                     /\ count[key] <= EmailLimit
                     /\ Through(v, w)' <= Through(v, w) + 1
    <3>1. SentIn(v, w)' = SentIn(v, w)
      BY <1>1 DEF SentIn
    <3>2. AskingIn(v, w)' \subseteq AskingIn(v, w)
          \/ /\ v = key /\ w = clock \div Window /\ count[key] <= EmailLimit
             /\ AskingIn(v, w)' \subseteq AskingIn(v, w) \cup {h}
      <4>1. AskingIn(v, w)' = {g \in Handlers: /\ Asking(handler'[g])
                                               /\ handler'[g].email = v
                                               /\ handler'[g].at = w}
        BY DEF AskingIn, Asking
      <4> QED BY <1>2, <1>9, <4>1 DEF AskingIn
    <3>3. /\ SentIn(v, w) \in SUBSET Tokens
          /\ AskingIn(v, w) \in SUBSET Handlers
          /\ AskingIn(v, w) \cup {h} \in SUBSET Handlers
      BY SetsTyped
    <3>4. /\ Cardinality(SentIn(v, w)) \in Nat
          /\ Cardinality(AskingIn(v, w)) \in Nat
          /\ Cardinality(AskingIn(v, w) \cup {h}) \in Nat
          /\ Cardinality(AskingIn(v, w) \cup {h}) <=
               Cardinality(AskingIn(v, w)) + 1
      BY <3>3, TokenSets, HandlerSets, FS_AddElement
    <3>5. CASE AskingIn(v, w)' \subseteq AskingIn(v, w)
      BY <3>1, <3>3, <3>4, <3>5, FewerHandlers DEF Through
    <3>6. CASE /\ v = key /\ w = clock \div Window /\ count[key] <= EmailLimit
               /\ AskingIn(v, w)' \subseteq AskingIn(v, w) \cup {h}
      <4>1. Cardinality(AskingIn(v, w)') \in Nat
            /\ Cardinality(AskingIn(v, w)') <=
                 Cardinality(AskingIn(v, w) \cup {h})
        BY <3>3, <3>6, FewerHandlers
      <4> QED BY <3>1, <3>4, <3>6, <4>1 DEF Through
    <3> QED BY <3>2, <3>5, <3>6
  <2>3. ASSUME NEW v \in Users, NEW w \in Nat
        PROVE  Through(v, w)' <= EmailLimit
    BY <1>6, <1>7, <1>8, <2>1, <2>2, <2>3, Limits DEF IInv, LimitsHold
  <2>4. ASSUME NEW v \in Users
        PROVE  Through(v, clock \div Window)' <= count[v]
    <3>1. Through(v, clock \div Window)' \in Nat
          /\ Through(v, clock \div Window) \in Nat
          /\ \/ Through(v, clock \div Window)' <= Through(v, clock \div Window)
             \/ /\ v = key /\ count[key] <= EmailLimit
                /\ Through(v, clock \div Window)' <=
                     Through(v, clock \div Window) + 1
      BY <1>1, <1>8, <2>1, <2>2
    <3> QED BY <1>6, <1>7, <3>1 DEF IInv, LimitsHold
  <2> QED BY <1>1, <2>3, <2>4 DEF LimitsHold
<1>15. SlicesHold' /\ SingleUse'
  BY <1>1 DEF IInv, SlicesHold, Slice, SingleUse
<1> QED BY <1>10, <1>11, <1>12, <1>13, <1>14, <1>15 DEF IInv

\* What a new token leaves of the other handlers.
LEMMA InsertMarks ==
  ASSUME IInv, NEW h \in Handlers, NEW t \in Tokens, InsertToken(h, t),
         NEW g \in Handlers, g # h, NEW o, o = handler[g]
  PROVE  /\ handler'[g] \in Handler
         /\ handler'[g].stage = o.stage /\ handler'[g].email = o.email
         /\ handler'[g].token = o.token /\ handler'[g].login = o.login
         /\ handler'[g].at = o.at /\ handler'[g].due = o.due
         /\ \/ handler'[g].late = o.late
            \/ handler'[g].late /\ o.stage \in {"counted", "found"}
         /\ o.stage \in {"counted", "found"} /\ o.email = handler[h].email =>
              handler'[g].late
<1>1. o \in Handler
  BY DEF IInv, TypeOK
<1>2. \/ handler'[g] = o
           /\ ~(o.stage \in {"counted", "found"} /\ o.email = handler[h].email)
      \/ /\ handler'[g] = [o EXCEPT !.late = TRUE]
         /\ o.stage \in {"counted", "found"}
  BY DEF InsertToken
<1> QED BY <1>1, <1>2 DEF Handler

LEMMA InsertKeeps ==
  ASSUME IInv, NEW h \in Handlers, NEW t \in Tokens, InsertToken(h, t)
  PROVE  IInv'
<1> DEFINE r == handler[h]
           new == [email |-> r.email, origin |-> r.origin, requested |-> clock,
                   expires |-> Expiry(Window), consumed |-> FALSE,
                   window |-> r.at, overtaken |-> r.late]
<1>1. /\ r \in Handler /\ r.stage = "found" /\ ~Issued(t) /\ Knows(r)
      /\ UNCHANGED <<clock, active, hits, login>>
      /\ token' = [token EXCEPT ![t] = new] /\ handler'[h] = Idle
      /\ token \in [Tokens -> Token]
      /\ \E f: handler' = [g \in Handlers |-> f[g]]
  <2>1. \E f: handler' = [g \in Handlers |-> f[g]]
    <3>1. handler' = [g \in Handlers |-> handler'[g]]
      BY DEF InsertToken
    <3> QED BY <3>1
  <2> QED BY <2>1 DEF InsertToken, IInv, TypeOK
<1>2. r.email \in Users /\ r.at <= clock \div Window
      /\ (~r.late => Cardinality(Sent(r.email, clock - Window)) < LoginLimit)
  BY <1>1 DEF Knows, Asking
<1>3. clock \in Nat /\ clock <= MaxTime /\ clock + Window \in Times
  BY Limits DEF IInv, TypeOK, Times
<1>4. new \in Token
  BY <1>1, <1>2, <1>3, Limits DEF Handler, Token, Expiry, Times
<1>5. /\ new.email = r.email /\ new.requested = clock /\ new.consumed = FALSE
      /\ new.window = r.at /\ new.overtaken = r.late
  OBVIOUS
<1>6. /\ token'[t] = new /\ token[t].email = None
      /\ \A s \in Tokens: s # t => token'[s] = token[s]
  BY <1>1 DEF Issued
<1>7. r.email # None
  BY <1>2, NoneAssumption
<1> HIDE DEF new
<1>8. TypeOK' /\ (hits \in [Users \cup Origins -> Nat])'
  <2>1. \A g \in Handlers: handler'[g] \in Handler
    BY <1>1, IdleIs, InsertMarks
  <2>2. handler' \in [Handlers -> Handler]
    BY <1>1, <2>1
  <2>3. token' \in [Tokens -> Token]
    BY <1>1, <1>4
  <2> QED BY <1>1, <2>2, <2>3 DEF IInv, TypeOK
<1>9. ASSUME NEW g \in Handlers PROVE Knows(handler[g])'
  <2>1. CASE g = h
    <3>1. Knows(Idle)'
      BY DEF Knows, Asking, Idle
    <3> QED BY <1>1, <2>1, <3>1
  <2>2. CASE g # h
    <3>1. PICK o: o = handler[g] /\ Knows(o)
      BY DEF IInv
    <3>2. PICK q:
            /\ q = handler'[g] /\ q.stage = o.stage /\ q.email = o.email
            /\ q.token = o.token /\ q.login = o.login /\ q.at = o.at
            /\ q.due = o.due
            /\ \/ q.late = o.late
               \/ q.late /\ o.stage \in {"counted", "found"}
            /\ o.stage \in {"counted", "found"} /\ o.email = r.email => q.late
      BY <2>2, <3>1, InsertMarks
    <3>3. Asking(q) => q.email \in Users /\ q.at <= clock' \div Window
      BY <1>1, <3>1, <3>2 DEF Knows, Asking
    <3>4. q.stage \in {"counted", "found"} /\ ~q.late =>
            Cardinality(Sent(q.email, clock - Window)') < LoginLimit
      <4> SUFFICES ASSUME q.stage \in {"counted", "found"}, ~q.late
                   PROVE Cardinality(Sent(q.email, clock - Window)') < LoginLimit
        OBVIOUS
      <4>1. o.email # r.email /\ ~o.late /\ o.email \in Users
        BY <3>1, <3>2 DEF Knows, Asking
      <4>2. Sent(q.email, clock - Window)' = Sent(o.email, clock - Window)
        BY <1>1, <1>5, <1>6, <3>2, <4>1, NoneAssumption DEF Sent
      <4> QED BY <3>1, <3>2, <4>1, <4>2 DEF Knows
    <3>5. q.stage \in {"begun", "consumed"} =>
            /\ q.token \in Tokens /\ Issued(q.token)' /\ q.at <= clock'
            /\ token'[q.token] = token[q.token]
      BY <1>1, <1>6, <3>1, <3>2 DEF Knows, Issued
    <3>6. q.stage = "consumed" =>
            ~token'[q.token].consumed /\ q.at < token'[q.token].expires
      BY <3>1, <3>2, <3>5 DEF Knows
    <3>7. q.stage = "resolved" =>
            q.login \in Logins /\ (q.late \/ Valid(q.login)')
      BY <1>1, <3>1, <3>2 DEF Knows, Valid, Created
    <3>8. q.stage = "asked" /\ q.email # None =>
            q.email \in Users /\ q.due \cap Users \subseteq {q.email}
      BY <3>1, <3>2 DEF Knows
    <3>9. Knows(q)'
      BY <1>1, <3>3, <3>4, <3>5, <3>6, <3>7, <3>8 DEF Knows, Asking
    <3> QED BY <3>2, <3>9
  <2> QED BY <2>1, <2>2
<1>10. OneConsumer'
  <2>1. \A g \in Handlers: handler'[g].stage = "consumed" =>
          handler[g].stage = "consumed" /\ handler'[g].token = handler[g].token
    BY <1>1, IdleIs, InsertMarks
  <2> QED BY <2>1 DEF IInv, OneConsumer
<1>11. (\A s \in Tokens: TokenFits(s))' /\ (\A l \in Logins: LoginFits(l))'
  <2>1. TokenFits(t)'
    BY <1>1, <1>2, <1>3, <1>5, <1>6, <1>7 DEF TokenFits, Issued
  <2>2. \A s \in Tokens: s # t => TokenFits(s)'
    BY <1>1, <1>6 DEF IInv, TokenFits, Issued
  <2> QED BY <1>1, <2>1, <2>2 DEF IInv, LoginFits, Created
<1>12. LimitsHold'
  <2>1. ASSUME NEW v \in Users, NEW w \in Nat
        PROVE  Through(v, w)' <= Through(v, w) /\ Through(v, w)' \in Nat
               /\ Through(v, w) \in Nat
    <3>1. /\ SentIn(v, w) \in SUBSET Tokens /\ SentIn(v, w)' \in SUBSET Tokens
          /\ AskingIn(v, w) \in SUBSET Handlers
          /\ AskingIn(v, w)' \in SUBSET Handlers
      BY DEF SentIn, AskingIn
    <3>2. /\ Cardinality(SentIn(v, w)) \in Nat
          /\ Cardinality(SentIn(v, w)') \in Nat
          /\ Cardinality(AskingIn(v, w)) \in Nat
          /\ Cardinality(AskingIn(v, w)') \in Nat
      BY <3>1, TokenSets, HandlerSets
    <3>3. AskingIn(v, w)' \subseteq AskingIn(v, w) \ {h}
      BY <1>1, IdleIs, InsertMarks DEF AskingIn, Asking
    <3>4. CASE v = r.email /\ w = r.at
      <4>1. SentIn(v, w)' \subseteq SentIn(v, w) \cup {t}
        BY <1>6 DEF SentIn
      <4>2. Cardinality(SentIn(v, w)') <= Cardinality(SentIn(v, w)) + 1
        <5>1. SentIn(v, w) \cup {t} \in SUBSET Tokens /\ IsFiniteSet(SentIn(v, w))
          BY <3>1, TokenSets
        <5>2. Cardinality(SentIn(v, w)') <= Cardinality(SentIn(v, w) \cup {t})
              /\ Cardinality(SentIn(v, w) \cup {t}) \in Nat
          BY <4>1, <5>1, Smaller, TokenSets
        <5>3. Cardinality(SentIn(v, w) \cup {t}) =
                IF t \in SentIn(v, w) THEN Cardinality(SentIn(v, w))
                ELSE Cardinality(SentIn(v, w)) + 1
          BY <5>1, FS_AddElement
        <5> QED BY <3>2, <5>2, <5>3
      <4>3. h \in AskingIn(v, w)
        BY <1>1, <3>4 DEF AskingIn, Asking
      <4>4. Cardinality(AskingIn(v, w)') <= Cardinality(AskingIn(v, w)) - 1
        <5>1. AskingIn(v, w) \ {h} \in SUBSET Handlers
              /\ IsFiniteSet(AskingIn(v, w))
          BY <3>1, HandlerSets
        <5>2. Cardinality(AskingIn(v, w)') <= Cardinality(AskingIn(v, w) \ {h})
          BY <3>3, <5>1, FewerHandlers
        <5>3. Cardinality(AskingIn(v, w) \ {h}) = Cardinality(AskingIn(v, w)) - 1
          BY <4>3, <5>1, FS_RemoveElement
        <5> QED BY <3>2, <5>2, <5>3
      <4> QED BY <3>2, <4>2, <4>4 DEF Through
    <3>5. CASE ~(v = r.email /\ w = r.at)
      <4>1. SentIn(v, w)' = SentIn(v, w)
        BY <1>5, <1>6, <3>5, NoneAssumption DEF SentIn
      <4>2. Cardinality(AskingIn(v, w)') <= Cardinality(AskingIn(v, w))
        BY <3>1, <3>3, FewerHandlers
      <4> QED BY <3>2, <4>1, <4>2 DEF Through
    <3> QED BY <3>4, <3>5
  <2>2. clock \div Window \in Nat /\ \A v \in Users: hits[v] \in Nat
    BY <1>3, Windows DEF IInv
  <2>3. ASSUME NEW v \in Users, NEW w \in Nat PROVE Through(v, w)' <= EmailLimit
    BY <2>1, Limits DEF IInv, LimitsHold
  <2>4. ASSUME NEW v \in Users
        PROVE  Through(v, clock \div Window)' <= hits[v]
    <3>1. PICK w: w = clock \div Window
      OBVIOUS
    <3>2. Through(v, w)' <= Through(v, w) /\ Through(v, w)' \in Nat
          /\ Through(v, w) \in Nat /\ Through(v, w) <= hits[v]
      BY <2>1, <2>2, <3>1 DEF IInv, LimitsHold
    <3> QED BY <1>1, <2>2, <3>1, <3>2
  <2> QED BY <1>1, <2>3, <2>4 DEF LimitsHold
<1>13. SlicesHold'
  <2> SUFFICES ASSUME NEW u \in Users, NEW now \in Nat
               PROVE  \/ Cardinality(Slice(u, now)') <= LoginLimit
                      \/ \E s \in Slice(u, now)': token'[s].overtaken
    BY DEF SlicesHold
  <2>1. \/ Cardinality(Slice(u, now)) <= LoginLimit
        \/ \E s \in Slice(u, now): token[s].overtaken
    BY DEF IInv, SlicesHold
  <2>2. t \notin Slice(u, now)
    BY <1>6, NoneAssumption DEF Slice
  <2>3. CASE t \notin Slice(u, now)'
    <3>1. Slice(u, now)' = Slice(u, now)
      BY <1>6, <2>2, <2>3 DEF Slice
    <3>2. \A s \in Slice(u, now): token'[s] = token[s]
      BY <1>6, <2>2 DEF Slice
    <3> QED BY <2>1, <3>1, <3>2
  <2>4. CASE t \in Slice(u, now)'
    <3>1. u = r.email /\ clock \in now..(now + Window)
      BY <1>5, <1>6, <2>4 DEF Slice
    <3>2. CASE r.late
      BY <1>5, <1>6, <2>4, <3>2
    <3>3. CASE ~r.late
      <4>1. Slice(u, now)' = Slice(u, now) \cup {t}
        BY <1>6, <2>4 DEF Slice
      <4>2. Slice(u, now) \subseteq Sent(u, clock - Window)
        <5>1. \A s \in Tokens: token[s].requested \in Nat
          BY Limits DEF IInv, TypeOK, Token, Times
        <5> QED BY <1>3, <3>1, <5>1, Limits DEF Slice, Sent
      <4>3. Sent(u, clock - Window) \in SUBSET Tokens
        BY DEF Sent
      <4>4. Cardinality(Slice(u, now)) < LoginLimit
        BY <1>2, <3>1, <3>3, <4>2, <4>3, Smaller, TokenSets, Limits
      <4>5. Cardinality(Slice(u, now) \cup {t}) = Cardinality(Slice(u, now)) + 1
            /\ Cardinality(Slice(u, now)) \in Nat
        BY <2>2, <4>2, <4>3, TokenSets, FS_AddElement
      <4> QED BY <4>1, <4>4, <4>5, Limits
    <3> QED BY <3>2, <3>3
  <2> QED BY <2>3, <2>4
<1>14. SingleUse'
  <2>1. ~token[t].consumed
    BY <1>1 DEF IInv, TokenFits
  <2>2. \A l \in Logins: login[l].by # t
    BY <2>1 DEF IInv, SingleUse
  <2> QED BY <1>1, <1>5, <1>6, <2>2 DEF IInv, SingleUse
<1> QED BY <1>8, <1>9, <1>10, <1>11, <1>12, <1>13, <1>14 DEF IInv

-----------------------------------------------------------------------------
(* Following a link, and what happens to sessions.                         *)

\* The requests under way and the tokens of a window do not grow when no
\* handler begins to ask.
LEMMA LimitsStay ==
  ASSUME IInv, clock \in Nat, clock' = clock, hits' = hits,
         \A t \in Tokens: /\ token'[t].email = token[t].email
                          /\ token'[t].window = token[t].window,
         \A h \in Handlers: Asking(handler[h])' =>
           /\ Asking(handler[h]) /\ handler'[h].email = handler[h].email
           /\ handler'[h].at = handler[h].at
  PROVE  LimitsHold'
<1>1. ASSUME NEW u \in Users, NEW w \in Nat
      PROVE  Through(u, w)' <= Through(u, w) /\ Through(u, w)' \in Nat
             /\ Through(u, w) \in Nat
  <2>1. SentIn(u, w)' = SentIn(u, w)
    BY DEF SentIn
  <2>2. AskingIn(u, w)' \subseteq AskingIn(u, w)
    BY DEF AskingIn
  <2> QED BY <2>1, <2>2, SetsTyped, TokenSets, HandlerSets, FewerHandlers
          DEF Through
<1>2. clock \div Window \in Nat /\ \A u \in Users: hits[u] \in Nat
  BY Windows DEF IInv
<1>3. ASSUME NEW u \in Users, NEW w \in Nat PROVE Through(u, w)' <= EmailLimit
  BY <1>1, Limits DEF IInv, LimitsHold
<1>4. ASSUME NEW u \in Users PROVE Through(u, clock \div Window)' <= hits[u]
  <2>1. PICK w: w = clock \div Window
    OBVIOUS
  <2>2. Through(u, w)' <= Through(u, w) /\ Through(u, w)' \in Nat
        /\ Through(u, w) \in Nat /\ Through(u, w) <= hits[u]
    BY <1>1, <1>2, <2>1 DEF IInv, LimitsHold
  <2> QED BY <1>2, <2>1, <2>2
<1> QED BY <1>3, <1>4 DEF LimitsHold

LEMMA CreateKeeps ==
  ASSUME IInv, NEW h \in Handlers, NEW l \in Logins, CreateSession(h, l)
  PROVE  IInv'
<1> DEFINE r == handler[h]
           t == r.token
           new == [user |-> token[t].email, issued |-> r.at,
                   expires |-> Expiry(SessionTtl), revoked |-> FALSE, by |-> t]
<1>1. /\ r \in Handler /\ r.stage = "consumed" /\ Knows(r)
      /\ UNCHANGED <<clock, active, hits>> /\ token[t].email \in active
      /\ ~Created(l)
      /\ token' = [token EXCEPT ![t].consumed = TRUE]
      /\ login' = [login EXCEPT ![l] = new]
      /\ handler' = [handler EXCEPT ![h] = Idle]
      /\ token \in [Tokens -> Token] /\ login \in [Logins -> Login]
      /\ handler \in [Handlers -> Handler] /\ active \subseteq Users
  BY DEF CreateSession, IInv, TypeOK
<1>2. /\ t \in Tokens /\ Issued(t) /\ r.at <= clock /\ ~token[t].consumed
      /\ r.at < token[t].expires
  BY <1>1 DEF Knows
<1>3. clock \in Nat /\ clock <= MaxTime /\ clock + SessionTtl \in Times
  BY Limits DEF IInv, TypeOK, Times
<1>4. new \in Login
  <2>1. r.at \in Times
    BY <1>1, Limits DEF Handler, Times
  <2> QED BY <1>1, <1>2, <1>3, <2>1 DEF Login, Expiry
<1>5. new.user = token[t].email /\ new.issued = r.at /\ new.by = t
  OBVIOUS
<1> HIDE DEF new
<1>6. /\ \A s \in Tokens: s # t => token'[s] = token[s]
      /\ token'[t] \in Token /\ token'[t].consumed = TRUE
      /\ \A s \in Tokens: /\ token'[s].email = token[s].email
                          /\ token'[s].requested = token[s].requested
                          /\ token'[s].expires = token[s].expires
                          /\ token'[s].window = token[s].window
                          /\ token'[s].overtaken = token[s].overtaken
  BY <1>1, <1>2 DEF Token
<1>7. login'[l] = new /\ \A m \in Logins: m # l => login'[m] = login[m]
  BY <1>1
<1>8. handler'[h] = Idle
      /\ \A g \in Handlers: g # h => handler'[g] = handler[g]
  BY <1>1
<1>9. TypeOK' /\ (hits \in [Users \cup Origins -> Nat])'
  <2>1. token' \in [Tokens -> Token]
    BY <1>1, <1>6
  <2>2. login' \in [Logins -> Login]
    BY <1>1, <1>4
  <2>3. handler' \in [Handlers -> Handler]
    BY <1>1, IdleIs
  <2> QED BY <1>1, <2>1, <2>2, <2>3 DEF IInv, TypeOK
<1>10. ASSUME NEW g \in Handlers PROVE Knows(handler[g])'
  <2>1. CASE g = h
    <3>1. Knows(Idle)'
      BY DEF Knows, Asking, Idle
    <3> QED BY <1>8, <2>1, <3>1
  <2>2. CASE g # h
    <3>1. PICK o: o = handler[g] /\ handler'[g] = o /\ Knows(o)
      BY <1>8, <2>2 DEF IInv
    <3>2. Asking(o) => o.email \in Users /\ o.at <= clock' \div Window
      BY <1>1, <3>1 DEF Knows
    <3>3. Sent(o.email, clock - Window)' = Sent(o.email, clock - Window)
      BY <1>1, <1>6 DEF Sent
    <3>4. o.stage \in {"begun", "consumed"} =>
            o.token \in Tokens /\ Issued(o.token)' /\ o.at <= clock'
      BY <1>1, <1>6, <3>1 DEF Knows, Issued
    <3>5. o.stage = "consumed" =>
            ~token'[o.token].consumed /\ o.at < token'[o.token].expires
      <4>1. o.stage = "consumed" => o.token # t
        BY <1>1, <2>2, <3>1 DEF IInv, OneConsumer
      <4> QED BY <1>6, <3>1, <4>1 DEF Knows
    <3>6. o.stage = "resolved" =>
            o.login \in Logins /\ (o.late \/ Valid(o.login)')
      BY <1>1, <1>7, <3>1 DEF Knows, Valid, Created
    <3>7. Knows(o)'
      BY <1>1, <3>1, <3>2, <3>3, <3>4, <3>5, <3>6 DEF Knows, Asking
    <3> QED BY <3>1, <3>7
  <2> QED BY <2>1, <2>2
<1>11. OneConsumer'
  BY <1>8, IdleIs DEF IInv, OneConsumer
<1>12. (\A s \in Tokens: TokenFits(s))'
  BY <1>1, <1>2, <1>6 DEF IInv, TokenFits, Issued
<1>13. (\A m \in Logins: LoginFits(m))'
  <2>1. LoginFits(l)'
    BY <1>1, <1>2, <1>5, <1>7, NoneAssumption DEF LoginFits, Created, Issued
  <2>2. \A m \in Logins: m # l => LoginFits(m)'
    BY <1>1, <1>7 DEF IInv, LoginFits, Created
  <2> QED BY <2>1, <2>2
<1>14. LimitsHold'
  <2>1. \A g \in Handlers: Asking(handler[g])' =>
          /\ Asking(handler[g]) /\ handler'[g].email = handler[g].email
          /\ handler'[g].at = handler[g].at
    BY <1>8, IdleIs DEF Asking
  <2> QED BY <1>1, <1>3, <1>6, <2>1, LimitsStay
<1>15. SlicesHold'
  <2>1. \A u \in Users, now \in Nat: Slice(u, now)' = Slice(u, now)
    BY <1>6 DEF Slice
  <2>2. \A u \in Users, now \in Nat:
          \A s \in Slice(u, now): token'[s].overtaken = token[s].overtaken
    BY <1>6 DEF Slice
  <2> QED BY <2>1, <2>2 DEF IInv, SlicesHold
<1>16. SingleUse'
  <2>1. \A m \in Logins: login[m].by # t
    BY <1>2 DEF IInv, SingleUse
  <2>2. login[l].by = None /\ None \notin Tokens
    BY <1>1, NoneAssumption DEF IInv, LoginFits
  <2>3. \A s \in Tokens: s # t =>
          {m \in Logins: login'[m].by = s} = {m \in Logins: login[m].by = s}
    BY <1>5, <1>7, <2>2
  <2>4. {m \in Logins: login'[m].by = t} = {l}
    BY <1>5, <1>7, <2>1
  <2>5. ASSUME NEW s \in Tokens, s # t
        PROVE  /\ token'[s].consumed <=> {m \in Logins: login'[m].by = s} # {}
               /\ \A m, n \in {k \in Logins: login'[k].by = s}: m = n
               /\ \A m \in {n \in Logins: login'[n].by = s}:
                    /\ login'[m].user = token'[s].email
                    /\ login'[m].issued < token'[s].expires
    <3>1. \A m \in Logins: login[m].by = s => login'[m] = login[m]
      BY <1>7, <2>2
    <3> QED BY <1>6, <2>3, <2>5, <3>1 DEF IInv, SingleUse
  <2>6. /\ token'[t].consumed <=> {m \in Logins: login'[m].by = t} # {}
        /\ \A m, n \in {k \in Logins: login'[k].by = t}: m = n
        /\ \A m \in {n \in Logins: login'[n].by = t}:
             /\ login'[m].user = token'[t].email
             /\ login'[m].issued < token'[t].expires
    BY <1>2, <1>5, <1>6, <1>7, <2>4
  <2> QED BY <2>5, <2>6 DEF SingleUse
<1> QED BY <1>9, <1>10, <1>11, <1>12, <1>13, <1>14, <1>15, <1>16 DEF IInv

LEMMA OvertakenIs ==
  ASSUME handler \in [Handlers -> Handler], NEW S
  PROVE  /\ Overtaken(S) \in [Handlers -> Handler]
         /\ \A g \in Handlers:
              /\ Overtaken(S)[g].stage = handler[g].stage
              /\ Overtaken(S)[g].email = handler[g].email
              /\ Overtaken(S)[g].token = handler[g].token
              /\ Overtaken(S)[g].login = handler[g].login
              /\ Overtaken(S)[g].at = handler[g].at
              /\ Overtaken(S)[g].due = handler[g].due
              /\ \/ Overtaken(S)[g].late = handler[g].late
                 \/ handler[g].stage = "resolved" /\ Overtaken(S)[g].late
              /\ handler[g].stage = "resolved" /\ handler[g].login \in S =>
                   Overtaken(S)[g].late
<1> SUFFICES ASSUME NEW g \in Handlers
             PROVE  LET q == Overtaken(S)[g] IN
                    /\ q \in Handler /\ q.stage = handler[g].stage
                    /\ q.email = handler[g].email /\ q.token = handler[g].token
                    /\ q.login = handler[g].login /\ q.at = handler[g].at
                    /\ q.due = handler[g].due
                    /\ \/ q.late = handler[g].late
                       \/ handler[g].stage = "resolved" /\ q.late
                    /\ handler[g].stage = "resolved" /\ handler[g].login \in S =>
                         q.late
  BY DEF Overtaken
<1>1. handler[g] \in Handler
  OBVIOUS
<1>2. CASE handler[g].stage = "resolved" /\ handler[g].login \in S
  <2>1. Overtaken(S)[g] = [handler[g] EXCEPT !.late = TRUE]
    BY <1>2 DEF Overtaken
  <2> QED BY <1>1, <1>2, <2>1 DEF Handler
<1>3. CASE ~(handler[g].stage = "resolved" /\ handler[g].login \in S)
  <2>1. Overtaken(S)[g] = handler[g]
    BY <1>3 DEF Overtaken
  <2> QED BY <1>1, <1>3, <2>1
<1> QED BY <1>2, <1>3

\* A handler that has read a session is marked when the session stops being
\* what it read; the others know what they knew.
Marks(q, o) ==
  /\ q \in Handler /\ q.stage = o.stage /\ q.email = o.email
  /\ q.token = o.token /\ q.login = o.login /\ q.at = o.at
  /\ q.due = o.due
  /\ q.late = o.late \/ (o.stage = "resolved" /\ q.late)

LEMMA MarksKnow ==
  ASSUME NEW q, NEW o, Marks(q, o), Knows(o), UNCHANGED <<clock, token>>,
         o.stage = "resolved" =>
           q.late \/ (Valid(o.login) => Valid(o.login)')
  PROVE  Knows(q)'
<1>1. Sent(q.email, clock - Window)' = Sent(o.email, clock - Window)
  BY DEF Sent, Marks
<1>2. Asking(q) <=> Asking(o)
  BY DEF Asking, Marks
<1>3. \A t: Issued(t)' <=> Issued(t)
  BY DEF Issued
<1>4. q.stage = "resolved" => q.login \in Logins /\ (q.late \/ Valid(q.login)')
  BY DEF Knows, Marks
<1>5. q.stage \in {"counted", "found"} /\ ~q.late =>
        Cardinality(Sent(q.email, clock - Window)') < LoginLimit
  BY <1>1 DEF Knows, Marks
<1> QED BY <1>2, <1>3, <1>4, <1>5 DEF Knows, Marks, Asking

\* A step that changes sessions, users or handlers, and no token.
LEMMA SessionStep ==
  ASSUME IInv, UNCHANGED <<clock, hits, token>>, TypeOK',
         NEW Kept, \A l \in Kept: Valid(l) => Valid(l)',
         \A g \in Handlers:
           \/ handler'[g] = Idle
           \/ /\ Marks(handler'[g], handler[g])
              /\ handler[g].stage = "resolved" =>
                   handler'[g].late \/ handler[g].login \in Kept,
         \A l \in Logins: /\ login'[l].user = login[l].user
                          /\ login'[l].issued = login[l].issued
                          /\ login'[l].by = login[l].by
  PROVE  IInv'
<1>1. ASSUME NEW g \in Handlers PROVE Knows(handler[g])'
  <2>1. CASE handler'[g] = Idle
    <3>1. Knows(Idle)'
      BY DEF Knows, Asking, Idle
    <3> QED BY <2>1, <3>1
  <2>2. CASE /\ Marks(handler'[g], handler[g])
             /\ handler[g].stage = "resolved" =>
                  handler'[g].late \/ handler[g].login \in Kept
    <3>1. PICK o: o = handler[g] /\ Knows(o)
      BY DEF IInv
    <3>2. PICK q: q = handler'[g]
      OBVIOUS
    <3>3. Knows(q)'
      BY <2>2, <3>1, <3>2, MarksKnow
    <3> QED BY <3>2, <3>3
  <2> QED BY <2>1, <2>2
<1>2. \A g \in Handlers:
        /\ handler'[g].stage \in {handler[g].stage, "idle"}
        /\ handler'[g].stage # "idle" =>
             /\ handler'[g].email = handler[g].email
             /\ handler'[g].at = handler[g].at
             /\ handler'[g].token = handler[g].token
             /\ handler'[g].due = handler[g].due
  BY IdleIs DEF Marks
<1>3. OneConsumer'
  BY <1>2 DEF IInv, OneConsumer
<1>4. LimitsHold'
  <2>1. clock \in Nat
    BY Limits DEF IInv, TypeOK
  <2>2. \A h \in Handlers: Asking(handler[h])' =>
          /\ Asking(handler[h]) /\ handler'[h].email = handler[h].email
          /\ handler'[h].at = handler[h].at
    BY <1>2 DEF Asking
  <2> QED BY <2>1, <2>2, LimitsStay
<1>5. (\A t \in Tokens: TokenFits(t))' /\ (\A l \in Logins: LoginFits(l))'
  BY DEF IInv, TokenFits, LoginFits, Issued, Created
<1>6. SlicesHold'
  BY DEF IInv, SlicesHold, Slice
<1>7. SingleUse'
  <2>1. \A t \in Tokens:
          {l \in Logins: login'[l].by = t} = {l \in Logins: login[l].by = t}
    OBVIOUS
  <2> QED BY <2>1 DEF IInv, SingleUse
<1>8. (hits \in [Users \cup Origins -> Nat])'
  BY DEF IInv
<1> QED BY <1>1, <1>3, <1>4, <1>5, <1>6, <1>7, <1>8 DEF IInv

LEMMA RevokeKeeps ==
  ASSUME IInv, NEW h \in Handlers, RevokeSession(h)
  PROVE  IInv'
<1> DEFINE l == handler[h].login
<1>1. /\ handler \in [Handlers -> Handler] /\ login \in [Logins -> Login]
      /\ UNCHANGED <<clock, active, hits, token>>
      /\ login' = [login EXCEPT ![l].revoked = TRUE]
      /\ handler' = [Overtaken({l}) EXCEPT ![h] = Idle]
      /\ l \in Logins
  BY DEF RevokeSession, IInv, TypeOK, Knows
<1> HIDE DEF l
<1>2. /\ login' \in [Logins -> Login]
      /\ \A m \in Logins: /\ login'[m].user = login[m].user
                          /\ login'[m].issued = login[m].issued
                          /\ login'[m].by = login[m].by
      /\ \A m \in Logins: m # l => login'[m] = login[m]
  BY <1>1 DEF Login
<1>3. /\ Overtaken({l}) \in [Handlers -> Handler]
      /\ \A g \in Handlers: g # h =>
           /\ handler'[g] = Overtaken({l})[g]
           /\ Marks(handler'[g], handler[g])
           /\ handler[g].stage = "resolved" /\ handler[g].login = l =>
                handler'[g].late
  <2>1. /\ Overtaken({l}) \in [Handlers -> Handler]
        /\ \A g \in Handlers:
              /\ Overtaken({l})[g].stage = handler[g].stage
              /\ Overtaken({l})[g].email = handler[g].email
              /\ Overtaken({l})[g].token = handler[g].token
              /\ Overtaken({l})[g].login = handler[g].login
              /\ Overtaken({l})[g].at = handler[g].at
              /\ Overtaken({l})[g].due = handler[g].due
              /\ \/ Overtaken({l})[g].late = handler[g].late
                 \/ handler[g].stage = "resolved" /\ Overtaken({l})[g].late
              /\ handler[g].stage = "resolved" /\ handler[g].login \in {l} =>
                   Overtaken({l})[g].late
    BY <1>1, OvertakenIs
  <2>2. \A g \in Handlers: g # h => handler'[g] = Overtaken({l})[g]
    BY <1>1, <2>1
  <2> QED BY <2>1, <2>2 DEF Marks
<1>4. handler'[h] = Idle /\ handler' \in [Handlers -> Handler]
  BY <1>1, <1>3, IdleIs
<1>5. TypeOK'
  BY <1>1, <1>2, <1>4 DEF IInv, TypeOK
<1>6. \A m \in Logins: m # l => (Valid(m) => Valid(m)')
  BY <1>1, <1>2 DEF Valid, Created
<1>7. ASSUME NEW g \in Handlers, g # h, handler[g].stage = "resolved"
      PROVE  handler'[g].late \/ handler[g].login \in {m \in Logins: m # l}
  <2>1. handler[g].login \in Logins
    BY <1>7 DEF IInv, Knows
  <2> QED BY <1>3, <1>7, <2>1
<1>8. PICK Kept: Kept = {m \in Logins: m # l}
  OBVIOUS
<1>9. /\ \A m \in Kept: Valid(m) => Valid(m)'
      /\ \A g \in Handlers:
           \/ handler'[g] = Idle
           \/ /\ Marks(handler'[g], handler[g])
              /\ handler[g].stage = "resolved" =>
                   handler'[g].late \/ handler[g].login \in Kept
  BY <1>3, <1>4, <1>6, <1>7, <1>8
<1> QED BY <1>1, <1>2, <1>5, <1>9, SessionStep

LEMMA StatusKeeps ==
  ASSUME IInv, NEW u \in Users, SetUserStatus(u)
  PROVE  IInv'
<1>1. /\ handler \in [Handlers -> Handler] /\ active \subseteq Users
      /\ UNCHANGED <<clock, hits, token, login>>
      /\ active' = IF u \in active THEN active \ {u} ELSE active \cup {u}
  BY DEF SetUserStatus, IInv, TypeOK
<1>2. PICK gone: gone = IF u \in active THEN {l \in Logins: login[l].user = u}
                        ELSE {}
  OBVIOUS
<1>3. PICK Kept: Kept = Logins \ gone
  OBVIOUS
<1>4. \A l \in Kept: Valid(l) => Valid(l)'
  BY <1>1, <1>2, <1>3 DEF Valid, Created
<1>5. handler' \in [Handlers -> Handler]
      /\ \A g \in Handlers:
           /\ Marks(handler'[g], handler[g])
           /\ handler[g].stage = "resolved" /\ handler[g].login \in gone =>
                handler'[g].late
  <2>1. CASE u \in active
    <3>1. handler' = Overtaken(gone)
      BY <1>2, <2>1 DEF SetUserStatus
    <3> QED BY <1>1, <3>1, OvertakenIs DEF Marks
  <2>2. CASE u \notin active
    <3>1. handler' = handler /\ gone = {}
      BY <1>2, <2>2 DEF SetUserStatus
    <3> QED BY <1>1, <3>1 DEF Marks
  <2> QED BY <2>1, <2>2
<1>6. \A g \in Handlers: handler[g].stage = "resolved" =>
        handler'[g].late \/ handler[g].login \in Kept
  <2>1. \A g \in Handlers: handler[g].stage = "resolved" =>
          handler[g].login \in Logins
    BY DEF IInv, Knows
  <2> QED BY <1>3, <1>5, <2>1
<1>7. TypeOK'
  BY <1>1, <1>5 DEF IInv, TypeOK
<1> QED BY <1>1, <1>4, <1>5, <1>6, <1>7, SessionStep

-----------------------------------------------------------------------------
(* Time passes.                                                            *)

LEMMA TickKeeps ==
  ASSUME IInv, Tick
  PROVE  IInv'
<1> DEFINE gone == {l \in Logins: login[l].expires = clock'}
<1>1. /\ clock \in Nat /\ clock < MaxTime /\ clock' = clock + 1
      /\ UNCHANGED <<active, token, login>> /\ handler' = Overtaken(gone)
      /\ handler \in [Handlers -> Handler]
  BY Limits DEF Tick, IInv, TypeOK
<1>2. hits \in [Users \cup Origins -> Nat]
      /\ hits' = IF clock' % Window = 0 THEN [key \in Users \cup Origins |-> 0]
                 ELSE hits
  BY DEF Tick, IInv
<1>3. /\ clock \div Window \in Nat /\ clock' \div Window \in Nat
      /\ clock' \div Window = IF clock' % Window = 0
                              THEN (clock \div Window) + 1
                              ELSE clock \div Window
  <2>1. clock + 1 \in Nat
    BY <1>1
  <2> QED BY <1>1, <2>1, Windows
<1>4. handler' \in [Handlers -> Handler]
      /\ \A g \in Handlers:
           /\ Marks(handler'[g], handler[g])
           /\ handler[g].stage = "resolved" /\ handler[g].login \in gone =>
                handler'[g].late
  <2> HIDE DEF gone
  <2> QED BY <1>1, OvertakenIs DEF Marks
<1>5. TypeOK' /\ (hits \in [Users \cup Origins -> Nat])'
  <2>1. hits' \in [Users \cup Origins -> Nat]
        /\ \A key \in Users \cup Origins: hits'[key] \in {0, hits[key]}
    BY <1>2
  <2>2. \A key \in Users \cup Origins: LimitOf(key) \in Nat
    BY Limits DEF LimitOf
  <2>3. \A key \in Users \cup Origins: hits'[key] \in 0..(LimitOf(key) + 1)
    BY <2>1, <2>2 DEF IInv, TypeOK
  <2>4. clock' \in 0..MaxTime
    BY <1>1, Limits
  <2> QED BY <1>1, <1>4, <2>1, <2>3, <2>4 DEF IInv, TypeOK, LimitOf
<1>6. ASSUME NEW g \in Handlers PROVE Knows(handler[g])'
  <2>1. PICK o: o = handler[g] /\ Knows(o) /\ o \in Handler
    BY <1>1 DEF IInv
  <2>2. PICK q: q = handler'[g] /\ Marks(q, o)
    BY <1>4, <2>1
  <2>3. Asking(q) => q.email \in Users /\ q.at <= clock' \div Window
    <3>1. o.at \in Nat
      BY <2>1, Limits DEF Handler
    <3> QED BY <1>3, <2>1, <2>2, <3>1 DEF Knows, Asking, Marks
  <2>4. Asking(q) /\ q.stage \in {"counted", "found"} /\ ~q.late =>
          Cardinality(Sent(q.email, clock - Window)') < LoginLimit
    <3> SUFFICES ASSUME q.stage \in {"counted", "found"}, ~q.late
                 PROVE Cardinality(Sent(q.email, clock - Window)') < LoginLimit
      OBVIOUS
    <3>1. Cardinality(Sent(o.email, clock - Window)) < LoginLimit
      BY <2>1, <2>2 DEF Knows, Marks
    <3>2. \A t \in Tokens: token[t].requested \in Nat
      BY Limits DEF IInv, TypeOK, Token, Times
    <3>3. Sent(q.email, clock - Window)' \subseteq Sent(o.email, clock - Window)
      <4>1. Window \in Nat /\ q.email = o.email
        BY <2>2, Limits DEF Marks
      <4>2. \A t \in Tokens: token[t].requested >= (clock + 1) - Window =>
              token[t].requested >= clock - Window
        BY <1>1, <3>2, <4>1
      <4> QED BY <1>1, <4>1, <4>2 DEF Sent
    <3>4. Sent(o.email, clock - Window) \in SUBSET Tokens
      BY DEF Sent
    <3> QED BY <3>1, <3>3, <3>4, Smaller, TokenSets, Limits
  <2>5. q.stage \in {"begun", "consumed"} =>
          q.token \in Tokens /\ Issued(q.token)' /\ q.at <= clock'
    <3>1. o.at \in Nat
      BY <2>1, Limits DEF Handler
    <3> QED BY <1>1, <2>1, <2>2, <3>1 DEF Knows, Marks, Issued
  <2>6. q.stage = "consumed" =>
          ~token'[q.token].consumed /\ q.at < token'[q.token].expires
    BY <1>1, <2>1, <2>2 DEF Knows, Marks
  <2>7. q.stage = "resolved" => q.login \in Logins /\ (q.late \/ Valid(q.login)')
    <3>1. \A l \in Logins: login[l].expires \in Nat
      BY Limits DEF IInv, TypeOK, Login, Times
    <3>2. \A l \in Logins: l \notin gone /\ Valid(l) => Valid(l)'
      BY <1>1, <3>1 DEF Valid, Created
    <3>3. o.stage = "resolved" /\ o.login \in gone => q.late
      BY <1>4, <2>1, <2>2
    <3> HIDE DEF gone
    <3> QED BY <2>1, <2>2, <3>2, <3>3 DEF Knows, Marks
  <2>8. q.stage = "asked" /\ q.email # None =>
          q.email \in Users /\ q.due \cap Users \subseteq {q.email}
    BY <2>1, <2>2 DEF Knows, Marks
  <2>9. Knows(q)'
    BY <2>3, <2>4, <2>5, <2>6, <2>7, <2>8 DEF Knows, Asking
  <2> QED BY <2>2, <2>9
<1>7. OneConsumer'
  BY <1>4 DEF IInv, OneConsumer, Marks
<1>8. (\A t \in Tokens: TokenFits(t))'
  <2>1. \A t \in Tokens: token[t].requested \in Nat /\ token[t].window \in Nat
    BY Limits DEF IInv, TypeOK, Token, Times
  <2> QED BY <1>1, <1>3, <2>1 DEF IInv, TokenFits, Issued
<1>9. (\A l \in Logins: LoginFits(l))'
  <2>1. \A l \in Logins: login[l].issued \in Nat
    BY Limits DEF IInv, TypeOK, Login, Times
  <2> QED BY <1>1, <2>1 DEF IInv, LoginFits, Created
<1>10. LimitsHold'
  <2>1. \A u \in Users, w \in Nat: Through(u, w)' = Through(u, w)
    <3>1. \A u, w: SentIn(u, w)' = SentIn(u, w)
      BY <1>1 DEF SentIn
    <3>2. \A u, w: AskingIn(u, w)' = AskingIn(u, w)
      BY <1>4 DEF AskingIn, Asking, Marks
    <3> QED BY <3>1, <3>2 DEF Through
  <2>2. ASSUME NEW u \in Users PROVE Through(u, clock \div Window)' <= hits'[u]
    <3>1. PICK w \in Nat: w = clock' \div Window
      BY <1>3
    <3>2. CASE clock' % Window = 0
      <4>1. w = (clock \div Window) + 1
        BY <1>3, <3>1, <3>2
      <4>2. SentIn(u, w) = {}
        <5>1. \A t \in Tokens: token[t].window \in Nat
          BY Limits DEF IInv, TypeOK, Token
        <5> QED BY <1>3, <4>1, <5>1, NoneAssumption
                DEF IInv, TokenFits, Issued, SentIn
      <4>3. AskingIn(u, w) = {}
        <5>1. \A h \in Handlers: handler[h].at \in Nat
          BY <1>1, Limits DEF Handler
        <5> QED BY <1>3, <4>1, <5>1 DEF IInv, Knows, AskingIn
      <4>4. Through(u, w) = 0
        BY <4>2, <4>3, FS_EmptySet DEF Through
      <4>5. hits'[u] = 0
        BY <1>2, <3>2
      <4> QED BY <2>1, <3>1, <4>4, <4>5
    <3>3. CASE clock' % Window # 0
      <4>1. w = clock \div Window /\ hits' = hits
        BY <1>2, <1>3, <3>1, <3>3
      <4>2. Through(u, w) <= hits[u]
        BY <4>1 DEF IInv, LimitsHold
      <4> QED BY <2>1, <3>1, <4>1, <4>2
    <3> QED BY <3>2, <3>3
  <2> QED BY <2>1, <2>2 DEF IInv, LimitsHold
<1>11. SlicesHold' /\ SingleUse'
  BY <1>1 DEF IInv, SlicesHold, Slice, SingleUse
<1> QED BY <1>5, <1>6, <1>7, <1>8, <1>9, <1>10, <1>11 DEF IInv

-----------------------------------------------------------------------------
(* The invariant and what follows from it.                                 *)

LEMMA Initial == Init => IInv
<1> SUFFICES ASSUME Init PROVE IInv
  OBVIOUS
<1>1. /\ clock = 0 /\ active = Users
      /\ hits = [key \in Users \cup Origins |-> 0]
      /\ token = [t \in Tokens |-> NoToken]
      /\ login = [l \in Logins |-> NoLogin]
      /\ handler = [h \in Handlers |-> Idle]
  BY DEF Init
<1>2. NoToken \in Token /\ NoLogin \in Login
  BY Limits DEF NoToken, Token, NoLogin, Login, Origins, Times
<1>3. \A key: LimitOf(key) \in Nat
  BY Limits DEF LimitOf
<1>4. TypeOK /\ hits \in [Users \cup Origins -> Nat]
  BY <1>1, <1>2, <1>3, IdleIs, Limits DEF TypeOK
<1>5. (\A h \in Handlers: Knows(handler[h])) /\ OneConsumer
  BY <1>1, IdleIs DEF OneConsumer
<1>6. (\A t \in Tokens: TokenFits(t)) /\ \A l \in Logins: LoginFits(l)
  BY <1>1 DEF TokenFits, LoginFits, Issued, Created, NoToken, NoLogin
<1>7. ASSUME NEW u \in Users, NEW w PROVE Through(u, w) = 0
  <2>1. SentIn(u, w) = {}
    BY <1>1, NoneAssumption DEF SentIn, NoToken
  <2>2. AskingIn(u, w) = {}
    BY <1>1, IdleIs DEF AskingIn
  <2> QED BY <2>1, <2>2, FS_EmptySet DEF Through
<1>8. LimitsHold
  BY <1>1, <1>7, Limits DEF LimitsHold
<1>9. SlicesHold
  <2>1. \A u \in Users, now \in Nat: Slice(u, now) = {}
    BY <1>1, NoneAssumption DEF Slice, NoToken
  <2> QED BY <2>1, FS_EmptySet, Limits DEF SlicesHold
<1>10. SingleUse
  <2>1. \A t \in Tokens: ~token[t].consumed /\ {l \in Logins: login[l].by = t} = {}
    BY <1>1, NoneAssumption DEF NoToken, NoLogin
  <2> QED BY <2>1 DEF SingleUse
<1> QED BY <1>4, <1>5, <1>6, <1>8, <1>9, <1>10 DEF IInv

LEMMA Inductive == IInv /\ [Next]_vars => IInv'
<1> SUFFICES ASSUME IInv, [Next]_vars PROVE IInv'
  OBVIOUS
<1>1. ASSUME NEW h \in Handlers, Requesting(h) PROVE IInv'
  BY <1>1, RequestKeeps, RateKeeps, CountKeeps, FindKeeps, InsertKeeps
     DEF Requesting
<1>2. ASSUME NEW h \in Handlers, Verifying(h) PROVE IInv'
  BY <1>2, VerifyKeeps, ConsumeKeeps, CreateKeeps DEF Verifying
<1>3. ASSUME NEW h \in Handlers, Working(h) PROVE IInv'
  BY <1>3, ResolveKeeps, Ends, RevokeKeeps DEF Working, CommitWork
<1>4. ASSUME NEW h \in Handlers, Fail(h) PROVE IInv'
  BY <1>4, Ends DEF Fail
<1>5. CASE UNCHANGED vars
  <2>1. UNCHANGED <<clock, active, hits, token, login, handler>>
    BY <1>5 DEF vars
  <2> SUFFICES ASSUME NEW h \in Handlers PROVE IInv'
    <3>1. clock \in Nat
      BY Limits DEF IInv, TypeOK
    <3>2. LimitsHold'
      BY <2>1, <3>1, LimitsStay DEF Asking
    <3> QED BY <2>1, <3>2
        DEF IInv, TypeOK, OneConsumer, SlicesHold, Slice, SingleUse,
            TokenFits, LoginFits, Issued, Created
  <2>2. /\ handler \in [Handlers -> Handler] /\ Knows(handler[h])
        /\ handler' = [handler EXCEPT ![h] = handler[h]]
    BY <2>1 DEF IInv, TypeOK
  <2>3. handler[h].stage = "consumed" =>
          \A g \in Handlers: g # h =>
            ~(handler[g].stage = "consumed"
              /\ handler[g].token = handler[h].token)
    BY DEF IInv, OneConsumer
  <2> QED BY <2>1, <2>2, <2>3, Looks
<1> QED BY <1>1, <1>2, <1>3, <1>4, <1>5, StatusKeeps, TickKeeps DEF Next

\* Every reachable state satisfies the inductive invariant.
THEOREM Invariance == Spec => []IInv
BY Initial, Inductive, PTL DEF Spec

\* Type correctness; no expiry lies beyond the clock by more than its term.
THEOREM TypeCorrect == Spec => []TypeOK
<1>1. IInv => TypeOK
  BY DEF IInv
<1> QED BY <1>1, Invariance, PTL

\* A login token opens one session, its own user's and before it expires,
\* however many requests follow the link at once.
THEOREM TokensSingleUse == Spec => []SingleUse
<1>1. IInv => SingleUse
  BY DEF IInv
<1> QED BY <1>1, Invariance, PTL

\* One window issues an address at most EmailLimit tokens, and any stretch as
\* long as a window at most LoginLimit, but for requests that overtake others.
THEOREM IssueStaysLimited == Spec => []IssueLimited
<1>1. IInv => IssueLimited
  <2> SUFFICES ASSUME IInv, NEW u \in Users PROVE
        /\ \A w \in Nat:
             Cardinality({t \in {s \in Tokens: token[s].email = u}:
                            token[t].window = w}) <= EmailLimit
        /\ \A now \in Nat:
             \/ Cardinality({t \in {s \in Tokens: token[s].email = u}:
                      token[t].requested \in now..(now + Window)}) <= LoginLimit
             \/ \E t \in {t \in {s \in Tokens: token[s].email = u}:
                            token[t].requested \in now..(now + Window)}:
                  token[t].overtaken
    <3>1. MaxTime \div Window \in Nat
      BY Limits, Windows
    <3>2. 0..(MaxTime \div Window) \subseteq Nat /\ 0..MaxTime \subseteq Nat
      BY <3>1, Limits
    <3> QED BY <3>2 DEF IssueLimited
  <2>1. ASSUME NEW w \in Nat PROVE Cardinality(SentIn(u, w)) <= EmailLimit
    <3>1. Cardinality(SentIn(u, w)) \in Nat /\ Cardinality(AskingIn(u, w)) \in Nat
      BY SetsTyped, TokenSets, HandlerSets
    <3> QED BY <3>1, Limits DEF IInv, LimitsHold, Through
  <2>2. \A w: {t \in {s \in Tokens: token[s].email = u}: token[t].window = w}
                = SentIn(u, w)
    BY DEF SentIn
  <2>3. \A now: {t \in {s \in Tokens: token[s].email = u}:
                   token[t].requested \in now..(now + Window)} = Slice(u, now)
    BY DEF Slice
  <2>4. \A now \in Nat:
          \/ Cardinality(Slice(u, now)) <= LoginLimit
          \/ \E t \in Slice(u, now): token[t].overtaken
    BY DEF IInv, SlicesHold
  <2> QED BY <2>1, <2>2, <2>3, <2>4
<1> QED BY <1>1, Invariance, PTL

\* Work is committed under a session that holds, unless it was resolved before
\* the session stopped holding.
THEOREM SessionsHonoured == Spec => SessionHonoured
<1> DEFINE Honoured ==
      \A h \in Handlers:
        LET r == handler[h] IN
        r.stage = "resolved" /\ handler'[h] = Idle =>
         \/ r.late
         \/ /\ ~login[r.login].revoked /\ login[r.login].user \in active
            /\ login[r.login].issued <= clock /\ clock < login[r.login].expires
<1>1. IInv => Honoured
  <2> SUFFICES ASSUME IInv, NEW h \in Handlers, NEW r, r = handler[h],
                      r.stage = "resolved", ~r.late
               PROVE  /\ ~login[r.login].revoked /\ login[r.login].user \in active
                      /\ login[r.login].issued <= clock
                      /\ clock < login[r.login].expires
    OBVIOUS
  <2>1. r.login \in Logins /\ Valid(r.login)
    BY DEF IInv, Knows
  <2>2. login[r.login].expires \in Nat /\ clock \in Nat
    BY <2>1, Limits DEF IInv, TypeOK, Login, Times
  <2> QED BY <2>1, <2>2 DEF Valid, IInv, LoginFits
<1> QED BY <1>1, Invariance, PTL DEF Spec, SessionHonoured

-----------------------------------------------------------------------------
(* SignIn implements OneTimeGrant.                                         *)

\* Neither a token nor where a session came from is touched.
LEMMA TokenRest ==
  ASSUME IInv, NEW h \in Handlers,
         \/ \E u \in Users, o \in Origins: RequestLink(h, u, o)
         \/ \E key \in Users \cup Origins: ConsumeRateLimit(h, key)
         \/ CountTokens(h) \/ FindUser(h)
         \/ \E t \in Tokens: Verify(h, t)
         \/ ConsumeLoginToken(h) \/ Working(h) \/ Fail(h)
  PROVE  UNCHANGED token /\ \A l \in Logins: login'[l].by = login[l].by
<1>1. CASE RevokeSession(h)
  <2>1. login' = [login EXCEPT ![handler[h].login].revoked = TRUE]
        /\ UNCHANGED token /\ login \in [Logins -> Login]
    BY <1>1 DEF RevokeSession, IInv, TypeOK
  <2> QED BY <2>1 DEF Login
<1>2. CASE ~RevokeSession(h)
  BY <1>2
     DEF RequestLink, ConsumeRateLimit, CountTokens, FindUser, Verify,
         ConsumeLoginToken, Working, ResolveSession, CommitWork, Fail
<1> QED BY <1>1, <1>2

LEMMA TokensMove ==
  ASSUME IInv, [Next]_vars
  PROVE  [TokenGrants!Next]_TokenGrants!vars
<1> USE DEF TokenGrants!vars
<1> DEFINE Opened(t) == {l \in Logins: login[l].by = t}
           State == [t \in Tokens |-> TokenState(t)]
           Given == [t \in Tokens |-> Opened(t)]
<1>1. ASSUME UNCHANGED token, \A l \in Logins: login'[l].by = login[l].by
      PROVE  State' = State /\ Given' = Given
  <2>1. \A t \in Tokens: TokenState(t)' = TokenState(t)
    BY <1>1 DEF TokenState, Issued
  <2>2. \A t \in Tokens: Opened(t)' = Opened(t)
    BY <1>1
  <2> QED BY <2>1, <2>2
<1>2. ASSUME NEW h \in Handlers, NEW t \in Tokens, InsertToken(h, t)
      PROVE  TokenGrants!Next
  <2>1. /\ ~Issued(t) /\ handler[h].email \in Users /\ UNCHANGED login
        /\ token'[t].email = handler[h].email /\ ~token'[t].consumed
        /\ \A s \in Tokens: s # t => token'[s] = token[s]
    BY <1>2 DEF InsertToken, IInv, TypeOK, Knows, Asking
  <2>2. TokenState(t) = "none" /\ TokenState(t)' = "offered"
    BY <2>1, NoneAssumption DEF IInv, TokenFits, TokenState, Issued
  <2>3. \A s \in Tokens: s # t => TokenState(s)' = TokenState(s)
    BY <2>1 DEF TokenState, Issued
  <2>4. State' = [State EXCEPT ![t] = "offered"]
    <3>1. \A s \in Tokens:
            TokenState(s)' = IF s = t THEN "offered" ELSE TokenState(s)
      BY <2>2, <2>3
    <3> QED BY <3>1
  <2>5. State[t] = "none"
    BY <2>2
  <2>6. Given' = Given
    BY <2>1
  <2>7. TokenGrants!Offer(t)
    BY <2>4, <2>5, <2>6 DEF TokenGrants!Offer, TokenGrants!Moves
  <2> QED BY <2>7 DEF TokenGrants!Next
<1>3. ASSUME NEW h \in Handlers, NEW l \in Logins, CreateSession(h, l)
      PROVE  TokenGrants!Next
  <2>1. /\ handler[h].stage = "consumed" /\ ~Created(l)
        /\ login' = [login EXCEPT ![l] =
             [user |-> token[handler[h].token].email, issued |-> handler[h].at,
              expires |-> Expiry(SessionTtl), revoked |-> FALSE,
              by |-> handler[h].token]]
        /\ token' = [token EXCEPT ![handler[h].token].consumed = TRUE]
        /\ token \in [Tokens -> Token] /\ login \in [Logins -> Login]
    BY <1>3 DEF CreateSession, IInv, TypeOK
  <2>2. PICK t \in Tokens: t = handler[h].token /\ Issued(t) /\ ~token[t].consumed
    BY <2>1 DEF IInv, Knows
  <2>3. /\ token'[t].consumed /\ token'[t].email = token[t].email
        /\ \A s \in Tokens: s # t => token'[s] = token[s]
    BY <2>1, <2>2 DEF Token
  <2>4. /\ login'[l].by = t /\ login[l].by = None
        /\ \A m \in Logins: m # l => login'[m] = login[m]
    BY <2>1, <2>2 DEF IInv, LoginFits
  <2>5. State' = [State EXCEPT ![t] = "taken"]
    <3>1. \A s \in Tokens: s # t => TokenState(s)' = TokenState(s)
      BY <2>3 DEF TokenState, Issued
    <3>2. TokenState(t)' = "taken"
      BY <2>3 DEF TokenState
    <3>3. \A s \in Tokens:
            TokenState(s)' = IF s = t THEN "taken" ELSE TokenState(s)
      BY <3>1, <3>2
    <3> QED BY <3>3
  <2>6. State[t] = "offered"
    BY <2>2 DEF TokenState
  <2>7. Given' = [Given EXCEPT ![t] = {l}]
    <3>1. \A m \in Logins: login[m].by # t
      BY <2>2 DEF IInv, SingleUse
    <3>2. Opened(t)' = {l}
      BY <2>4, <3>1
    <3>3. \A s \in Tokens: s # t => Opened(s)' = Opened(s)
      BY <2>4, NoneAssumption
    <3>4. \A s \in Tokens: Opened(s)' = IF s = t THEN {l} ELSE Opened(s)
      BY <3>2, <3>3
    <3> HIDE DEF Opened
    <3> QED BY <3>4
  <2>8. TokenGrants!Take(t, l)
    BY <2>5, <2>6, <2>7 DEF TokenGrants!Take, TokenGrants!Moves
  <2> QED BY <2>8 DEF TokenGrants!Next
<1>4. ASSUME NEW h \in Handlers,
             Requesting(h) \/ Verifying(h) \/ Working(h) \/ Fail(h)
      PROVE  [TokenGrants!Next]_TokenGrants!vars
  BY <1>1, <1>2, <1>3, <1>4, TokenRest DEF Requesting, Verifying
<1>5. CASE UNCHANGED vars \/ Tick \/ \E u \in Users: SetUserStatus(u)
  <2>1. UNCHANGED <<token, login>>
    BY <1>5 DEF vars, Tick, SetUserStatus
  <2> QED BY <1>1, <2>1
<1> QED BY <1>4, <1>5 DEF Next

\* A login token is a one-time grant: issued once, and taken once, for one
\* session, however many requests follow the link and whatever fails.
THEOREM TokensAreGrants == Spec => TokenPromise
<1>1. Init => TokenGrants!Init
  <2> SUFFICES ASSUME Init PROVE TokenGrants!Init
    OBVIOUS
  <2>1. \A t \in Tokens: TokenState(t) = "none"
    BY DEF Init, TokenState, Issued, NoToken
  <2>2. \A t \in Tokens: {l \in Logins: login[l].by = t} = {}
    BY NoneAssumption DEF Init, NoLogin
  <2> QED BY <2>1, <2>2 DEF TokenGrants!Init
<1>2. IInv /\ [Next]_vars => [TokenGrants!Next]_TokenGrants!vars
  BY TokensMove
<1> QED
  BY <1>1, <1>2, Invariance, PTL DEF Spec, TokenPromise, TokenGrants!Spec

-----------------------------------------------------------------------------
(* How far requests that overtake each other get.                          *)

\* The requests that have counted and have not inserted.
Counted(r) == r.stage \in {"counted", "found"}

Due(u) == {h \in Handlers: Counted(handler[h]) /\ handler[h].email = u}

Bound == LoginLimit + Cardinality(Handlers)

\* As long as time is in the slice, those that have counted were all let
\* through by a count below the limit: one of them at least was, and what was
\* inserted since then was inserted by others that had counted.
Overshoot(u, now) ==
  /\ Cardinality(Slice(u, now)) < Bound
  /\ clock <= now + Window =>
       \/ Cardinality(Slice(u, now)) < LoginLimit
       \/ Cardinality(Slice(u, now)) + Cardinality(Due(u)) < Bound

SlicesBounded == \A u \in Users, now \in Nat: Overshoot(u, now)

LEMMA SliceSets ==
  /\ Cardinality(Handlers) \in Nat /\ Bound \in Nat /\ LoginLimit <= Bound
  /\ \A u, now: /\ Slice(u, now) \in SUBSET Tokens
                /\ Due(u) \in SUBSET Handlers
                /\ Cardinality(Slice(u, now)) \in Nat
                /\ Cardinality(Due(u)) \in Nat
<1>1. \A u, now: Slice(u, now) \in SUBSET Tokens /\ Due(u) \in SUBSET Handlers
  BY DEF Slice, Due
<1>2. Cardinality(Handlers) \in Nat
  BY HandlerSets
<1> QED BY <1>1, <1>2, TokenSets, HandlerSets, Limits DEF Bound

\* A step that issues nothing and after which no more requests have counted,
\* unless the count has just found fewer than the limit.
LEMMA OvershootStays ==
  ASSUME SlicesBounded, clock \in Nat, clock' \in Nat, clock <= clock',
         \A t \in Tokens: /\ token'[t].email = token[t].email
                          /\ token'[t].requested = token[t].requested,
         NEW u \in Users,
         \/ Due(u)' \subseteq Due(u)
         \/ \A now \in Nat: clock' <= now + Window =>
              Cardinality(Slice(u, now)) < LoginLimit,
         NEW now \in Nat
  PROVE  Overshoot(u, now)'
<1>1. Slice(u, now)' = Slice(u, now)
  BY DEF Slice
<1>2. Overshoot(u, now)
  BY DEF SlicesBounded
<1>3. Due(u)' \in SUBSET Handlers
  BY DEF Due
<1>4. Cardinality(Due(u)') \in Nat
      /\ (Due(u)' \subseteq Due(u) =>
            Cardinality(Due(u)') <= Cardinality(Due(u)))
  BY <1>3, SliceSets, HandlerSets, FewerHandlers
<1>5. Bound' = Bound
  BY DEF Bound
<1>6. clock' <= now + Window => clock <= now + Window
  BY Limits
<1> QED BY <1>1, <1>2, <1>4, <1>5, <1>6, SliceSets, Limits DEF Overshoot

\* The tokens of a slice that time is in are among those counted.
LEMMA CountedSlice ==
  ASSUME IInv, NEW u \in Users, NEW now \in Nat, clock <= now + Window
  PROVE  Slice(u, now) \subseteq Sent(u, clock - Window)
<1>1. \A t \in Tokens: token[t].requested \in Nat
  BY Limits DEF IInv, TypeOK, Token, Times
<1>2. clock \in Nat
  BY Limits DEF IInv, TypeOK
<1> QED BY <1>1, <1>2, Limits DEF Slice, Sent

LEMMA CountOvershoot ==
  ASSUME IInv, SlicesBounded, NEW h \in Handlers, CountTokens(h)
  PROVE  SlicesBounded'
<1>1. /\ handler[h].stage = "allowed" /\ handler[h].email \in Users
      /\ UNCHANGED <<clock, token>> /\ clock \in Nat
      /\ handler[h] \in Handler
      /\ \A g \in Handlers \ {h}: handler'[g] = handler[g]
  BY Limits DEF CountTokens, IInv, TypeOK, Knows, Asking
<1> SUFFICES ASSUME NEW u \in Users, NEW now \in Nat PROVE Overshoot(u, now)'
  BY DEF SlicesBounded
<1>2. CASE Cardinality(Recent(handler[h].email, handler[h].origin)) >= LoginLimit
  <2>1. handler'[h] = Idle
    BY <1>2 DEF CountTokens, IInv, TypeOK
  <2>2. Due(u)' \subseteq Due(u)
    BY <1>1, <2>1, IdleIs DEF Due, Counted
  <2> QED BY <1>1, <2>2, OvershootStays
<1>3. CASE ~(Cardinality(Recent(handler[h].email, handler[h].origin))
               >= LoginLimit)
  <2>1. PICK r: r = [handler[h] EXCEPT !.stage = "counted"]
    OBVIOUS
  <2>2. handler'[h] = r /\ r.email = handler[h].email
    BY <1>1, <1>3, <2>1 DEF CountTokens, IInv, TypeOK, Handler
  <2>3. CASE u # handler[h].email
    <3>1. Due(u)' \subseteq Due(u)
      BY <1>1, <2>2, <2>3 DEF Due
    <3> QED BY <1>1, <3>1, OvershootStays
  <2>4. CASE u = handler[h].email
    <3>1. ASSUME NEW n \in Nat, clock' <= n + Window
          PROVE  Cardinality(Slice(u, n)) < LoginLimit
      <4>1. Slice(u, n) \subseteq Sent(u, clock - Window)
        BY <1>1, <3>1, CountedSlice
      <4>2. /\ Sent(u, clock - Window) \subseteq
                 Recent(handler[h].email, handler[h].origin)
            /\ Recent(handler[h].email, handler[h].origin) \subseteq Tokens
        BY <2>4, NoneAssumption DEF Sent, Recent, Issued
      <4>3. /\ Cardinality(Slice(u, n)) <=
                 Cardinality(Recent(handler[h].email, handler[h].origin))
            /\ Cardinality(Recent(handler[h].email, handler[h].origin)) \in Nat
        BY <4>1, <4>2, Smaller, TokenSets
      <4> QED BY <1>3, <4>3, SliceSets, Limits
    <3> QED BY <1>1, <3>1, OvershootStays
  <2> QED BY <2>3, <2>4
<1> QED BY <1>2, <1>3

LEMMA InsertOvershoot ==
  ASSUME IInv, SlicesBounded, NEW h \in Handlers, NEW t \in Tokens,
         InsertToken(h, t)
  PROVE  SlicesBounded'
<1>1. /\ handler[h].stage = "found" /\ handler[h].email \in Users
      /\ ~Issued(t) /\ UNCHANGED clock /\ clock \in Nat /\ handler'[h] = Idle
      /\ token'[t].email = handler[h].email /\ token'[t].requested = clock
      /\ \A s \in Tokens: s # t => token'[s] = token[s]
  BY Limits DEF InsertToken, IInv, TypeOK, Knows, Asking
<1>2. \A g \in Handlers \ {h}: /\ handler'[g].stage = handler[g].stage
                               /\ handler'[g].email = handler[g].email
  BY InsertMarks
<1> SUFFICES ASSUME NEW u \in Users, NEW now \in Nat PROVE Overshoot(u, now)'
  BY DEF SlicesBounded
<1>3. Overshoot(u, now) /\ Bound' = Bound
  BY DEF SlicesBounded, Bound
<1>4. Due(u)' \subseteq Due(u) /\ h \notin Due(u)'
  BY <1>1, <1>2, IdleIs DEF Due, Counted
<1>5. Cardinality(Due(u)') \in Nat
      /\ Cardinality(Due(u)') <= Cardinality(Due(u))
  BY <1>4, SliceSets, FewerHandlers
<1>6. t \notin Slice(u, now)
  BY <1>1, NoneAssumption DEF Slice, Issued
<1>7. CASE t \notin Slice(u, now)'
  <2>1. Slice(u, now)' = Slice(u, now)
    BY <1>1, <1>6, <1>7 DEF Slice
  <2> QED BY <1>1, <1>3, <1>5, <2>1, SliceSets, Limits DEF Overshoot
<1>8. CASE t \in Slice(u, now)'
  <2>1. u = handler[h].email /\ clock <= now + Window
    BY <1>1, <1>8, Limits DEF Slice
  <2>2. Slice(u, now)' = Slice(u, now) \cup {t}
    BY <1>1, <1>8 DEF Slice
  <2>3. Cardinality(Slice(u, now)') = Cardinality(Slice(u, now)) + 1
    BY <1>6, <2>2, SliceSets, TokenSets, FS_AddElement
  <2>4. h \in Due(u)
    BY <1>1, <2>1 DEF Due, Counted
  <2>5. /\ Cardinality(Due(u)') + 1 <= Cardinality(Due(u))
        /\ Cardinality(Due(u)) <= Cardinality(Handlers)
    <3>1. /\ Due(u)' \subseteq Due(u) \ {h} /\ IsFiniteSet(Due(u))
          /\ Due(u) \ {h} \in SUBSET Handlers
      BY <1>4, SliceSets, HandlerSets
    <3>2. Cardinality(Due(u) \ {h}) = Cardinality(Due(u)) - 1
      BY <2>4, <3>1, FS_RemoveElement
    <3>3. Cardinality(Due(u)') <= Cardinality(Due(u) \ {h})
      BY <3>1, FewerHandlers
    <3>4. Cardinality(Due(u)) <= Cardinality(Handlers)
      BY SliceSets, FewerHandlers
    <3>5. Cardinality(Due(u)) \in Nat
      BY SliceSets
    <3> QED BY <1>5, <3>2, <3>3, <3>4, <3>5
  <2> QED BY <1>1, <1>3, <1>5, <2>1, <2>3, <2>5, SliceSets, Limits
          DEF Overshoot, Bound
<1> QED BY <1>7, <1>8

\* The other steps issue nothing, and no other request has counted after them.
LEMMA RestOvershoot ==
  ASSUME IInv, SlicesBounded, clock' \in Nat, clock <= clock',
         \A t \in Tokens: /\ token'[t].email = token[t].email
                          /\ token'[t].requested = token[t].requested,
         \A g \in Handlers: Counted(handler'[g]) =>
           Counted(handler[g]) /\ handler'[g].email = handler[g].email
  PROVE  SlicesBounded'
<1>1. clock \in Nat
  BY Limits DEF IInv, TypeOK
<1>2. \A u \in Users: Due(u)' \subseteq Due(u)
  BY DEF Due
<1> QED BY <1>1, <1>2, OvershootStays DEF SlicesBounded

LEMMA OvershootStep ==
  ASSUME IInv, SlicesBounded, [Next]_vars
  PROVE  SlicesBounded'
<1>1. clock \in Nat /\ handler \in [Handlers -> Handler]
      /\ token \in [Tokens -> Token]
  BY Limits DEF IInv, TypeOK
<1>2. ASSUME NEW h \in Handlers,
             \/ \E u \in Users, o \in Origins: RequestLink(h, u, o)
             \/ \E key \in Users \cup Origins: ConsumeRateLimit(h, key)
             \/ FindUser(h)
             \/ \E t \in Tokens: Verify(h, t)
             \/ ConsumeLoginToken(h) \/ Fail(h)
             \/ \E l \in Logins: ResolveSession(h, l)
             \/ CommitWork(h)
      PROVE  SlicesBounded'
  <2>1. UNCHANGED <<clock, token>>
    BY <1>2 DEF RequestLink, ConsumeRateLimit, FindUser, Verify,
                ConsumeLoginToken, Fail, ResolveSession, CommitWork
  <2>2. \A g \in Handlers \ {h}: handler'[g] = handler[g]
    BY <1>1, <1>2 DEF RequestLink, ConsumeRateLimit, FindUser, Verify,
                      ConsumeLoginToken, Fail, ResolveSession, CommitWork
  <2>3. Counted(handler'[h]) =>
          Counted(handler[h]) /\ handler'[h].email = handler[h].email
    <3>1. CASE FindUser(h)
      BY <1>1, <3>1 DEF FindUser, Handler, Counted, Idle
    <3>2. CASE \E u \in Users, o \in Origins: RequestLink(h, u, o)
      <4>1. handler'[h].stage = "asked"
        BY <1>1, <3>2 DEF RequestLink, Idle
      <4> QED BY <4>1 DEF Counted
    <3>3. CASE ConsumeLoginToken(h)
      <4>1. handler'[h].stage = "consumed"
        BY <1>1, <3>3 DEF ConsumeLoginToken, Handler
      <4> QED BY <4>1 DEF Counted
    <3>4. CASE \/ \E t \in Tokens: Verify(h, t)
               \/ \E l \in Logins: ResolveSession(h, l)
      <4>1. handler'[h].stage \in {"begun", "resolved"}
        BY <1>1, <3>4 DEF Verify, ResolveSession, Idle
      <4> QED BY <4>1 DEF Counted
    <3>5. CASE CommitWork(h) \/ Fail(h)
      <4>1. handler'[h].stage = "idle"
        BY <1>1, <3>5 DEF CommitWork, Fail, Idle
      <4> QED BY <4>1 DEF Counted
    <3>6. CASE \E key \in Users \cup Origins: ConsumeRateLimit(h, key)
      <4>1. PICK r \in Handler: /\ handler' = [handler EXCEPT ![h] = r]
                                /\ r.stage \in {"asked", "allowed", "idle"}
        BY <3>6, RateIs
      <4>2. handler'[h].stage \in {"asked", "allowed", "idle"}
        BY <1>1, <4>1
      <4> QED BY <4>2 DEF Counted
    <3> QED BY <1>2, <3>1, <3>2, <3>3, <3>4, <3>5, <3>6
  <2> QED BY <1>1, <2>1, <2>2, <2>3, RestOvershoot
<1>3. ASSUME NEW h \in Handlers, NEW l \in Logins, CreateSession(h, l)
      PROVE  SlicesBounded'
  <2>1. /\ UNCHANGED clock /\ handler' = [handler EXCEPT ![h] = Idle]
        /\ token' = [token EXCEPT ![handler[h].token].consumed = TRUE]
    BY <1>3 DEF CreateSession
  <2>2. \A t \in Tokens: /\ token'[t].email = token[t].email
                         /\ token'[t].requested = token[t].requested
    BY <1>1, <2>1 DEF Token
  <2>3. \A g \in Handlers: Counted(handler'[g]) =>
          Counted(handler[g]) /\ handler'[g].email = handler[g].email
    BY <1>1, <2>1 DEF Counted, Idle
  <2> QED BY <1>1, <2>1, <2>2, <2>3, RestOvershoot
<1>4. ASSUME NEW h \in Handlers, RevokeSession(h)
      PROVE  SlicesBounded'
  <2>1. UNCHANGED <<clock, token>>
    BY <1>4 DEF RevokeSession
  <2>2. PICK l: /\ l = handler[h].login
                /\ handler' = [Overtaken({l}) EXCEPT ![h] = Idle]
    BY <1>4 DEF RevokeSession
  <2>3. \A g \in Handlers: Counted(handler'[g]) =>
          Counted(handler[g]) /\ handler'[g].email = handler[g].email
    BY <1>1, <2>2, OvertakenIs DEF Counted, Idle
  <2> QED BY <1>1, <2>1, <2>3, RestOvershoot
<1>5. CASE Tick \/ \E u \in Users: SetUserStatus(u)
  <2>1. \E S: handler' = Overtaken(S) \/ handler' = handler
    BY <1>5 DEF Tick, SetUserStatus
  <2>2. \A g \in Handlers: Counted(handler'[g]) =>
          Counted(handler[g]) /\ handler'[g].email = handler[g].email
    BY <1>1, <2>1, OvertakenIs DEF Counted
  <2>3. UNCHANGED token /\ clock' \in {clock, clock + 1}
    BY <1>5 DEF Tick, SetUserStatus
  <2> QED BY <1>1, <2>2, <2>3, RestOvershoot
<1>6. CASE UNCHANGED vars
  BY <1>1, <1>6, RestOvershoot DEF vars
<1> QED BY <1>2, <1>3, <1>4, <1>5, <1>6, CountOvershoot, InsertOvershoot
        DEF Next, Requesting, Verifying, Working

\* However many requests for a link overtake each other between their count
\* and their insert, an address is sent fewer than LoginLimit plus the number
\* of requests in progress within any stretch of a window's length.
THEOREM OvershootIsBounded == Spec => []OvershootBounded
<1>1. Init => SlicesBounded
  <2> SUFFICES ASSUME Init, NEW u \in Users, NEW now \in Nat
               PROVE  Overshoot(u, now)
    BY DEF SlicesBounded
  <2>1. Slice(u, now) = {}
    BY NoneAssumption DEF Init, Slice, NoToken
  <2> QED BY <2>1, FS_EmptySet, SliceSets, Limits DEF Overshoot
<1>2. IInv /\ SlicesBounded /\ [Next]_vars => SlicesBounded'
  BY OvershootStep
<1>3. SlicesBounded => OvershootBounded
  <2>1. 0..MaxTime \subseteq Nat
    BY Limits
  <2> QED BY <2>1 DEF SlicesBounded, Overshoot, OvershootBounded, Slice, Bound
<1> QED BY <1>1, <1>2, <1>3, Invariance, PTL DEF Spec

=============================================================================
