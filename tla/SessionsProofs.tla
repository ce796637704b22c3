---------------------------- MODULE SessionsProofs ----------------------------
(***************************************************************************)
(* Theorems about Sessions, for every set of sessions and handlers, every  *)
(* grace and every bound.                                                  *)
(***************************************************************************)
EXTENDS Sessions, SequenceTheorems, TLAPS

LEMMA CallTypes ==
  /\ {Idle, CreateSession, RevokeAll} \subseteq Calls
  /\ \A s \in SessionIds : EndSession(s) \in Calls
  /\ \A s \in SessionIds, n \in Versions :
       {ReadUser(s, n), Swap(s, n), ReadLatest(s, n), LookupUsed(s, n), RevokeFamily(s, n)}
         \subseteq Calls
BY DEF Calls, EndSession, ReadUser, Swap, ReadLatest, LookupUsed, RevokeFamily, RefreshCalls

LEMMA CallFields ==
  ASSUME NEW c \in Calls
  PROVE  /\ c.call \in RefreshCalls => c.session \in SessionIds /\ c.token \in Versions
         /\ c.call = "end" => c.session \in SessionIds
BY DEF Calls, RefreshCalls, Idle, CreateSession, RevokeAll

LEMMA VersionsAreNumbers == Versions \subseteq Nat \ {0} /\ MaxVersion \in Nat /\ Grace \in Nat
BY SessionsAssumption DEF Versions

LEMMA InitIInv == Init => IInv
<1>. SUFFICES ASSUME Init PROVE IInv
  OBVIOUS
<1>1. TypeOK
  <2>1. exchanged \in [SessionIds -> [Versions -> Seq(Nat)]]
    BY DEF Init
  <2>2. work \in [Handlers -> Calls]
    BY CallTypes DEF Init
  <2>. QED
    BY <2>1, <2>2, VersionsAreNumbers DEF Init, TypeOK, Blocking
<1>2. ExchangedOnce /\ TradeInv
  BY VersionsAreNumbers DEF Init, ExchangedOnce, TradeInv
<1>3. WorkInv
  BY DEF Init, WorkInv, CallInv, Idle, RefreshCalls
<1>. QED
  BY <1>1, <1>2, <1>3
  DEF Init, IInv, ReuseRevokes, ReuseExists, RetryInGrace, BlockHolds, BlockInv

----------------------------------------------------------------------------
(* Types *)

LEMMA StepTypeOK == TypeOK /\ [Next]_vars => TypeOK'
<1>. SUFFICES ASSUME TypeOK, [Next]_vars PROVE TypeOK'
  OBVIOUS
<1>. USE VersionsAreNumbers
<1>0. ASSUME NEW h \in Handlers, NEW c \in Calls, Then(h, c) PROVE work' \in [Handlers -> Calls]
  BY <1>0 DEF TypeOK, Then
<1>1. ASSUME NEW h \in Handlers, NEW c \in Calls, Then(h, c),
             UNCHANGED <<user, sessions, history, now>>
      PROVE  TypeOK'
  BY <1>0, <1>1 DEF TypeOK, sessions, history
<1>2. ASSUME NEW S \in SUBSET SessionIds, Revoke(S)
      PROVE  /\ state' \in [SessionIds -> {"ABSENT", "LIVE", "REVOKED", "DELETED"}]
             /\ \A s \in SessionIds : state'[s] = "ABSENT" <=> state[s] = "ABSENT"
  BY <1>2 DEF Revoke, Live, TypeOK
<1>3. ASSUME NEW h \in Handlers, Handle(h) PROVE TypeOK'
  <2>0. work[h] \in Calls
    BY DEF TypeOK
  <2>1. CASE LoginBegin(h) \/ RefreshUser(h) \/ Abort(h)
    BY <1>1, <2>0, <2>1, CallTypes, CallFields DEF LoginBegin, RefreshUser, Abort, At, RefreshCalls
  <2>2. CASE LoginCreate(h)
    <3>1. work' \in [Handlers -> Calls]
      BY <1>0, <2>2, CallTypes DEF LoginCreate
    <3>. QED
      BY <2>2, <3>1, SessionsAssumption DEF LoginCreate, TypeOK, FirstToken, history
  <2>3. ASSUME NEW s \in SessionIds, NEW n \in Versions, RefreshRead(h, s, n) PROVE TypeOK'
    BY <1>1, <2>3, CallTypes DEF RefreshRead, AfterMismatch
  <2>4. CASE RefreshLookup(h)
    BY <1>1, <2>0, <2>4, CallTypes, CallFields DEF RefreshLookup, At, RefreshCalls
  <2>5. CASE RefreshSwap(h)
    <3>. DEFINE s == work[h].session
                n == work[h].token
    <3>0. s \in SessionIds /\ n \in Versions
      BY <2>0, <2>5, CallFields DEF RefreshSwap, At, RefreshCalls
    <3>1. CASE Rotatable(s, n)
      <4>1. work' \in [Handlers -> Calls]
        BY <1>0, <2>5, <3>1, CallTypes DEF RefreshSwap
      <4>2. exchanged' \in [SessionIds -> [Versions -> Seq(Nat)]]
        <5>1. exchanged[s] \in [Versions -> Seq(Nat)] /\ now \in Nat
          BY <3>0 DEF TypeOK
        <5>2. [exchanged[s] EXCEPT ![n] = Append(exchanged[s][n], now)] \in [Versions -> Seq(Nat)]
          BY <3>0, <5>1, AppendProperties
        <5>3. exchanged' = [exchanged EXCEPT ![s] =
                              [exchanged[s] EXCEPT ![n] = Append(exchanged[s][n], now)]]
          BY <2>5, <3>1 DEF RefreshSwap
        <5>. QED
          BY <3>0, <5>2, <5>3 DEF TypeOK
      <4>3. version' \in [SessionIds -> 0..MaxVersion] /\ version' = [version EXCEPT ![s] = @ + 1]
        BY <2>5, <3>0, <3>1 DEF RefreshSwap, TypeOK
      <4>4. \A r \in SessionIds : state'[r] = "ABSENT" <=> version'[r] = 0
        BY <2>5, <3>0, <3>1, <4>3 DEF RefreshSwap, TypeOK, Rotatable
      <4>. QED
        BY <2>5, <3>0, <3>1, <4>1, <4>2, <4>3, <4>4 DEF RefreshSwap, TypeOK
    <3>2. CASE ~Rotatable(s, n)
      BY <1>1, <2>5, <3>0, <3>2, CallTypes DEF RefreshSwap, sessions, history
    <3>. QED
      BY <3>1, <3>2
  <2>6. CASE RefreshLatest(h)
    BY <1>1, <2>0, <2>6, CallTypes, CallFields DEF RefreshLatest, At, RefreshCalls
  <2>7. CASE RefreshRevoke(h)
    <3>. DEFINE s == work[h].session
    <3>0. s \in SessionIds /\ work[h].token \in Versions
      BY <2>0, <2>7, CallFields DEF RefreshRevoke, At, RefreshCalls
    <3>1. work' \in [Handlers -> Calls]
      BY <1>0, <2>7, CallTypes DEF RefreshRevoke
    <3>2. Revoke({s})
      BY <2>7 DEF RefreshRevoke, Family
    <3>. QED
      BY <1>2, <2>7, <3>0, <3>1, <3>2 DEF RefreshRevoke, TypeOK
  <2>8. ASSUME NEW s \in SessionIds, EndBegin(h, s) PROVE TypeOK'
    BY <1>1, <2>8, CallTypes DEF EndBegin
  <2>9. CASE EndRevoke(h)
    <3>1. work' \in [Handlers -> Calls] /\ work[h].session \in SessionIds
      BY <1>0, <2>0, <2>9, CallTypes, CallFields DEF EndRevoke, At
    <3>. QED
      BY <1>2, <2>9, <3>1 DEF EndRevoke, TypeOK, history
  <2>10. CASE LogoutAll(h)
    BY <1>2, <2>10 DEF LogoutAll, TypeOK, history
  <2>11. ASSUME NEW to \in {"ACTIVE", "BLOCKED"}, StatusUpdate(h, to) PROVE TypeOK'
    <3>1. work' \in [Handlers -> Calls]
      BY <1>0, <2>11, CallTypes DEF StatusUpdate, AfterStatus
    <3>. QED
      BY <2>11, <3>1 DEF StatusUpdate, TypeOK, sessions, Blocking
  <2>12. CASE StatusRevoke(h)
    <3>1. work' \in [Handlers -> Calls]
      BY <1>0, <2>12, CallTypes DEF StatusRevoke
    <3>. QED
      BY <1>2, <2>12, <3>1 DEF StatusRevoke, TypeOK, Blocking
  <2>. QED
    BY <1>3, <2>1, <2>2, <2>3, <2>4, <2>5, <2>6, <2>7, <2>8, <2>9, <2>10, <2>11, <2>12 DEF Handle
<1>4. CASE Tick
  BY <1>4 DEF Tick, TypeOK, sessions, history
<1>5. ASSUME NEW s \in SessionIds, Expires(s) \/ CleanUp(s) PROVE TypeOK'
  BY <1>5 DEF Expires, CleanUp, TypeOK, history
<1>6. CASE UNCHANGED vars
  BY <1>6 DEF TypeOK, vars, sessions, history
<1>. QED
  BY <1>3, <1>4, <1>5, <1>6 DEF Next
----------------------------------------------------------------------------
(* The invariant *)

SessionInv == ExchangedOnce /\ ReuseRevokes /\ ReuseExists /\ RetryInGrace /\ TradeInv

(* A step that trades no token and makes no session usable.                *)
Ages ==
  /\ version' = version
  /\ exchanged' = exchanged
  /\ rotatedAt' = rotatedAt
  /\ now' \in {now, now + 1}
  /\ \A s \in SessionIds : /\ state'[s] = "ABSENT" <=> state[s] = "ABSENT"
                           /\ state'[s] = "LIVE" => state[s] = "LIVE"

(* The time of a trade is a number.                                        *)
LEMMA TradeTime ==
  ASSUME TypeOK, NEW s \in SessionIds, NEW n \in Versions, Traded(s, n)
  PROVE  exchanged[s][n][1] \in Nat
<1>1. exchanged[s][n] \in Seq(Nat) /\ exchanged[s][n] # <<>>
  BY DEF TypeOK, Traded
<1>. QED
  BY <1>1

LEMMA AgesKeepsCall ==
  ASSUME TypeOK, Ages, NEW c \in Calls, CallInv(c)
  PROVE  CallInv(c)'
<1>. USE VersionsAreNumbers
<1>0. c.call \in RefreshCalls => c.session \in SessionIds /\ c.token \in Versions
  BY CallFields
<1>1. ASSUME c.call = "revokeFamily", PastGrace(c.session, c.token, now)
      PROVE  PastGrace(c.session, c.token, now)'
  <2>1. c.session \in SessionIds /\ c.token \in Versions
    BY <1>0, <1>1 DEF RefreshCalls
  <2>2. Traded(c.session, c.token) => exchanged[c.session][c.token][1] \in Nat
    BY <2>1, TradeTime
  <2>3. now \in Nat /\ now' \in Nat /\ now <= now'
    BY DEF TypeOK, Ages
  <2>. QED
    BY <1>1, <2>2, <2>3 DEF Ages, PastGrace, Traded
<1>2. c.call \in {"readLatest", "revokeFamily", "lookupUsed"} => c.call \in RefreshCalls
  BY DEF RefreshCalls
<1>. QED
  BY <1>0, <1>1, <1>2 DEF CallInv, Ages, Untradable

LEMMA AgesKeepsSessions ==
  ASSUME TypeOK, SessionInv, Ages, reuse' = reuse
  PROVE  SessionInv'
<1>1. \A r \in reuse : r.session \in SessionIds
  BY DEF TypeOK
<1>. QED
  BY <1>1 DEF SessionInv, Ages, ExchangedOnce, ReuseRevokes, ReuseExists, RetryInGrace,
              PastGrace, Traded, TradeInv

LEMMA RevokeAges ==
  ASSUME TypeOK, NEW S, Revoke(S),
         UNCHANGED <<version, rotatedAt, expired, exchanged, now>>
  PROVE  Ages
BY DEF TypeOK, Revoke, Live, Ages

(* A handler takes a step after which it remembers c.                      *)
LEMMA HandlerKeepsWork ==
  ASSUME TypeOK, WorkInv, Ages,
         NEW h \in Handlers, NEW c \in Calls, Then(h, c), CallInv(c)
  PROVE  WorkInv'
<1>1. \A g \in Handlers : work[g] \in Calls /\ work'[g] = IF g = h THEN c ELSE work[g]
  BY DEF TypeOK, Then
<1>2. \A d \in Calls : CallInv(d) => CallInv(d)'
  BY AgesKeepsCall
<1>3. ASSUME NEW g \in Handlers PROVE CallInv(work[g])'
  <2>1. CASE g = h
    <3>1. CallInv(c)'
      BY <1>2
    <3>. QED
      BY <1>1, <2>1, <3>1 DEF CallInv, Untradable, PastGrace, Traded
  <2>2. CASE g # h
    <3>1. CallInv(work[g])
      BY DEF WorkInv
    <3>2. work'[g] = work[g]
      BY <1>1, <2>2
    <3>3. \A d \in Calls : d = work[g] => CallInv(d)'
      BY <1>2, <3>1
    <3>. QED
      BY <1>1, <3>2, <3>3 DEF CallInv, Untradable, PastGrace, Traded
  <2>. QED
    BY <2>1, <2>2
<1>. QED
  BY <1>3 DEF WorkInv

LEMMA IdleCall == Idle \in Calls /\ CallInv(Idle)
BY CallTypes DEF CallInv, Idle, RefreshCalls

(* A step that ages the sessions, with the user and the block as they were *)
(* and no new login.                                                       *)
LEMMA AgesKeepsIInv ==
  ASSUME IInv, TypeOK', Ages, reuse' = reuse, user' = user, block' = block, WorkInv',
         block = "sealed" => \A g \in Handlers : work'[g].call # "create"
  PROVE  IInv'
<1>1. SessionInv'
  BY AgesKeepsSessions DEF IInv, SessionInv
<1>2. BlockInv'
  BY DEF IInv, BlockInv, At
<1>3. BlockHolds'
  BY DEF IInv, BlockHolds, Ages, Live
<1>. QED
  BY <1>1, <1>2, <1>3 DEF IInv, SessionInv

LEMMA Remembers ==
  ASSUME IInv, TypeOK', NEW h \in Handlers, NEW c \in Calls, Then(h, c), CallInv(c),
         UNCHANGED <<user, sessions, history, now>>,
         c.call = "create" => user = "ACTIVE"
  PROVE  IInv'
<1>1. Ages
  BY DEF Ages, sessions, history
<1>2. WorkInv'
  BY <1>1, HandlerKeepsWork DEF IInv
<1>3. block = "sealed" => \A g \in Handlers : work'[g].call # "create"
  BY DEF IInv, TypeOK, BlockInv, At, Then
<1>. QED
  BY <1>1, <1>2, <1>3, AgesKeepsIInv DEF history

(* LoginCreate: the new session has no history, no refresh knows it, and   *)
(* the block is not sealed.                                                *)
LEMMA StepLoginCreate ==
  ASSUME IInv, TypeOK', NEW h \in Handlers, LoginCreate(h)
  PROVE  IInv'
<1>. USE VersionsAreNumbers
<1>1. PICK s \in SessionIds : /\ state[s] = "ABSENT"
                              /\ state' = [state EXCEPT ![s] = "LIVE"]
                              /\ version' = [version EXCEPT ![s] = 1]
  BY DEF LoginCreate, FirstToken
<1>2. version[s] = 0 /\ version'[s] = 1 /\ state'[s] = "LIVE"
  BY <1>1 DEF IInv, TypeOK
<1>3. \A r \in SessionIds \ {s} : version'[r] = version[r] /\ state'[r] = state[r]
  BY <1>1 DEF IInv, TypeOK
<1>4. UNCHANGED <<user, rotatedAt, expired, exchanged, reuse, block, now>>
  BY DEF LoginCreate, history
<1>5. \A n \in Versions : exchanged[s][n] = <<>>
  BY <1>2 DEF IInv, ExchangedOnce
<1>6. ExchangedOnce'
  BY <1>2, <1>3, <1>4, <1>5 DEF IInv, ExchangedOnce
<1>7. ReuseRevokes' /\ ReuseExists'
  BY <1>1, <1>3, <1>4 DEF IInv, TypeOK, ReuseRevokes, ReuseExists
<1>8. RetryInGrace'
  BY <1>4 DEF IInv, RetryInGrace, PastGrace, Traded
<1>9. BlockInv' /\ BlockHolds'
  <2>1. block # "sealed"
    BY DEF IInv, BlockInv, LoginCreate
  <2>. QED
    BY <1>4, <2>1 DEF IInv, BlockInv, BlockHolds
<1>10. TradeInv'
  BY <1>2, <1>3, <1>4 DEF IInv, TradeInv
<1>11. ASSUME NEW c \in Calls, CallInv(c) PROVE CallInv(c)'
  <2>1. c.call \in RefreshCalls => c.session \in SessionIds \ {s} /\ c.token \in Versions
    BY <1>1, <1>11, CallFields DEF CallInv
  <2>2. c.call \in {"readLatest", "revokeFamily", "lookupUsed"} => c.call \in RefreshCalls
    BY DEF RefreshCalls
  <2>. QED
    BY <1>3, <1>4, <1>11, <2>1, <2>2 DEF CallInv, Untradable, PastGrace, Traded
<1>12. WorkInv'
  <2>1. \A g \in Handlers : work[g] \in Calls /\ work'[g] \in {work[g], Idle}
    BY DEF IInv, TypeOK, LoginCreate, Then
  <2>2. \A c \in Calls : CallInv(c) => CallInv(c)'
    BY <1>11
  <2>3. ASSUME NEW g \in Handlers PROVE CallInv(work[g])'
    <3>1. PICK c \in Calls : c = work'[g] /\ CallInv(c)
      BY <2>1, IdleCall DEF IInv, WorkInv
    <3>2. CallInv(c)'
      BY <2>2, <3>1
    <3>. QED
      BY <3>1, <3>2 DEF CallInv, Untradable, PastGrace, Traded
  <2>. QED
    BY <2>3 DEF WorkInv
<1>. QED
  BY <1>6, <1>7, <1>8, <1>9, <1>10, <1>12 DEF IInv

(* RefreshSwap, won: the token was current and never traded, and is now,   *)
(* once.  No reuse was found in a session that is live.                    *)
LEMMA StepSwap ==
  ASSUME IInv, TypeOK', NEW h \in Handlers, RefreshSwap(h),
         Rotatable(work[h].session, work[h].token)
  PROVE  IInv'
<1>. DEFINE s == work[h].session
            n == work[h].token
<1>. USE VersionsAreNumbers
<1>0. s \in SessionIds /\ n \in Versions
  BY CallFields DEF IInv, TypeOK, RefreshSwap, At, RefreshCalls
<1>1. /\ state[s] = "LIVE" /\ version[s] = n
      /\ version' = [version EXCEPT ![s] = n + 1]
      /\ rotatedAt' = [rotatedAt EXCEPT ![s] = now]
      /\ exchanged' = [exchanged EXCEPT ![s] = [exchanged[s] EXCEPT ![n] = Append(exchanged[s][n], now)]]
      /\ UNCHANGED <<user, state, expired, reuse, block, now>>
  BY DEF RefreshSwap, Rotatable
<1>2. exchanged[s][n] = <<>>
  BY <1>0, <1>1 DEF IInv, ExchangedOnce
<1>. HIDE DEF s, n
<1>3. /\ version'[s] = n + 1 /\ rotatedAt'[s] = now /\ exchanged'[s][n] = <<now>>
      /\ \A m \in Versions \ {n} : exchanged'[s][m] = exchanged[s][m]
      /\ \A r \in SessionIds \ {s} :
            version'[r] = version[r] /\ rotatedAt'[r] = rotatedAt[r] /\ exchanged'[r] = exchanged[r]
  <2>1. Append(<<>>, now) = <<now>>
    OBVIOUS
  <2>. QED
    BY <1>0, <1>1, <1>2, <2>1 DEF IInv, TypeOK
<1>4. ExchangedOnce'
  BY <1>0, <1>1, <1>2, <1>3 DEF IInv, TypeOK, ExchangedOnce
<1>5. ReuseRevokes' /\ ReuseExists' /\ BlockInv'
  <2>1. \A g \in Handlers : work'[g] \in {work[g], Idle}
    BY <1>1 DEF IInv, TypeOK, RefreshSwap, Then
  <2>. QED
    BY <1>1, <2>1 DEF IInv, ReuseRevokes, ReuseExists, BlockInv, At, Idle
<1>6. ASSUME NEW r \in SessionIds, NEW m \in Versions, NEW t, PastGrace(r, m, t),
             r # s \/ m < n
      PROVE  PastGrace(r, m, t)'
  BY <1>0, <1>1, <1>2, <1>3, <1>6 DEF PastGrace, Traded
<1>7. RetryInGrace'
  <2>1. \A r \in reuse : r.session \in SessionIds \ {s} /\ r.token \in Versions /\ r.at \in Nat
    BY <1>1 DEF IInv, TypeOK, ReuseRevokes
  <2>. QED
    BY <1>1, <1>6, <2>1 DEF IInv, RetryInGrace
<1>8. BlockHolds'
  BY <1>1 DEF IInv, BlockHolds, Live
<1>9. TradeInv'
  <2>1. ASSUME NEW r \in SessionIds, version'[r] > 1
        PROVE  exchanged'[r][version'[r] - 1] = <<rotatedAt'[r]>>
    <3>1. CASE r = s
      <4>1. n \in Nat /\ n + 1 - 1 = n
        BY <1>0
      <4>. QED
        BY <1>3, <3>1, <4>1
    <3>2. CASE r # s
      BY <1>3, <2>1, <3>2 DEF IInv, TradeInv
    <3>. QED
      BY <3>1, <3>2
  <2>. QED
    BY <2>1 DEF TradeInv
<1>10. ASSUME NEW c \in Calls, CallInv(c) PROVE CallInv(c)'
  <2>0. \A r \in SessionIds : version[r] \in Nat /\ version'[r] \in Nat
    BY DEF IInv, TypeOK
  <2>1. c.call \in RefreshCalls => c.session \in SessionIds /\ c.token \in Versions
    BY CallFields
  <2>2. c.call \in {"readLatest", "revokeFamily", "lookupUsed"} => c.call \in RefreshCalls
    BY DEF RefreshCalls
  <2>3. c.call = "revokeFamily" => PastGrace(c.session, c.token, now)'
    <3>1. c.call = "revokeFamily" => c.session # s \/ c.token < n
      BY <1>1, <1>10 DEF CallInv, Untradable
    <3>. QED
      BY <1>1, <1>6, <1>10, <2>1, <2>2, <3>1 DEF CallInv
  <2>. QED
    BY <1>0, <1>1, <1>3, <1>10, <2>0, <2>1, <2>2, <2>3 DEF CallInv, Untradable
<1>11. WorkInv'
  <2>1. \A g \in Handlers : work[g] \in Calls /\ work'[g] \in {work[g], Idle}
    BY <1>1 DEF IInv, TypeOK, RefreshSwap, Then
  <2>2. \A c \in Calls : CallInv(c) => CallInv(c)'
    BY <1>10
  <2>3. ASSUME NEW g \in Handlers PROVE CallInv(work[g])'
    <3>1. PICK c \in Calls : c = work'[g] /\ CallInv(c)
      BY <2>1, IdleCall DEF IInv, WorkInv
    <3>2. CallInv(c)'
      BY <2>2, <3>1
    <3>. QED
      BY <3>1, <3>2 DEF CallInv, Untradable, PastGrace, Traded
  <2>. QED
    BY <2>3 DEF WorkInv
<1>. QED
  BY <1>4, <1>5, <1>7, <1>8, <1>9, <1>11 DEF IInv

LEMMA RevokeFamilyCall ==
  ASSUME NEW s \in SessionIds, NEW n \in Versions, state[s] # "ABSENT", n <= version[s],
         Untradable(s, n), PastGrace(s, n, now)
  PROVE  RevokeFamily(s, n) \in Calls /\ CallInv(RevokeFamily(s, n))
BY CallTypes DEF CallInv, RevokeFamily, RefreshCalls

(* A token that a later one has replaced is past the grace by definition.  *)
LEMMA OldTokenPastGrace ==
  ASSUME TypeOK, ExchangedOnce, NEW s \in SessionIds, NEW n \in Versions, n + 1 < version[s]
  PROVE  PastGrace(s, n, now) /\ Untradable(s, n)
<1>. USE VersionsAreNumbers
<1>1. version[s] \in 0..MaxVersion
  BY DEF TypeOK
<1>2. n + 1 \in Versions
  BY <1>1 DEF Versions
<1>3. Traded(s, n + 1)
  BY <1>2 DEF ExchangedOnce, Traded
<1>. QED
  BY <1>1, <1>3 DEF PastGrace, Untradable

LEMMA StepIInv == IInv /\ [Next]_vars => IInv'
<1>. SUFFICES ASSUME IInv, [Next]_vars PROVE IInv'
  OBVIOUS
<1>. USE VersionsAreNumbers
<1>0. TypeOK /\ TypeOK'
  BY StepTypeOK DEF IInv
<1>1. ASSUME NEW h \in Handlers, Handle(h) PROVE IInv'
  <2>0. work[h] \in Calls /\ CallInv(work[h])
    BY <1>0 DEF TypeOK, IInv, WorkInv
  <2>. DEFINE s == work[h].session
              n == work[h].token
  <2>00. ASSUME work[h].call \in RefreshCalls
         PROVE  s \in SessionIds /\ n \in Versions /\ state[s] # "ABSENT" /\ n <= version[s]
    BY <2>0, <2>00, CallFields DEF CallInv
  <2>1. CASE LoginBegin(h)
    <3>1. CreateSession \in Calls /\ CallInv(CreateSession)
      BY CallTypes DEF CreateSession, CallInv, RefreshCalls
    <3>. QED
      BY <1>0, <2>1, <3>1, Remembers DEF LoginBegin, MayAuthenticate
  <2>2. CASE LoginCreate(h)
    BY <1>0, <2>2, StepLoginCreate
  <2>3. ASSUME NEW r \in SessionIds, NEW m \in Versions, RefreshRead(h, r, m) PROVE IInv'
    <3>. DEFINE c == IF m # version[r] THEN AfterMismatch(r, m)
                     ELSE IF state[r] = "LIVE" /\ ~expired[r] THEN ReadUser(r, m)
                     ELSE Idle
    <3>1. state[r] # "ABSENT" /\ m <= version[r] /\ version[r] \in Nat
      BY <1>0, <2>3 DEF RefreshRead, TypeOK
    <3>2. CASE m = version[r]
      <4>1. c \in Calls /\ CallInv(c) /\ c.call # "create"
        BY <3>1, <3>2, CallTypes DEF CallInv, ReadUser, Idle, RefreshCalls
      <4>. QED
        BY <1>0, <2>3, <4>1, Remembers DEF RefreshRead
    <3>3. CASE m = version[r] - 1 /\ ~WithinGrace(r)
      <4>1. PastGrace(r, m, now)
        <5>1. exchanged[r][m] = <<rotatedAt[r]>> /\ rotatedAt[r] \in Nat /\ now \in Nat
          BY <1>0, <3>1, <3>3 DEF IInv, TypeOK, TradeInv
        <5>. QED
          BY <3>3, <5>1 DEF PastGrace, WithinGrace
      <4>2. c = RevokeFamily(r, m)
        BY <3>1, <3>3 DEF AfterMismatch
      <4>3. c \in Calls /\ CallInv(c) /\ c.call # "create"
        BY <3>1, <3>3, <4>1, <4>2, CallTypes DEF CallInv, RevokeFamily, RefreshCalls, Untradable
      <4>. QED
        BY <1>0, <2>3, <4>3, Remembers DEF RefreshRead
    <3>4. CASE m = version[r] - 1 /\ WithinGrace(r)
      <4>1. c = Idle
        BY <3>1, <3>4 DEF AfterMismatch
      <4>. QED
        BY <1>0, <2>3, <4>1, IdleCall, Remembers DEF RefreshRead, Idle
    <3>5. CASE m # version[r] /\ m # version[r] - 1
      <4>1. c = LookupUsed(r, m)
        BY <3>5 DEF AfterMismatch
      <4>2. m + 1 < version[r]
        BY <3>1, <3>5
      <4>3. LookupUsed(r, m) \in Calls /\ CallInv(LookupUsed(r, m))
        BY <3>1, <4>2, CallTypes DEF CallInv, LookupUsed, RefreshCalls
      <4>4. c.call # "create" /\ Then(h, c)
        BY <2>3, <4>1 DEF RefreshRead, LookupUsed
      <4>. QED
        BY <1>0, <2>3, <4>1, <4>3, <4>4, Remembers DEF RefreshRead
    <3>. QED
      BY <3>2, <3>3, <3>4, <3>5
  <2>4. CASE RefreshLookup(h)
    <3>1. s \in SessionIds /\ n \in Versions /\ state[s] # "ABSENT" /\ n + 1 < version[s]
      BY <2>0, <2>00, <2>4 DEF RefreshLookup, At, RefreshCalls, CallInv
    <3>2. n <= version[s] /\ PastGrace(s, n, now) /\ Untradable(s, n)
      BY <1>0, <2>00, <2>4, <3>1, OldTokenPastGrace DEF IInv, RefreshLookup, At, RefreshCalls
    <3>3. RevokeFamily(s, n) \in Calls /\ CallInv(RevokeFamily(s, n))
      BY <3>1, <3>2, RevokeFamilyCall
    <3>. QED
      BY <1>0, <2>4, <3>3, IdleCall, Remembers DEF RefreshLookup, RevokeFamily, Idle
  <2>5. CASE RefreshUser(h)
    <3>1. s \in SessionIds /\ n \in Versions /\ state[s] # "ABSENT" /\ n <= version[s]
      BY <2>00, <2>5 DEF RefreshUser, At, RefreshCalls
    <3>2. Swap(s, n) \in Calls /\ CallInv(Swap(s, n))
      BY <3>1, CallTypes DEF CallInv, Swap, RefreshCalls
    <3>. QED
      BY <1>0, <2>5, <3>2, IdleCall, Remembers DEF RefreshUser, Swap, Idle
  <2>6. CASE RefreshSwap(h)
    <3>1. s \in SessionIds /\ n \in Versions /\ state[s] # "ABSENT" /\ n <= version[s]
      BY <2>00, <2>6 DEF RefreshSwap, At, RefreshCalls
    <3>2. CASE ~Rotatable(s, n)
      <4>1. ReadLatest(s, n) \in Calls /\ CallInv(ReadLatest(s, n))
        BY <1>0, <3>1, <3>2, CallTypes
        DEF TypeOK, CallInv, ReadLatest, RefreshCalls, Untradable, Rotatable
      <4>. QED
        BY <1>0, <2>6, <3>2, <4>1, Remembers DEF RefreshSwap, ReadLatest, sessions, history
    <3>. QED
      BY <1>0, <2>6, <3>2, StepSwap
  <2>7. CASE RefreshLatest(h)
    <3>1. s \in SessionIds /\ n \in Versions /\ state[s] # "ABSENT" /\ n <= version[s]
      BY <2>00, <2>7 DEF RefreshLatest, At, RefreshCalls
    <3>2. Untradable(s, n)
      BY <2>0, <2>7 DEF RefreshLatest, At, CallInv
    <3>3. version[s] \in 0..MaxVersion /\ rotatedAt[s] \in Nat /\ now \in Nat
      BY <1>0, <3>1 DEF TypeOK
    <3>4. CASE ~LostToRetry(s, n)
      <4>1. ASSUME n = version[s] PROVE PastGrace(s, n, now)
        <5>1. ~Traded(s, n)
          BY <3>1, <3>3, <4>1 DEF IInv, ExchangedOnce, Traded
        <5>. QED
          BY <5>1 DEF PastGrace
      <4>2. ASSUME n = version[s] - 1 PROVE PastGrace(s, n, now)
        <5>1. exchanged[s][n] = <<rotatedAt[s]>>
          BY <3>1, <3>3, <4>2 DEF IInv, TradeInv
        <5>. QED
          BY <3>3, <3>4, <4>2, <5>1 DEF PastGrace, LostToRetry, WithinGrace
      <4>3. ASSUME n + 1 < version[s] PROVE PastGrace(s, n, now)
        BY <1>0, <3>1, <4>3, OldTokenPastGrace DEF IInv
      <4>4. n \in Nat
        BY <3>1
      <4>5. n = version[s] \/ n = version[s] - 1 \/ n + 1 < version[s]
        BY <3>1, <3>3, <4>4
      <4>6. RevokeFamily(s, n) \in Calls /\ CallInv(RevokeFamily(s, n))
        BY <3>1, <3>2, <4>1, <4>2, <4>3, <4>5, RevokeFamilyCall
      <4>. QED
        BY <1>0, <2>7, <4>6, IdleCall, Remembers DEF RefreshLatest, RevokeFamily, Idle
    <3>5. CASE LostToRetry(s, n)
      BY <1>0, <2>7, <3>5, IdleCall, Remembers DEF RefreshLatest, Idle
    <3>. QED
      BY <3>4, <3>5
  <2>8. CASE RefreshRevoke(h)
    <3>1. s \in SessionIds /\ n \in Versions /\ state[s] # "ABSENT"
      BY <2>00, <2>8 DEF RefreshRevoke, At, RefreshCalls
    <3>2. Revoke({s}) /\ Then(h, Idle)
      BY <2>8 DEF RefreshRevoke, Family
    <3>3. PastGrace(s, n, now)
      BY <2>0, <2>8 DEF RefreshRevoke, At, CallInv
    <3>4. Ages
      BY <1>0, <2>8, <3>2, RevokeAges DEF RefreshRevoke
    <3>5. WorkInv'
      BY <1>0, <3>2, <3>4, IdleCall, HandlerKeepsWork DEF IInv
    <3>6. state'[s] \notin {"ABSENT", "LIVE"}
      BY <1>0, <3>1, <3>2 DEF Revoke, Live, TypeOK
    <3>7. reuse' = reuse \cup {[session |-> s, token |-> n, at |-> now]}
      BY <2>8 DEF RefreshRevoke
    <3>8. \A r \in reuse : r.session \in SessionIds
      BY <1>0 DEF TypeOK
    <3>9. ReuseRevokes' /\ ReuseExists'
      BY <3>4, <3>6, <3>7, <3>8 DEF IInv, Ages, ReuseRevokes, ReuseExists
    <3>10. RetryInGrace'
      BY <3>3, <3>4, <3>7 DEF IInv, Ages, RetryInGrace, PastGrace, Traded
    <3>11. ExchangedOnce' /\ TradeInv'
      BY <3>4 DEF IInv, Ages, ExchangedOnce, TradeInv
    <3>12. BlockHolds'
      BY <2>8, <3>4 DEF IInv, Ages, BlockHolds, Live, RefreshRevoke
    <3>13. BlockInv'
      BY <1>0, <2>8, <3>2 DEF IInv, TypeOK, BlockInv, At, Then, Idle, RefreshRevoke
    <3>. QED
      BY <1>0, <3>5, <3>9, <3>10, <3>11, <3>12, <3>13 DEF IInv
  <2>9. ASSUME NEW r \in SessionIds, EndBegin(h, r) PROVE IInv'
    <3>1. EndSession(r) \in Calls /\ CallInv(EndSession(r))
      BY CallTypes DEF CallInv, EndSession, RefreshCalls
    <3>. QED
      BY <1>0, <2>9, <3>1, Remembers DEF EndBegin, EndSession
  <2>10. CASE EndRevoke(h) \/ LogoutAll(h)
    <3>1. Ages
      BY <1>0, <2>10, RevokeAges DEF EndRevoke, LogoutAll, history
    <3>2. CASE EndRevoke(h)
      <4>1. WorkInv'
        BY <1>0, <3>1, <3>2, IdleCall, HandlerKeepsWork DEF IInv, EndRevoke
      <4>2. block = "sealed" => \A g \in Handlers : work'[g].call # "create"
        BY <1>0, <3>2 DEF IInv, TypeOK, BlockInv, At, Then, Idle, EndRevoke
      <4>. QED
        BY <1>0, <3>1, <3>2, <4>1, <4>2, AgesKeepsIInv DEF EndRevoke, history
    <3>3. CASE LogoutAll(h)
      <4>1. WorkInv'
        BY <1>0, <3>1, <3>3, HandlerKeepsWork, <2>0 DEF IInv, LogoutAll, Then, TypeOK
      <4>2. block = "sealed" => \A g \in Handlers : work'[g].call # "create"
        BY <3>3 DEF IInv, BlockInv, At, LogoutAll
      <4>. QED
        BY <1>0, <3>1, <3>3, <4>1, <4>2, AgesKeepsIInv DEF LogoutAll, history
    <3>. QED
      BY <2>10, <3>2, <3>3
  <2>11. ASSUME NEW to \in {"ACTIVE", "BLOCKED"}, StatusUpdate(h, to) PROVE IInv'
    <3>1. Ages
      BY <2>11 DEF Ages, StatusUpdate, sessions
    <3>2. AfterStatus(to) \in Calls /\ CallInv(AfterStatus(to)) /\ AfterStatus(to).call # "create"
      BY IdleCall, CallTypes DEF AfterStatus, CallInv, RevokeAll, Idle, RefreshCalls
    <3>3. WorkInv'
      BY <1>0, <2>11, <3>1, <3>2, HandlerKeepsWork DEF IInv, StatusUpdate
    <3>4. SessionInv'
      BY <1>0, <2>11, <3>1, AgesKeepsSessions DEF IInv, SessionInv, StatusUpdate
    <3>5. BlockInv'
      BY <1>0, <2>11, <3>2 DEF IInv, TypeOK, BlockInv, At, Then, StatusUpdate
    <3>6. BlockHolds'
      BY <2>11, <3>1 DEF IInv, Ages, BlockHolds, Live, StatusUpdate
    <3>. QED
      BY <1>0, <3>3, <3>4, <3>5, <3>6 DEF IInv, SessionInv
  <2>12. CASE StatusRevoke(h)
    <3>1. Ages /\ Then(h, Idle)
      BY <1>0, <2>12, RevokeAges DEF StatusRevoke
    <3>2. WorkInv'
      BY <1>0, <3>1, IdleCall, HandlerKeepsWork DEF IInv
    <3>3. SessionInv'
      BY <1>0, <2>12, <3>1, AgesKeepsSessions DEF IInv, SessionInv, StatusRevoke
    <3>4. \A g \in Handlers : work'[g] \in {work[g], Idle}
      BY <1>0, <3>1 DEF TypeOK, Then
    <3>5. BlockInv'
      BY <2>12, <3>4 DEF IInv, BlockInv, At, StatusRevoke, Idle
    <3>6. \A r \in SessionIds : state'[r] # "LIVE"
      BY <1>0, <2>12 DEF StatusRevoke, Revoke, Live, TypeOK
    <3>7. BlockHolds'
      BY <2>12, <3>6 DEF IInv, BlockHolds, Live, StatusRevoke
    <3>. QED
      BY <1>0, <3>2, <3>3, <3>5, <3>7 DEF IInv, SessionInv
  <2>13. CASE Abort(h)
    BY <1>0, <2>13, IdleCall, Remembers DEF Abort, Idle
  <2>. QED
    BY <1>1, <2>1, <2>2, <2>3, <2>4, <2>5, <2>6, <2>7, <2>8, <2>9, <2>10, <2>11, <2>12, <2>13
    DEF Handle
<1>2. ASSUME work' = work, user' = user, block' = block, reuse' = reuse, Ages PROVE IInv'
  <2>1. WorkInv'
    <3>1. ASSUME NEW g \in Handlers PROVE CallInv(work[g])'
      <4>1. PICK c \in Calls : c = work[g] /\ CallInv(c)
        BY <1>0 DEF IInv, TypeOK, WorkInv
      <4>2. CallInv(c)'
        BY <1>0, <1>2, <4>1, AgesKeepsCall
      <4>. QED
        BY <1>2, <4>1, <4>2 DEF CallInv, Untradable, PastGrace, Traded
    <3>. QED
      BY <3>1 DEF WorkInv
  <2>. QED
    BY <1>0, <1>2, <2>1, AgesKeepsIInv DEF IInv, BlockInv, At
<1>3. CASE Tick
  <2>1. Ages
    BY <1>3 DEF Tick, Ages, sessions, history
  <2>. QED
    BY <1>2, <1>3, <2>1 DEF Tick, history
<1>4. ASSUME NEW s \in SessionIds, Expires(s) \/ CleanUp(s) PROVE IInv'
  <2>1. Ages
    BY <1>0, <1>4 DEF Expires, CleanUp, TypeOK, Ages, history
  <2>. QED
    BY <1>2, <1>4, <2>1 DEF Expires, CleanUp, history
<1>5. CASE UNCHANGED vars
  <2>1. Ages
    BY <1>5 DEF vars, sessions, history, Ages
  <2>. QED
    BY <1>2, <1>5, <2>1 DEF vars, history
<1>. QED
  BY <1>1, <1>3, <1>4, <1>5 DEF Next

----------------------------------------------------------------------------
(* The inductive invariant holds.                                          *)
THEOREM Invariance == Spec => []IInv
<1>1. Init => IInv
  BY InitIInv
<1>2. IInv /\ [Next]_vars => IInv'
  BY StepIInv
<1>. QED
  BY <1>1, <1>2, PTL DEF Spec

(* Types.                                                                  *)
THEOREM TypeCorrect == Spec => []TypeOK
<1>1. IInv => TypeOK
  BY DEF IInv
<1>. QED
  BY <1>1, Invariance, PTL

(* The compare-and-swap of rotateIfCurrentHash trades a token once.        *)
THEOREM TokenIsTradedOnce == Spec => []ExchangedOnce
<1>1. IInv => ExchangedOnce
  BY DEF IInv
<1>. QED
  BY <1>1, Invariance, PTL

(* Detected reuse ends the family.                                         *)
THEOREM ReuseEndsFamily == Spec => []ReuseRevokes
<1>1. IInv => ReuseRevokes
  BY DEF IInv
<1>. QED
  BY <1>1, Invariance, PTL

(* Retrying the last traded token inside the grace is never reuse, however *)
(* the retry interleaves with rotations.                                   *)
THEOREM RetryIsNotReuse == Spec => []RetryInGrace
<1>1. IInv => RetryInGrace
  BY DEF IInv
<1>. QED
  BY <1>1, Invariance, PTL

(* A block that no login was racing with leaves no session.                *)
THEOREM BlockLasts == Spec => []BlockHolds
<1>1. IInv => BlockHolds
  BY DEF IInv
<1>. QED
  BY <1>1, Invariance, PTL

LEMMA StepRevoked ==
  ASSUME TypeOK, Next, NEW s \in SessionIds, state[s] \in {"REVOKED", "DELETED"}
  PROVE  state'[s] \in {"REVOKED", "DELETED"} /\ version'[s] = version[s]
<1>1. ASSUME NEW S, Revoke(S) PROVE state'[s] \in {"REVOKED", "DELETED"}
  BY <1>1 DEF Revoke, Live
<1>2. ASSUME NEW h \in Handlers, Handle(h)
      PROVE  state'[s] \in {"REVOKED", "DELETED"} /\ version'[s] = version[s]
  <2>1. CASE LoginCreate(h)
    BY <2>1 DEF LoginCreate, TypeOK
  <2>2. CASE RefreshSwap(h)
    BY <2>2 DEF RefreshSwap, Rotatable, TypeOK
  <2>3. CASE RefreshRevoke(h) \/ EndRevoke(h) \/ LogoutAll(h) \/ StatusRevoke(h)
    BY <1>1, <2>3 DEF RefreshRevoke, EndRevoke, LogoutAll, StatusRevoke
  <2>4. ASSUME NEW r \in SessionIds, NEW n \in Versions, RefreshRead(h, r, n)
        PROVE  UNCHANGED sessions
    BY <2>4 DEF RefreshRead
  <2>5. ASSUME NEW r \in SessionIds, EndBegin(h, r) PROVE UNCHANGED sessions
    BY <2>5 DEF EndBegin
  <2>6. ASSUME NEW to \in {"ACTIVE", "BLOCKED"}, StatusUpdate(h, to) PROVE UNCHANGED sessions
    BY <2>6 DEF StatusUpdate
  <2>7. CASE LoginBegin(h) \/ RefreshLookup(h) \/ RefreshUser(h) \/ RefreshLatest(h) \/ Abort(h)
    BY <2>7 DEF LoginBegin, RefreshLookup, RefreshUser, RefreshLatest, Abort, sessions
  <2>. QED
    BY <1>2, <2>1, <2>2, <2>3, <2>4, <2>5, <2>6, <2>7 DEF Handle, sessions
<1>3. ASSUME NEW r \in SessionIds, Expires(r) \/ CleanUp(r)
      PROVE  state'[s] \in {"REVOKED", "DELETED"} /\ version'[s] = version[s]
  BY <1>3 DEF Expires, CleanUp, TypeOK
<1>4. CASE Tick
  BY <1>4 DEF Tick, sessions
<1>. QED
  BY <1>2, <1>3, <1>4 DEF Next

(* No refresh, whatever it read before, brings a revoked session back.     *)
THEOREM RevokedStaysRevoked == Spec => RevokedForever
<1>1. TypeOK /\ [Next]_vars =>
        [\A s \in SessionIds : state[s] \in {"REVOKED", "DELETED"} =>
           state'[s] \in {"REVOKED", "DELETED"} /\ version'[s] = version[s]]_vars
  BY StepRevoked
<1>. QED
  BY <1>1, TypeCorrect, PTL DEF Spec, RevokedForever

----------------------------------------------------------------------------
(* The sessions implement AuthService.  What a step does to the tokens     *)
(* under way is what the handler does that takes it.                       *)

(* Only a rotation makes tokens older.                                     *)
LEMMA SameAges ==
  ASSUME NEW h \in Refreshing, h \in Refreshing', work'[h].session = work[h].session,
         work'[h].token = work[h].token, version'[work[h].session] = version[work[h].session]
  PROVE  Presented(h)' = Presented(h)
BY DEF Presented, Age

LEMMA AgeType ==
  ASSUME NEW s, NEW n \in Nat, version[s] \in Nat, n <= version[s]
  PROVE  Age(s, n) \in 0..2
<1>. PICK v \in Nat : v = version[s]
  OBVIOUS
<1>. QED
  BY DEF Age

LEMMA PresentedToken ==
  ASSUME IInv, NEW h \in Refreshing
  PROVE  /\ h \in Handlers /\ work[h] \in Calls /\ CallInv(work[h])
         /\ work[h].session \in SessionIds /\ work[h].token \in Versions
         /\ version[work[h].session] \in Nat /\ work[h].token <= version[work[h].session]
         /\ state[work[h].session] # "ABSENT"
         /\ Presented(h) \in Auth!Token
         /\ Presented(h).session = work[h].session
         /\ Presented(h).age = Age(work[h].session, work[h].token)
<1>1. h \in Handlers /\ work[h] \in Calls /\ work[h].call \in RefreshCalls
  BY DEF IInv, TypeOK, Refreshing
<1>2. work[h].session \in SessionIds /\ work[h].token \in Versions
  BY <1>1, CallFields
<1>3. CallInv(work[h])
  BY <1>1 DEF IInv, WorkInv
<1>4. version[work[h].session] \in Nat /\ work[h].token <= version[work[h].session]
      /\ state[work[h].session] # "ABSENT"
  BY <1>1, <1>2, <1>3, VersionsAreNumbers DEF CallInv, IInv, TypeOK
<1>5. Age(work[h].session, work[h].token) \in 0..2
  BY <1>2, <1>4, VersionsAreNumbers, AgeType
<1>. QED
  BY <1>1, <1>2, <1>3, <1>4, <1>5 DEF Presented, Auth!Token

(* The handlers but h go on holding what they held.                        *)
OthersHold(h) ==
  /\ Refreshing' \ {h} = Refreshing \ {h}
  /\ \A g \in Refreshing \ {h} : Presented(g)' = Presented(g)

LEMMA OthersKeepTokens ==
  ASSUME IInv, NEW h \in Handlers, NEW c, Then(h, c),
         \A g \in Refreshing \ {h} : version'[work[g].session] = version[work[g].session]
  PROVE  OthersHold(h) /\ (h \in Refreshing' <=> c.call \in RefreshCalls) /\ work'[h] = c
<1>1. work'[h] = c /\ \A g \in Handlers \ {h} : work'[g] = work[g]
  BY DEF Then, IInv, TypeOK
<1>2. Refreshing' \ {h} = Refreshing \ {h} /\ (h \in Refreshing' <=> c.call \in RefreshCalls)
  BY <1>1 DEF Refreshing
<1>3. ASSUME NEW g \in Refreshing \ {h} PROVE Presented(g)' = Presented(g)
  BY <1>1, <1>2, <1>3, SameAges DEF Refreshing
<1>. QED
  BY <1>1, <1>2, <1>3 DEF OthersHold

LEMMA TokenStays ==
  ASSUME NEW h, OthersHold(h), h \in Refreshing <=> h \in Refreshing',
         h \in Refreshing => Presented(h)' = Presented(h)
  PROVE  Abroad' = Abroad
<1>1. Refreshing' = Refreshing
  BY DEF OthersHold
<1>2. \A g \in Refreshing : Presented(g)' = Presented(g)
  BY DEF OthersHold
<1>. QED
  BY <1>1, <1>2 DEF Abroad

LEMMA TokenComes ==
  ASSUME NEW h, OthersHold(h), h \notin Refreshing, h \in Refreshing'
  PROVE  Abroad' = Abroad \cup {Presented(h)'}
<1>1. Refreshing' = Refreshing \cup {h}
  BY DEF OthersHold
<1>2. \A g \in Refreshing : Presented(g)' = Presented(g)
  BY DEF OthersHold
<1>. QED
  BY <1>1, <1>2 DEF Abroad

LEMMA TokenLeaves ==
  ASSUME NEW h, OthersHold(h), h \in Refreshing, h \notin Refreshing'
  PROVE  Abroad' \in Auth!Without(Presented(h))
<1>1. Refreshing' = Refreshing \ {h}
  BY DEF OthersHold
<1>2. \A g \in Refreshing' : Presented(g)' = Presented(g)
  BY <1>1 DEF OthersHold
<1>3. Abroad' = {Presented(g) : g \in Refreshing'}
  BY <1>2 DEF Abroad
<1>4. Abroad = {Presented(g) : g \in Refreshing'} \cup {Presented(h)}
  BY <1>1 DEF Abroad
<1>5. Abroad' = Abroad \/ Abroad' = Abroad \ {Presented(h)}
  BY <1>3, <1>4
<1>. QED
  BY <1>5 DEF Auth!Without

(* The rows as AuthService sees them.                                      *)
AuthRows == <<[s \in SessionIds |-> Known(s)], Fresh, Accused>>

LEMMA SameRows ==
  ASSUME UNCHANGED <<state, version, rotatedAt, reuse, now>>
  PROVE  UNCHANGED AuthRows
BY DEF AuthRows, Known, Fresh, Live, WithinGrace, Accused

(* A call that touches no row takes a token up, holds it or drops it.      *)
LEMMA QuietCall ==
  ASSUME IInv, IInv', NEW h \in Handlers, NEW c \in Calls, Then(h, c),
         UNCHANGED <<state, version, rotatedAt, reuse, now>>,
         h \in Refreshing /\ c.call \in RefreshCalls
           => c.session = work[h].session /\ c.token = work[h].token
  PROVE  [Auth!Next]_(Auth!vars)
<1>1. /\ OthersHold(h) /\ (h \in Refreshing' <=> c.call \in RefreshCalls) /\ work'[h] = c
      /\ UNCHANGED AuthRows
  BY OthersKeepTokens, SameRows
<1>2. CASE h \notin Refreshing /\ c.call \in RefreshCalls
  <2>1. h \in Refreshing' /\ Abroad' = Abroad \cup {Presented(h)'}
    BY <1>1, <1>2, TokenComes
  <2>2. c.session \in SessionIds /\ c.token \in Versions
    BY <1>2, CallFields
  <2>3. CallInv(c)'
    BY <1>1 DEF IInv, WorkInv
  <2>4. version[c.session] \in Nat /\ c.token <= version[c.session] /\ state[c.session] # "ABSENT"
    BY <1>2, <2>2, <2>3, VersionsAreNumbers DEF CallInv, IInv, TypeOK
  <2>5. PICK x \in Auth!Token : x = [session |-> c.session, age |-> Age(c.session, c.token)]
    BY <2>2, <2>4, VersionsAreNumbers, AgeType DEF Auth!Token
  <2>6. Presented(h)' = x
    BY <1>1, <2>5 DEF Presented, Age
  <2>7. Auth!Present(x)
    BY <1>1, <2>1, <2>2, <2>4, <2>5, <2>6 DEF AuthRows, Auth!Present, Known
  <2>. QED
    BY <2>7 DEF Auth!Next
<1>3. CASE h \in Refreshing /\ c.call \notin RefreshCalls
  <2>1. Abroad' \in Auth!Without(Presented(h)) /\ Presented(h) \in Abroad
    BY <1>1, <1>3, TokenLeaves DEF Abroad
  <2>2. Auth!Refuse(Presented(h))
    BY <1>1, <2>1 DEF Auth!Refuse, AuthRows
  <2>. QED
    BY <2>1, <2>2 DEF Auth!Next
<1>4. CASE h \in Refreshing <=> c.call \in RefreshCalls
  <2>1. h \in Refreshing => Presented(h)' = Presented(h)
    BY <1>1, <1>4, SameAges
  <2>2. Abroad' = Abroad
    BY <1>1, <1>4, <2>1, TokenStays
  <2>. QED
    BY <1>1, <2>2 DEF AuthRows, Auth!vars
<1>. QED
  BY <1>2, <1>3, <1>4

(* A revocation ends sessions, and tokens stay as old as they are.         *)
LEMMA RevokeEnds ==
  ASSUME IInv, NEW S \in SUBSET SessionIds, Revoke(S), UNCHANGED <<version, rotatedAt, now>>
  PROVE  /\ [s \in SessionIds |-> Known(s)]' =
              [s \in SessionIds |-> IF s \in S /\ Known(s) = "live" THEN "over" ELSE Known(s)]
         /\ Fresh' = Fresh \ S
<1>1. \A s \in SessionIds : state'[s] = IF s \in S /\ state[s] = "LIVE" THEN "REVOKED" ELSE state[s]
  BY DEF Revoke, Live
<1>2. \A s \in SessionIds : Known(s)' = IF s \in S /\ Known(s) = "live" THEN "over" ELSE Known(s)
  BY <1>1 DEF Known
<1>3. Live' = Live \ S
  BY <1>1 DEF Live
<1>. QED
  BY <1>2, <1>3 DEF Fresh, WithinGrace

(* logout(), revokeSession(), logoutAll() and changeStatus() end sessions. *)
LEMMA EndingCall ==
  ASSUME IInv, IInv', NEW S \in SUBSET SessionIds, Revoke(S), NEW h \in Handlers,
         Then(h, Idle) \/ work' = work, h \notin Refreshing, UNCHANGED <<version, rotatedAt, reuse, now>>
  PROVE  Auth!Next
<1>1. \A g \in Handlers : work'[g] = work[g] \/ (g = h /\ work'[g] = Idle)
  BY DEF Then, IInv, TypeOK
<1>2. Refreshing' = Refreshing
  BY <1>1 DEF Refreshing, Idle, RefreshCalls
<1>3. \A g \in Refreshing : Presented(g)' = Presented(g)
  BY <1>1, <1>2, SameAges DEF Refreshing
<1>4. Abroad' = Abroad /\ Accused' = Accused
  BY <1>2, <1>3 DEF Abroad, Accused
<1>5. Auth!End(S)
  BY <1>4, RevokeEnds DEF Auth!End
<1>. QED
  BY <1>5 DEF Auth!Next

(* A refresh that won its swap: the other tokens of the session are older. *)
LEMMA RotationTrades ==
  ASSUME IInv, IInv', NEW h \in Handlers, RefreshSwap(h),
         Rotatable(work[h].session, work[h].token)
  PROVE  Auth!Next
<1>. DEFINE s == work[h].session
            n == work[h].token
            x == Presented(h)
<1>0. h \in Refreshing
  BY DEF RefreshSwap, At, Refreshing, RefreshCalls
<1>1. /\ s \in SessionIds /\ n \in Nat /\ version[s] = n /\ state[s] = "LIVE"
      /\ x.session = s /\ x.age = 0 /\ x \in Abroad
  BY <1>0, PresentedToken, VersionsAreNumbers DEF Rotatable, Age, Abroad
<1>2. /\ version' = [version EXCEPT ![s] = @ + 1] /\ rotatedAt' = [rotatedAt EXCEPT ![s] = now]
      /\ work' = [work EXCEPT ![h] = Idle] /\ UNCHANGED <<state, reuse, now>>
  BY DEF RefreshSwap, Then
<1>3. Refreshing' = Refreshing \ {h} /\ \A g \in Refreshing' : work'[g] = work[g]
  BY <1>0, <1>2 DEF Refreshing, Idle, RefreshCalls, IInv, TypeOK
<1>4. ASSUME NEW g \in Refreshing' PROVE Presented(g)' = Auth!Aged(Presented(g), s)
  <2>1. g \in Refreshing /\ work'[g] = work[g]
    BY <1>3
  <2>2. PICK r \in SessionIds, k \in Nat, v \in Nat :
           r = work[g].session /\ k = work[g].token /\ v = version[r] /\ k <= v
    BY <2>1, PresentedToken, VersionsAreNumbers
  <2>3. Presented(g) = [session |-> r, age |-> Age(r, k)]
    BY <2>2 DEF Presented
  <2>4. Presented(g)' = [session |-> r, age |-> Age(r, k)']
    BY <2>1, <2>2 DEF Presented, Age
  <2>5. CASE r = s
    <3>1. version'[s] = v + 1
      BY <1>1, <1>2, <2>2, <2>5 DEF IInv, TypeOK
    <3>2. Age(r, k)' = IF Age(r, k) = 2 THEN 2 ELSE Age(r, k) + 1
      <4>1. Age(r, k) = IF v - k < 2 THEN v - k ELSE 2
        BY <2>2 DEF Age
      <4>2. Age(r, k)' = IF v + 1 - k < 2 THEN v + 1 - k ELSE 2
        BY <2>5, <3>1 DEF Age
      <4>. QED
        BY <2>2, <4>1, <4>2
    <3>. QED
      BY <2>3, <2>4, <2>5, <3>2 DEF Auth!Aged
  <2>6. CASE r # s
    <3>1. version'[r] = version[r]
      BY <1>2, <2>2, <2>6 DEF IInv, TypeOK
    <3>. QED
      BY <2>3, <2>4, <2>6, <3>1 DEF Auth!Aged, Age
  <2>. QED
    BY <2>5, <2>6
<1>5. Abroad' = {Auth!Aged(y, s) : y \in {Presented(g) : g \in Refreshing'}}
  BY <1>4 DEF Abroad
<1>6. {Presented(g) : g \in Refreshing'} \in Auth!Without(x)
  <2>1. Abroad = {Presented(g) : g \in Refreshing'} \cup {x}
    BY <1>0, <1>3 DEF Abroad
  <2>. QED
    BY <2>1 DEF Auth!Without
<1>7. Fresh' = Fresh \cup {s}
  <2>0. now \in Nat /\ Live' = Live /\ s \in Live
    BY <1>1, <1>2 DEF Live, IInv, TypeOK
  <2>1. version'[s] = n + 1 /\ rotatedAt'[s] = now /\ now' = now /\ n > 0
    BY <1>0, <1>1, <1>2, PresentedToken, VersionsAreNumbers DEF IInv, TypeOK
  <2>2. s \in Fresh'
    BY <1>1, <2>0, <2>1, VersionsAreNumbers DEF Fresh, WithinGrace
  <2>3. \A r \in SessionIds \ {s} : version'[r] = version[r] /\ rotatedAt'[r] = rotatedAt[r]
    BY <1>2 DEF IInv, TypeOK
  <2>4. \A r \in SessionIds \ {s} : r \in Fresh' <=> r \in Fresh
    BY <1>2, <2>0, <2>3 DEF Fresh, WithinGrace
  <2>. QED
    BY <2>2, <2>4 DEF Fresh, Live
<1>8. UNCHANGED <<[r \in SessionIds |-> Known(r)], Accused>>
  BY <1>2 DEF Known, Accused
<1>9. [r \in SessionIds |-> Known(r)][s] = "live"
  BY <1>1 DEF Known
<1>10. Auth!Trade(x)
  BY <1>1, <1>5, <1>6, <1>7, <1>8, <1>9 DEF Auth!Trade
<1>. QED
  BY <1>1, <1>10 DEF Auth!Next

(* What is about to be revoked as reuse is reuse, or over already.         *)
LEMMA ReuseIsReuse ==
  ASSUME IInv, NEW h \in Refreshing, At(h, "revokeFamily")
  PROVE  Known(work[h].session) = "over" \/ Auth!IsReuse(Presented(h))
<1>. DEFINE s == work[h].session
            n == work[h].token
<1>1. /\ s \in SessionIds /\ n \in Versions /\ n \in Nat \ {0} /\ version[s] \in Nat
      /\ n <= version[s] /\ state[s] # "ABSENT" /\ CallInv(work[h])
  BY PresentedToken, VersionsAreNumbers
<1>2. Untradable(s, n) /\ PastGrace(s, n, now)
  BY <1>1 DEF At, CallInv
<1>3. SUFFICES ASSUME state[s] = "LIVE", n < version[s], ~(n < version[s] - 1)
               PROVE  Auth!IsReuse(Presented(h))
  <2>1. state[s] # "LIVE" => Known(s) = "over"
    BY <1>1 DEF Known
  <2>2. n < version[s] - 1 => Age(s, n) = 2
    BY <1>1 DEF Age
  <2>. QED
    BY <1>2, <2>1, <2>2, <1>3, PresentedToken DEF Untradable, Auth!IsReuse
<1>4. version[s] = n + 1
  BY <1>1, <1>3
<1>5. Age(s, n) = 1
  BY <1>1, <1>4 DEF Age
<1>6. exchanged[s][n] = <<rotatedAt[s]>>
  <2>1. version[s] > 1 /\ version[s] - 1 = n
    BY <1>1, <1>4
  <2>2. exchanged[s][version[s] - 1] = <<rotatedAt[s]>>
    BY <1>1, <2>1 DEF IInv, TradeInv
  <2>. QED
    BY <2>1, <2>2
<1>7. Traded(s, n) /\ ~Traded(s, n + 1)
  BY <1>1, <1>4 DEF Traded, IInv, ExchangedOnce
<1>8. rotatedAt[s] + Grace < now
  BY <1>2, <1>6, <1>7 DEF PastGrace
<1>9. ~WithinGrace(s)
  BY <1>1, <1>8, VersionsAreNumbers DEF WithinGrace, IInv, TypeOK
<1>. QED
  BY <1>5, <1>9, PresentedToken DEF Auth!IsReuse, Fresh

LEMMA RevocationAccuses ==
  ASSUME IInv, IInv', NEW h \in Handlers, RefreshRevoke(h)
  PROVE  Auth!Next
<1>. DEFINE s == work[h].session
            x == Presented(h)
<1>0. h \in Refreshing
  BY DEF RefreshRevoke, At, Refreshing, RefreshCalls
<1>1. s \in SessionIds /\ x.session = s /\ x \in Abroad /\ state[s] # "ABSENT"
  BY <1>0, PresentedToken DEF Abroad
<1>2. /\ Revoke({s}) /\ Then(h, Idle) /\ UNCHANGED <<version, rotatedAt, now>>
      /\ reuse' = reuse \cup {[session |-> s, token |-> work[h].token, at |-> now]}
  BY DEF RefreshRevoke, Family
<1>3. OthersHold(h) /\ h \notin Refreshing'
  BY <1>2, OthersKeepTokens DEF Idle, RefreshCalls
<1>4. Abroad' \in Auth!Without(x)
  BY <1>0, <1>3, TokenLeaves
<1>5. Accused' = Accused \cup {s}
  <2>. PICK r : r = [session |-> s, token |-> work[h].token, at |-> now]
    OBVIOUS
  <2>1. r.session = s /\ reuse' = reuse \cup {r}
    BY <1>2
  <2>. QED
    BY <2>1 DEF Accused
<1>6. /\ Fresh' = Fresh \ {s}
      /\ [r \in SessionIds |-> Known(r)]' =
           [r \in SessionIds |-> IF r \in {s} /\ Known(r) = "live" THEN "over" ELSE Known(r)]
  BY <1>1, <1>2, RevokeEnds
<1>7. [r \in SessionIds |-> Known(r)]' = [[r \in SessionIds |-> Known(r)] EXCEPT ![s] = "over"]
  BY <1>1, <1>6 DEF Known
<1>8. [r \in SessionIds |-> Known(r)][s] = "over" \/ Auth!IsReuse(x)
  BY <1>0, <1>1, ReuseIsReuse DEF RefreshRevoke
<1>9. Auth!Accuse(x)
  BY <1>1, <1>4, <1>5, <1>6, <1>7, <1>8 DEF Auth!Accuse
<1>. QED
  BY <1>1, <1>9 DEF Auth!Next

(* login() begins a session that nobody had a token of.                    *)
LEMMA LoginStarts ==
  ASSUME IInv, IInv', NEW h \in Handlers, LoginCreate(h)
  PROVE  Auth!Next
<1>1. PICK s \in SessionIds : /\ state[s] = "ABSENT" /\ state' = [state EXCEPT ![s] = "LIVE"]
                              /\ version' = [version EXCEPT ![s] = FirstToken]
  BY DEF LoginCreate
<1>2. Then(h, Idle) /\ UNCHANGED <<rotatedAt, reuse, now>> /\ h \notin Refreshing
  BY DEF LoginCreate, history, At, Refreshing, RefreshCalls
<1>3. \A r \in SessionIds \ {s} : state'[r] = state[r] /\ version'[r] = version[r]
  BY <1>1 DEF IInv, TypeOK
<1>4. state'[s] = "LIVE" /\ version'[s] = 1
  BY <1>1 DEF FirstToken, IInv, TypeOK
<1>5. \A g \in Refreshing : version'[work[g].session] = version[work[g].session]
  BY <1>1, <1>3, PresentedToken
<1>6. OthersHold(h) /\ h \notin Refreshing'
  BY <1>2, <1>5, OthersKeepTokens DEF Idle, RefreshCalls
<1>7. Abroad' = Abroad /\ Accused' = Accused
  BY <1>2, <1>6, TokenStays DEF Accused
<1>8. Fresh' = Fresh
  BY <1>1, <1>2, <1>3, <1>4 DEF Fresh, Live, WithinGrace
<1>9. [r \in SessionIds |-> Known(r)]' = [[r \in SessionIds |-> Known(r)] EXCEPT ![s] = "live"]
  BY <1>3, <1>4 DEF Known
<1>10. Auth!Login(s)
  BY <1>1, <1>7, <1>8, <1>9 DEF Auth!Login, Known
<1>. QED
  BY <1>10 DEF Auth!Next

(* Time and the cleanup.                                                   *)
LEMMA TimePasses ==
  ASSUME IInv, IInv', Tick
  PROVE  Auth!Next
<1>1. /\ now \in Nat /\ now' = now + 1 /\ work' = work
      /\ UNCHANGED <<state, version, rotatedAt, reuse>>
  BY DEF Tick, sessions, history, IInv, TypeOK
<1>2. Refreshing' = Refreshing /\ \A g \in Refreshing : Presented(g)' = Presented(g)
  BY <1>1 DEF Refreshing, Presented, Age
<1>3. Abroad' = Abroad /\ Accused' = Accused
  BY <1>1, <1>2 DEF Abroad, Accused
<1>4. Fresh' \subseteq Fresh /\ Fresh \subseteq SessionIds
  <2>1. \A s \in SessionIds : WithinGrace(s)' => WithinGrace(s)
    BY <1>1, VersionsAreNumbers DEF WithinGrace, IInv, TypeOK
  <2>. QED
    BY <1>1, <2>1 DEF Fresh, Live
<1>5. PICK S \in SUBSET SessionIds : Fresh' = Fresh \ S
  <2>1. Fresh' = Fresh \ (Fresh \ Fresh')
    BY <1>4
  <2>. QED
    BY <1>4, <2>1
<1>6. Auth!GraceEnds(S)
  BY <1>1, <1>3, <1>5 DEF Auth!GraceEnds, Known
<1>. QED
  BY <1>6 DEF Auth!Next

LEMMA CleanUpEnds ==
  ASSUME IInv, IInv', NEW s \in SessionIds, CleanUp(s)
  PROVE  Auth!Next
<1>1. /\ state[s] \in {"LIVE", "REVOKED"} /\ state' = [state EXCEPT ![s] = "DELETED"]
      /\ UNCHANGED <<version, rotatedAt, reuse, work, now>>
  BY DEF CleanUp, history
<1>2. Refreshing' = Refreshing /\ \A g \in Refreshing : Presented(g)' = Presented(g)
  BY <1>1 DEF Refreshing, Presented, Age
<1>3. Abroad' = Abroad /\ Accused' = Accused
  BY <1>1, <1>2 DEF Abroad, Accused
<1>4. \A r \in SessionIds : state'[r] = IF r = s THEN "DELETED" ELSE state[r]
  BY <1>1 DEF IInv, TypeOK
<1>5. \A r \in SessionIds : Known(r)' = IF r \in {s} /\ Known(r) = "live" THEN "over" ELSE Known(r)
  BY <1>1, <1>4 DEF Known
<1>6. Live' = Live \ {s}
  BY <1>4 DEF Live
<1>7. Fresh' = Fresh \ {s}
  BY <1>1, <1>6 DEF Fresh, WithinGrace
<1>8. Auth!End({s})
  BY <1>3, <1>5, <1>7 DEF Auth!End
<1>. QED
  BY <1>8 DEF Auth!Next

(* Every step of a handler is a step of AuthService, or none.              *)
LEMMA HandlerKeepsPromise ==
  ASSUME IInv, IInv', NEW h \in Handlers, Handle(h)
  PROVE  [Auth!Next]_(Auth!vars)
<1>0. work[h] \in Calls
  BY DEF IInv, TypeOK
<1>1. CASE LoginBegin(h)
  <2>1. CreateSession \in Calls /\ h \notin Refreshing
    BY <1>1, CallTypes DEF LoginBegin, Refreshing, Idle, RefreshCalls
  <2>. QED
    BY <1>1, <2>1, QuietCall DEF LoginBegin, sessions, history
<1>2. CASE LoginCreate(h)
  BY <1>2, LoginStarts
<1>3. ASSUME NEW s \in SessionIds, NEW n \in Versions, RefreshRead(h, s, n)
      PROVE  [Auth!Next]_(Auth!vars)
  <2>1. h \notin Refreshing
    BY <1>3 DEF RefreshRead, Refreshing, Idle, RefreshCalls
  <2>2. PICK c \in Calls : Then(h, c)
    BY <1>3, CallTypes DEF RefreshRead, AfterMismatch
  <2>. QED
    BY <1>3, <2>1, <2>2, QuietCall DEF RefreshRead, sessions, history
<1>4. CASE RefreshLookup(h) \/ RefreshUser(h) \/ RefreshLatest(h) \/ (RefreshSwap(h)
             /\ ~Rotatable(work[h].session, work[h].token))
  <2>1. work[h].session \in SessionIds /\ work[h].token \in Versions
    BY <1>0, <1>4, CallFields DEF RefreshLookup, RefreshUser, RefreshLatest, RefreshSwap, At, RefreshCalls
  <2>2. PICK c \in Calls :
          /\ Then(h, c)
          /\ c.call \in RefreshCalls => c.session = work[h].session /\ c.token = work[h].token
    BY <1>4, <2>1, CallTypes
    DEF RefreshLookup, RefreshUser, RefreshLatest, RefreshSwap, Idle, RefreshCalls, Swap,
        ReadLatest, RevokeFamily
  <2>3. UNCHANGED <<state, version, rotatedAt, reuse, now>>
    BY <1>4 DEF RefreshLookup, RefreshUser, RefreshLatest, RefreshSwap, sessions, history
  <2>. QED
    BY <2>2, <2>3, QuietCall
<1>5. CASE RefreshSwap(h) /\ Rotatable(work[h].session, work[h].token)
  BY <1>5, RotationTrades
<1>6. CASE RefreshRevoke(h)
  BY <1>6, RevocationAccuses
<1>7. ASSUME NEW s \in SessionIds, EndBegin(h, s) PROVE [Auth!Next]_(Auth!vars)
  <2>1. EndSession(s) \in Calls /\ h \notin Refreshing
    BY <1>7, CallTypes DEF EndBegin, Refreshing, Idle, RefreshCalls
  <2>. QED
    BY <1>7, <2>1, QuietCall DEF EndBegin, sessions, history
<1>8. CASE EndRevoke(h)
  <2>1. h \notin Refreshing /\ work[h].session \in SessionIds
    BY <1>0, <1>8, CallFields DEF EndRevoke, At, Refreshing, RefreshCalls
  <2>. QED
    BY <1>8, <2>1, EndingCall DEF EndRevoke, history
<1>9. CASE LogoutAll(h)
  <2>1. h \notin Refreshing
    BY <1>9 DEF LogoutAll, Idle, Refreshing, RefreshCalls
  <2>. QED
    BY <1>9, <2>1, EndingCall DEF LogoutAll, history
<1>10. ASSUME NEW to \in {"ACTIVE", "BLOCKED"}, StatusUpdate(h, to) PROVE [Auth!Next]_(Auth!vars)
  <2>1. AfterStatus(to) \in Calls /\ h \notin Refreshing
    BY <1>10, CallTypes DEF StatusUpdate, AfterStatus, Refreshing, Idle, RefreshCalls
  <2>. QED
    BY <1>10, <2>1, QuietCall DEF StatusUpdate, sessions
<1>11. CASE StatusRevoke(h)
  <2>1. h \notin Refreshing
    BY <1>11 DEF StatusRevoke, At, Refreshing, RefreshCalls
  <2>. QED
    BY <1>11, <2>1, EndingCall DEF StatusRevoke
<1>12. CASE Abort(h)
  <2>1. Idle \in Calls /\ Idle.call \notin RefreshCalls
    BY CallTypes DEF Idle, RefreshCalls
  <2>. QED
    BY <1>12, <2>1, QuietCall DEF Abort, sessions, history
<1>. QED
  BY <1>1, <1>2, <1>3, <1>4, <1>5, <1>6, <1>7, <1>8, <1>9, <1>10, <1>11, <1>12 DEF Handle

LEMMA EveryStepKeepsPromise == IInv /\ IInv' /\ [Next]_vars => [Auth!Next]_(Auth!vars)
<1>. SUFFICES ASSUME IInv, IInv', [Next]_vars PROVE [Auth!Next]_(Auth!vars)
  OBVIOUS
<1>1. ASSUME UNCHANGED <<state, version, rotatedAt, reuse, work, now>> PROVE UNCHANGED (Auth!vars)
  <2>1. UNCHANGED AuthRows
    BY <1>1, SameRows
  <2>2. Refreshing' = Refreshing /\ \A g \in Refreshing : Presented(g)' = Presented(g)
    BY <1>1 DEF Refreshing, Presented, Age
  <2>. QED
    BY <2>1, <2>2 DEF AuthRows, Auth!vars, Abroad
<1>2. CASE UNCHANGED vars
  BY <1>1, <1>2 DEF vars, sessions, history
<1>3. ASSUME NEW s \in SessionIds, Expires(s) PROVE UNCHANGED (Auth!vars)
  BY <1>1, <1>3 DEF Expires, history
<1>. QED
  BY <1>2, <1>3, TimePasses, CleanUpEnds, HandlerKeepsPromise DEF Next

(* Whatever calls of other handlers come between the calls of a refresh,   *)
(* to those who hold tokens it is one step of AuthService: a trade of the  *)
(* current token, a refusal, or an accusation that is deserved.            *)
THEOREM RefreshIsAtomic == Spec => ImplementsAuthService
<1>1. Init => Auth!Init
  <2>. SUFFICES ASSUME Init PROVE Auth!Init
    OBVIOUS
  <2>1. Refreshing = {} /\ Live = {} /\ \A s \in SessionIds : Known(s) = "absent"
    BY DEF Init, Refreshing, Idle, RefreshCalls, Live, Known
  <2>. QED
    BY <2>1 DEF Init, Auth!Init, Fresh, Abroad, Accused
<1>2. IInv /\ IInv' /\ [Next]_vars => [Auth!Next]_(Auth!vars)
  BY EveryStepKeepsPromise
<1>. QED
  BY <1>1, <1>2, Invariance, PTL DEF Spec, ImplementsAuthService, Auth!Spec

=============================================================================
