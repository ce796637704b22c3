------------------------------- MODULE Sessions -------------------------------
(***************************************************************************)
(* The sessions of one user in auth-service: login, refresh token          *)
(* rotation with reuse detection, logout, revocation and blocking.         *)
(*                                                                         *)
(* The refresh tokens of a session are numbered: session s holds the hash  *)
(* of token version[s] as current, of version[s] - 1 as previous, and the  *)
(* table of used tokens those of all before.  familyId is the id of the    *)
(* session, so the family of a session is the session.  A handler runs     *)
(* call by call, as in Operations.                                         *)
(***************************************************************************)
EXTENDS Integers, Sequences

CONSTANTS
  SessionIds,  \* bound: so many logins can succeed
  Handlers,    \* handlers that may run at the same time
  Grace,       \* REFRESH_REUSE_GRACE_MS
  MaxVersion,  \* bound on rotations: a session gets no more tokens
  MaxTime      \* bound: the clock stops here

ASSUME SessionsAssumption ==
  Grace \in Nat /\ MaxVersion \in Nat \ {0} /\ MaxTime \in Nat

VARIABLES
  user,       \* User.status: ACTIVE, or BLOCKED for BLOCKED and PENDING
  state,      \* state[s]: ABSENT, LIVE, REVOKED (revokedAt is set) or DELETED
  version,    \* version[s]: Session.refreshVersion, the current token's number
  rotatedAt,  \* rotatedAt[s]; means something once version[s] > 1
  expired,    \* expired[s]: expiresAt has passed
  exchanged,  \* history: exchanged[s][n], the times token n was traded for another
  reuse,      \* history: the refreshes that revoked their family as reuse
  block,      \* history: how far the last blocking of the user has come, Blocking
  work,       \* work[h]: the next database call of handler h
  now

sessions == <<state, version, rotatedAt, expired>>
history == <<exchanged, reuse, block>>
vars == <<user, sessions, history, work, now>>

----------------------------------------------------------------------------
Versions == 1..MaxVersion

(* swept: every session was revoked; sealed: and no login was in flight.   *)
Blocking == {"none", "swept", "sealed"}

Idle == [call |-> "none"]
CreateSession == [call |-> "create"]
RevokeAll == [call |-> "revokeAll"]
EndSession(s) == [call |-> "end", session |-> s]
ReadUser(s, n) == [call |-> "readUser", session |-> s, token |-> n]
Swap(s, n) == [call |-> "swap", session |-> s, token |-> n]
ReadLatest(s, n) == [call |-> "readLatest", session |-> s, token |-> n]
LookupUsed(s, n) == [call |-> "lookupUsed", session |-> s, token |-> n]
RevokeFamily(s, n) == [call |-> "revokeFamily", session |-> s, token |-> n]

RefreshCalls == {"readUser", "swap", "readLatest", "lookupUsed", "revokeFamily"}
Calls ==
  {Idle, CreateSession, RevokeAll}
    \cup [call : {"end"}, session : SessionIds]
    \cup [call : RefreshCalls, session : SessionIds, token : Versions]

At(h, call) == work[h].call = call
Then(h, next) == work' = [work EXCEPT ![h] = next]

Live == {s \in SessionIds : state[s] = "LIVE"}
Revoke(S) ==
  state' = [s \in SessionIds |-> IF s \in S \cap Live THEN "REVOKED" ELSE state[s]]

(* Any call may fail; what was done before stays.                          *)
Abort(h) ==
  /\ work[h] # Idle
  /\ Then(h, Idle)
  /\ UNCHANGED <<user, sessions, history, now>>

----------------------------------------------------------------------------
(* login(): the status of the user is read before the password is          *)
(* verified; the session is created after.                                 *)

MayAuthenticateAnyway(status) == TRUE
MayAuthenticate(status) == status = "ACTIVE"

LoginBegin(h) ==
  /\ work[h] = Idle
  /\ MayAuthenticate(user)
  /\ Then(h, CreateSession)
  /\ UNCHANGED <<user, sessions, history, now>>

FirstToken == 1

LoginCreate(h) ==
  /\ At(h, "create")
  /\ \E s \in SessionIds :
       /\ state[s] = "ABSENT"
       /\ state' = [state EXCEPT ![s] = "LIVE"]
       /\ version' = [version EXCEPT ![s] = FirstToken]
  /\ Then(h, Idle)
  /\ UNCHANGED <<user, rotatedAt, expired, history, now>>

----------------------------------------------------------------------------
(* refresh(): the session is read and the presented token compared with    *)
(* the current hash, the previous one and the used ones.                   *)

WithinGraceOffByOne(s) == now - rotatedAt[s] < Grace
WithinGrace(s) == now - rotatedAt[s] <= Grace

(* The token is not current: a retry of the previous one inside the grace  *)
(* is only refused, a used one revokes.                                    *)
AfterMismatch(s, n) ==
  IF n # version[s] - 1 THEN LookupUsed(s, n)
  ELSE IF WithinGrace(s) THEN Idle
  ELSE RevokeFamily(s, n)

RefreshRead(h, s, n) ==
  /\ work[h] = Idle
  /\ state[s] \in {"LIVE", "REVOKED"}
  /\ n \in 1..version[s]
  /\ Then(h, IF n # version[s] THEN AfterMismatch(s, n)
             ELSE IF state[s] = "LIVE" /\ ~expired[s] THEN ReadUser(s, n)
             ELSE Idle)
  /\ UNCHANGED <<user, sessions, history, now>>

(* The used tokens of a session go when its row does.                      *)
RefreshLookup(h) ==
  LET s == work[h].session IN
  /\ At(h, "lookupUsed")
  /\ Then(h, IF state[s] = "DELETED" THEN Idle ELSE RevokeFamily(s, work[h].token))
  /\ UNCHANGED <<user, sessions, history, now>>

RefreshUser(h) ==
  /\ At(h, "readUser")
  /\ Then(h, IF MayAuthenticate(user) THEN Swap(work[h].session, work[h].token) ELSE Idle)
  /\ UNCHANGED <<user, sessions, history, now>>

(* rotateIfCurrentHash(): one transaction, its UPDATE asks for the current *)
(* hash and a session that is not revoked.                                 *)
CurrentUnlessRevoked(s, n) == state[s] # "DELETED" /\ version[s] = n
StillLive(s, n) == state[s] = "LIVE"
Rotatable(s, n) == state[s] = "LIVE" /\ version[s] = n

RefreshSwap(h) ==
  LET s == work[h].session
      n == work[h].token IN
  /\ At(h, "swap")
  /\ IF Rotatable(s, n)
     THEN /\ version[s] < MaxVersion
          /\ version' = [version EXCEPT ![s] = @ + 1]
          /\ rotatedAt' = [rotatedAt EXCEPT ![s] = now]
          /\ exchanged' = [exchanged EXCEPT ![s][n] = Append(@, now)]
          /\ Then(h, Idle)
     ELSE Then(h, ReadLatest(s, n)) /\ UNCHANGED <<version, rotatedAt, exchanged>>
  /\ UNCHANGED <<user, state, expired, reuse, block, now>>

(* Lost: to a request with the same token inside the grace, or to anything *)
(* else, which counts as reuse.  With the row gone there is no family left *)
(* to revoke.                                                              *)
LostToRetry(s, n) == n = version[s] - 1 /\ WithinGrace(s)

RefreshLatest(h) ==
  LET s == work[h].session
      n == work[h].token IN
  /\ At(h, "readLatest")
  /\ Then(h, IF state[s] = "DELETED" \/ LostToRetry(s, n) THEN Idle
             ELSE RevokeFamily(s, n))
  /\ UNCHANGED <<user, sessions, history, now>>

NoneOfFamily(s) == {}
Family(s) == {s}

RefreshRevoke(h) ==
  LET s == work[h].session IN
  /\ At(h, "revokeFamily")
  /\ Revoke(Family(s))
  /\ reuse' = reuse \cup {[session |-> s, token |-> work[h].token, at |-> now]}
  /\ Then(h, Idle)
  /\ UNCHANGED <<user, version, rotatedAt, expired, exchanged, block, now>>

----------------------------------------------------------------------------
(* logout() and revokeSession() read the session and revoke it if it is    *)
(* not yet; logoutAll() revokes in one update.                             *)

EndBegin(h, s) ==
  /\ work[h] = Idle
  /\ s \in Live
  /\ Then(h, EndSession(s))
  /\ UNCHANGED <<user, sessions, history, now>>

EndRevoke(h) ==
  /\ At(h, "end")
  /\ Revoke({work[h].session})
  /\ Then(h, Idle)
  /\ UNCHANGED <<user, version, rotatedAt, expired, history, now>>

LogoutAll(h) ==
  /\ work[h] = Idle
  /\ Revoke(SessionIds)
  /\ UNCHANGED <<user, version, rotatedAt, expired, history, work, now>>

(* changeStatus(): the status first, the sessions in a second call.        *)
AfterStatus(to) == IF to = "BLOCKED" THEN RevokeAll ELSE Idle

StatusUpdate(h, to) ==
  /\ work[h] = Idle
  /\ user' = to
  /\ block' = IF to = "BLOCKED" THEN block ELSE "none"
  /\ Then(h, AfterStatus(to))
  /\ UNCHANGED <<sessions, exchanged, reuse, now>>

StatusRevoke(h) ==
  /\ At(h, "revokeAll")
  /\ Revoke(SessionIds)
  /\ block' = IF user # "BLOCKED" THEN block
              ELSE IF \E g \in Handlers : At(g, "create") THEN "swept" ELSE "sealed"
  /\ Then(h, Idle)
  /\ UNCHANGED <<user, version, rotatedAt, expired, exchanged, reuse, now>>

----------------------------------------------------------------------------
(* Time, and the cleanup that deletes expired and long revoked sessions.   *)

Tick ==
  /\ now < MaxTime
  /\ now' = now + 1
  /\ UNCHANGED <<user, sessions, history, work>>

Expires(s) ==
  /\ state[s] \in {"LIVE", "REVOKED"}
  /\ ~expired[s]
  /\ expired' = [expired EXCEPT ![s] = TRUE]
  /\ UNCHANGED <<user, state, version, rotatedAt, history, work, now>>

CleanUp(s) ==
  /\ state[s] = "REVOKED" \/ (state[s] = "LIVE" /\ expired[s])
  /\ state' = [state EXCEPT ![s] = "DELETED"]
  /\ UNCHANGED <<user, version, rotatedAt, expired, history, work, now>>

Init ==
  /\ user = "ACTIVE"
  /\ state = [s \in SessionIds |-> "ABSENT"]
  /\ version = [s \in SessionIds |-> 0]
  /\ rotatedAt = [s \in SessionIds |-> 0]
  /\ expired = [s \in SessionIds |-> FALSE]
  /\ exchanged = [s \in SessionIds |-> [n \in Versions |-> <<>>]]
  /\ reuse = {}
  /\ block = "none"
  /\ work = [h \in Handlers |-> Idle]
  /\ now = 0

Handle(h) ==
  \/ LoginBegin(h)
  \/ LoginCreate(h)
  \/ \E s \in SessionIds, n \in Versions : RefreshRead(h, s, n)
  \/ RefreshLookup(h)
  \/ RefreshUser(h)
  \/ RefreshSwap(h)
  \/ RefreshLatest(h)
  \/ RefreshRevoke(h)
  \/ \E s \in SessionIds : EndBegin(h, s)
  \/ EndRevoke(h)
  \/ LogoutAll(h)
  \/ \E to \in {"ACTIVE", "BLOCKED"} : StatusUpdate(h, to)
  \/ StatusRevoke(h)
  \/ Abort(h)

Next ==
  \/ \E h \in Handlers : Handle(h)
  \/ \E s \in SessionIds : Expires(s) \/ CleanUp(s)
  \/ Tick

Spec == Init /\ [][Next]_vars

----------------------------------------------------------------------------
(* Properties *)

(* Types; a session without a row has no token.                            *)
TypeOK ==
  /\ user \in {"ACTIVE", "BLOCKED"}
  /\ state \in [SessionIds -> {"ABSENT", "LIVE", "REVOKED", "DELETED"}]
  /\ version \in [SessionIds -> 0..MaxVersion]
  /\ \A s \in SessionIds : state[s] = "ABSENT" <=> version[s] = 0
  /\ rotatedAt \in [SessionIds -> Nat]
  /\ expired \in [SessionIds -> BOOLEAN]
  /\ exchanged \in [SessionIds -> [Versions -> Seq(Nat)]]
  /\ reuse \subseteq [session : SessionIds, token : Versions, at : Nat]
  /\ block \in Blocking
  /\ work \in [Handlers -> Calls]
  /\ now \in Nat

(* However many refreshes race with a token, it is traded for a new one at *)
(* most once, and the current token of a session never was.                *)
ExchangedOnce ==
  \A s \in SessionIds : \A n \in Versions :
    /\ Len(exchanged[s][n]) <= 1
    /\ exchanged[s][n] # <<>> <=> n < version[s]

(* A refresh taken for reuse leaves no usable session of the family.       *)
ReuseRevokes == \A r \in reuse : state[r.session] # "LIVE"

(* A retry of a token inside the grace is not taken for reuse, as long as  *)
(* the token that replaced it has not been traded in turn.                 *)
Traded(s, n) == n \in Versions /\ exchanged[s][n] # <<>>
PastGrace(s, n, t) ==
  Traded(s, n) /\ ~Traded(s, n + 1) => exchanged[s][n][1] + Grace < t
RetryInGrace == \A r \in reuse : PastGrace(r.session, r.token, r.at)

(* Blocking a user while no login is in flight ends all sessions for good: *)
(* none is created or refreshed until the user is activated.               *)
BlockHolds == block = "sealed" => user = "BLOCKED" /\ Live = {}

(* A revoked session stays so and its tokens are worth nothing: a refresh  *)
(* that read it before rotates nothing.                                    *)
RevokedForever ==
  [][\A s \in SessionIds : state[s] \in {"REVOKED", "DELETED"} =>
       state'[s] \in {"REVOKED", "DELETED"} /\ version'[s] = version[s]]_vars

(* To those who hold its tokens every refresh is one step, wherever other  *)
(* calls come between its own: the sessions implement AuthService.         *)
Age(s, n) == IF version[s] - n < 2 THEN version[s] - n ELSE 2
Refreshing == {h \in Handlers : work[h].call \in RefreshCalls}
Presented(h) == [session |-> work[h].session, age |-> Age(work[h].session, work[h].token)]

Known(s) == IF state[s] = "ABSENT" THEN "absent" ELSE IF state[s] = "LIVE" THEN "live" ELSE "over"
Fresh == {s \in Live : version[s] > 1 /\ WithinGrace(s)}
Abroad == {Presented(h) : h \in Refreshing}
Accused == {r.session : r \in reuse}

Auth ==
  INSTANCE AuthService WITH
    session <- [s \in SessionIds |-> Known(s)], fresh <- Fresh, abroad <- Abroad, accused <- Accused

ImplementsAuthService == Auth!Spec

----------------------------------------------------------------------------
(* The inductive invariant of SessionsProofs.                              *)

(* A call that lost its swap has a token that can no longer be traded.     *)
Untradable(s, n) == n < version[s] \/ state[s] # "LIVE"

(* What a handler remembers is still true when it makes its next call: the *)
(* session exists and had the token; reuse it acts on is past the grace.   *)
CallInv(c) ==
  /\ c.call \in RefreshCalls => state[c.session] # "ABSENT" /\ c.token <= version[c.session]
  /\ c.call \in {"readLatest", "revokeFamily"} => Untradable(c.session, c.token)
  /\ c.call = "lookupUsed" => c.token + 1 < version[c.session]
  /\ c.call = "revokeFamily" => PastGrace(c.session, c.token, now)
WorkInv == \A h \in Handlers : CallInv(work[h])

(* rotatedAt is the time the previous token was traded.                    *)
TradeInv ==
  \A s \in SessionIds :
    version[s] > 1 => exchanged[s][version[s] - 1] = <<rotatedAt[s]>>

BlockInv ==
  /\ block # "none" => user = "BLOCKED"
  /\ block = "sealed" => \A h \in Handlers : ~At(h, "create")

ReuseExists == \A r \in reuse : state[r.session] # "ABSENT"

IInv ==
  /\ TypeOK
  /\ ExchangedOnce
  /\ ReuseRevokes
  /\ ReuseExists
  /\ RetryInGrace
  /\ BlockHolds
  /\ BlockInv
  /\ TradeInv
  /\ WorkInv

=============================================================================
