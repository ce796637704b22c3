----------------------------- MODULE ClientSession -----------------------------
(***************************************************************************)
(* The session of a browser, end to end: apiRequest() and AuthProvider in  *)
(* every tab, the cookies the tabs share, the auth routes of the gateway   *)
(* that set and clear them, and auth-service at their end.  A tab refreshes*)
(* once for all its requests; tabs know nothing of each other; any answer  *)
(* may be lost after its call was carried out, or before.                  *)
(*                                                                         *)
(* A refresh token is named by its age: 0 is the current token of its      *)
(* session, 1 the previous one, 2 any used before.  Rotation ages those    *)
(* that are out.  What auth-service does in several database calls is one  *)
(* step here; the module Sessions takes it apart.                          *)
(***************************************************************************)
EXTENDS Naturals, FiniteSets

CONSTANTS
  Tabs,       \* tabs of one browser
  Requests,   \* bound: apiRequest() calls in flight at once, in all tabs
  Logins,     \* ids of sessions; bound: so many logins can succeed
  None,
  MaxOrphans  \* bound: refreshes given up but not carried out yet

VARIABLES
  jar,        \* the cookies: refresh (with the CSRF one) and access
  session,    \* session[s] at auth-service, and how it ended
  fresh,      \* live sessions rotated less than REFRESH_REUSE_GRACE_MS ago
  tab,        \* tab[t]: AuthProvider's status and the auth calls in flight
  request,    \* apiRequest() calls in flight
  orphans,    \* tokens of refreshes under way whose caller has given up
  lost,       \* history: sessions that have a token no answer brought
  raced,      \* history: sessions refreshed while another refresh was out
  overtaken,  \* history: sessions with a refresh slower than grace or rotation
  out         \* history: the session of a logout that nothing crossed

service == <<session, fresh, overtaken>>
vars == <<jar, tab, request, orphans, lost, raced, out, service>>

-----------------------------------------------------------------------------
Ages == 0..2
Token == [session : Logins, age : Ages]
Refresh == [step : {"sent"}, token : Token \cup {None}] \cup [step : {"answered"}, token : Token]
Login == [kind : {"login"}, step : {"answered"}, token : Token]
Logout == [kind : {"logout"}, step : {"sent", "answered"}, token : Token, clean : BOOLEAN]
Tab == [status : {"loading", "authenticated", "anonymous"},
        refresh : Refresh \cup {None}, sign : Login \cup Logout \cup {None}]
Page(status, refresh, sign) == [status |-> status, refresh |-> refresh, sign |-> sign]
Request == [tab : Tabs, kind : {"me", "other"}, retry : BOOLEAN, waiting : BOOLEAN,
            access : Logins \cup {None}]

ASSUME ClientSessionAssumption ==
  /\ None \notin Tabs \cup Requests \cup Logins
  /\ None \notin Token \cup Refresh \cup Login \cup Logout \cup Request
  /\ MaxOrphans \in Nat

TypeOK ==
  /\ jar \in [token : Token \cup {None}, access : BOOLEAN]
  /\ jar.access => jar.token # None
  /\ session \in [Logins -> {"absent", "live", "revoked", "reused"}]
  /\ fresh \subseteq Logins
  /\ tab \in [Tabs -> Tab]
  /\ request \in [Requests -> Request \cup {None}]
  /\ orphans \subseteq Token
  /\ lost \subseteq Logins
  /\ raced \subseteq Logins
  /\ overtaken \subseteq Logins
  /\ out \in Logins \cup {None}

-----------------------------------------------------------------------------
(* auth-service *)

Of(token, s) == IF token = None THEN FALSE ELSE token.session = s
Older(age) == IF age = 2 THEN 2 ELSE age + 1
Aged(token, s) == IF Of(token, s) THEN [token EXCEPT !.age = Older(@)] ELSE token

AgedCall(call, s) == IF call = None THEN None ELSE [call EXCEPT !.token = Aged(@, s)]
AgedTab(u, s) == Page(u.status, AgedCall(u.refresh, s), AgedCall(u.sign, s))

\* The grace is of no use to a session that is over.
End(s, how) ==
  /\ session' = [session EXCEPT ![s] = how]
  /\ fresh' = fresh \ {s}

Newest(token) == token.age = 0
Current(token) == token.age = 0 /\ session[token.session] = "live"

NoGrace(token) == token.age > 0

\* A retry inside the grace is refused, any other used token revokes.
IsReuse(token) == token.age = 2 \/ (token.age = 1 /\ token.session \notin fresh)

\* A refresh of the session is on its way, or its answer is.
Underway(s) == (\E t \in Tabs : IF tab[t].refresh = None THEN FALSE
                                ELSE Of(tab[t].refresh.token, s))
               \/ (\E o \in orphans : Of(o, s))

\* One is on its way with a token that is not the newest.
Behind(s) ==
  (\E t \in Tabs : IF tab[t].refresh = None THEN FALSE
                   ELSE Of(tab[t].refresh.token, s) /\ tab[t].refresh.token.age > 0)
  \/ (\E o \in orphans : Of(o, s) /\ o.age > 0)

Rotated(s) ==
  /\ fresh' = fresh \cup {s}
  /\ overtaken' = IF Behind(s) THEN overtaken \cup {s} ELSE overtaken
  /\ UNCHANGED session

Refused(token) ==
  /\ IF IsReuse(token) /\ session[token.session] = "live"
     THEN End(token.session, "reused")
     ELSE UNCHANGED <<session, fresh>>
  /\ UNCHANGED overtaken

\* logout(): a token that is not the current one revokes nothing, and that is
\* a success too.
LoggedOut(token) ==
  /\ IF Current(token) THEN End(token.session, "revoked") ELSE UNCHANGED <<session, fresh>>
  /\ UNCHANGED overtaken

-----------------------------------------------------------------------------
(* Tabs *)

Alone(t) == \A u \in Tabs \ {t} : tab[u].refresh = None /\ tab[u].sign = None
CrossedCall(call) ==
  IF call = None THEN None
  ELSE IF call.kind = "logout" THEN [call EXCEPT !.clean = FALSE] ELSE call
Crossed(u) == Page(u.status, u.refresh, CrossedCall(u.sign))
CrossedTabs == [t \in Tabs |-> Crossed(tab[t])]

Mine(t) == {r \in Requests : IF request[r] = None THEN FALSE ELSE request[r].tab = t}
Waiting(t) == {r \in Mine(t) : request[r].waiting}

Asked(t, kind, retry, cookies) ==
  [tab |-> t, kind |-> kind, retry |-> retry, waiting |-> FALSE,
   access |-> IF cookies.access THEN cookies.token.session ELSE None]

Parked(q) ==
  [tab |-> q.tab, kind |-> q.kind, retry |-> q.retry, waiting |-> TRUE, access |-> None]

\* What a page leaves behind when it goes: refreshes whose answer nobody hears.
Unheard(t) ==
  IF tab[t].refresh = None THEN {}
  ELSE IF tab[t].refresh.step = "sent" THEN {tab[t].refresh.token} \ {None} ELSE {}
Wasted(call) ==
  IF call = None THEN {} ELSE IF call.step = "answered" THEN {call.token.session} ELSE {}

\* Opening the page, or loading it anew: AuthProvider asks who the user is.
Load(t) ==
  /\ \E r \in Requests :
       /\ request[r] = None \/ r \in Mine(t)
       /\ request' = [q \in Requests |-> IF q = r THEN Asked(t, "me", TRUE, jar)
                                         ELSE IF q \in Mine(t) THEN None ELSE request[q]]
  /\ tab' = [tab EXCEPT ![t] = Page("loading", None, None)]
  /\ Cardinality(orphans \cup Unheard(t)) <= MaxOrphans
  /\ orphans' = orphans \cup Unheard(t)
  /\ lost' = lost \cup Wasted(tab[t].refresh)
                  \cup (IF tab[t].sign = None THEN {} ELSE
                          IF tab[t].sign.kind = "login" THEN Wasted(tab[t].sign) ELSE {})
  /\ UNCHANGED <<jar, service, raced, out>>

Ask(t) ==
  /\ tab[t].status = "authenticated"
  /\ \E r \in Requests :
       /\ request[r] = None
       /\ request' = [request EXCEPT ![r] = Asked(t, "other", TRUE, jar)]
  /\ UNCHANGED <<jar, tab, orphans, lost, raced, out, service>>

\* The user is who the page thinks, or the page gives up on the session.
StatusAfterMe(q, ok) == IF q.kind # "me" THEN tab[q.tab].status
                        ELSE IF ok THEN "authenticated" ELSE "anonymous"

Ended(r, ok) ==
  /\ request' = [request EXCEPT ![r] = None]
  /\ tab' = [tab EXCEPT ![request[r].tab].status = StatusAfterMe(request[r], ok)]
  /\ UNCHANGED <<jar, orphans, lost, raced, out, service>>

Sent(r) == IF request[r] = None THEN FALSE ELSE ~request[r].waiting

\* The gateway and server-service look at the access token alone, the auth
\* routes at the session too.
Succeed(r) ==
  /\ Sent(r)
  /\ request[r].access # None
  /\ request[r].kind = "me" => session[request[r].access] = "live"
  /\ Ended(r, TRUE)

\* A network failure, a 5xx, a refusal, or a 401 of what was tried again.
Fail(r) == Sent(r) /\ Ended(r, FALSE)

MustRefresh(t) == tab[t].refresh = None

\* 401, or 403 of a read: one refresh for all requests of the tab.  A change
\* without the CSRF cookie is refused without one: for it there is Fail.
Reject(r) ==
  /\ Sent(r)
  /\ request[r].retry
  /\ request' = [request EXCEPT ![r] = Parked(@)]
  /\ LET t == request[r].tab
     IN IF MustRefresh(t)
        THEN /\ tab' = [CrossedTabs EXCEPT ![t] =
                  Page(@.status, [step |-> "sent", token |-> jar.token], @.sign)]
             /\ raced' = raced \cup {s \in Logins : Of(jar.token, s) /\ Underway(s)}
        ELSE UNCHANGED <<tab, raced>>
  /\ UNCHANGED <<jar, orphans, lost, out, service>>

-----------------------------------------------------------------------------
(* The refresh of a tab *)

Retried(q, cookies) == Asked(q.tab, q.kind, FALSE, cookies)

ForgetOthers(t) ==
  request' = [r \in Requests |-> IF r \in Waiting(t) /\ request[r].kind = "me" THEN None ELSE request[r]]

\* Whoever waits for the refresh goes on: asks again, or fails as it had.
GoOn(t, cookies) ==
  request' = [r \in Requests |-> IF r \in Waiting(t) THEN Retried(request[r], cookies) ELSE request[r]]
GiveUp(t) ==
  request' = [r \in Requests |-> IF r \in Waiting(t) THEN None ELSE request[r]]
StatusAfterRefusal(t) ==
  IF \E r \in Waiting(t) : request[r].kind = "me" THEN "anonymous" ELSE tab[t].status

Refreshing(t, step) == IF tab[t].refresh = None THEN FALSE ELSE tab[t].refresh.step = step
WithoutRefresh(t) ==
  [tab EXCEPT ![t] = Page(StatusAfterRefusal(t), None, @.sign)]

\* auth-service rotates: every token of the session that is out is older now.
Rotate(t) ==
  /\ Refreshing(t, "sent")
  /\ tab[t].refresh.token # None
  /\ Current(tab[t].refresh.token)
  /\ LET s == tab[t].refresh.token.session
     IN /\ Rotated(s)
        /\ jar' = [jar EXCEPT !.token = Aged(@, s)]
        /\ tab' = [u \in Tabs |->
             IF u = t THEN [AgedTab(tab[t], s) EXCEPT
                              !.refresh = [step |-> "answered", token |-> [session |-> s, age |-> 0]]]
             ELSE AgedTab(tab[u], s)]
        /\ orphans' = {Aged(o, s) : o \in orphans}
  /\ UNCHANGED <<request, lost, raced, out>>

\* Without cookies the gateway refuses (CSRF), with an old token auth-service.
RefuseRefresh(t) ==
  /\ Refreshing(t, "sent")
  /\ \/ tab[t].refresh.token = None /\ UNCHANGED service
     \/ /\ tab[t].refresh.token # None
        /\ ~Current(tab[t].refresh.token)
        /\ Refused(tab[t].refresh.token)
  /\ tab' = WithoutRefresh(t)
  /\ GiveUp(t)
  /\ UNCHANGED <<jar, orphans, lost, raced, out>>

HearRefresh(t) ==
  /\ Refreshing(t, "answered")
  /\ jar' = [token |-> tab[t].refresh.token, access |-> TRUE]
  /\ tab' = [tab EXCEPT ![t].refresh = None]
  /\ GoOn(t, jar')
  /\ UNCHANGED <<orphans, lost, raced, out, service>>

\* The gateway times out or the connection breaks: before auth-service has
\* answered, which may go on and rotate, or after.
LoseRefresh(t) ==
  /\ \/ /\ Refreshing(t, "sent")
        /\ orphans' \in {orphans, orphans \cup Unheard(t)}
        /\ Cardinality(orphans') <= MaxOrphans
        /\ UNCHANGED lost
     \/ /\ Refreshing(t, "answered")
        /\ lost' = lost \cup Wasted(tab[t].refresh)
        /\ UNCHANGED orphans
  /\ tab' = WithoutRefresh(t)
  /\ GiveUp(t)
  /\ UNCHANGED <<jar, raced, out, service>>

-----------------------------------------------------------------------------
(* Signing in and out *)

Signing(t, kind, step) ==
  IF tab[t].sign = None THEN FALSE ELSE tab[t].sign.kind = kind /\ tab[t].sign.step = step
Signed(t, status) == [tab EXCEPT ![t] = Page(status, @.refresh, None)]

\* login() at auth-service; one that fails there, or never gets there, leaves
\* an anonymous tab as it was.
SignIn(t) ==
  /\ tab[t].status = "anonymous"
  /\ tab[t].sign = None
  /\ \E s \in Logins :
       /\ session[s] = "absent"
       /\ session' = [session EXCEPT ![s] = "live"]
       /\ tab' = [CrossedTabs EXCEPT ![t] = Page(@.status, @.refresh,
            [kind |-> "login", step |-> "answered", token |-> [session |-> s, age |-> 0]])]
  /\ out' = None
  /\ UNCHANGED <<jar, request, orphans, lost, raced, fresh, overtaken>>

HearLogin(t) ==
  /\ Signing(t, "login", "answered")
  /\ jar' = [token |-> tab[t].sign.token, access |-> TRUE]
  /\ tab' = Signed(t, "authenticated")
  /\ UNCHANGED <<request, orphans, lost, raced, out, service>>

FailLogin(t) ==
  /\ Signing(t, "login", "answered")
  /\ lost' = lost \cup Wasted(tab[t].sign)
  /\ tab' = Signed(t, "anonymous")
  /\ UNCHANGED <<jar, request, orphans, raced, out, service>>

\* Without the CSRF cookie the gateway refuses and nothing changes.
SignOut(t) ==
  /\ tab[t].status = "authenticated"
  /\ tab[t].sign = None
  /\ jar.token # None
  /\ tab' = [tab EXCEPT ![t].sign = [kind |-> "logout", step |-> "sent", token |-> jar.token,
                                     clean |-> Alone(t) /\ tab[t].refresh = None]]
  /\ UNCHANGED <<jar, request, orphans, lost, raced, out, service>>

EndSession(t) ==
  /\ Signing(t, "logout", "sent")
  /\ LoggedOut(tab[t].sign.token)
  /\ tab' = [tab EXCEPT ![t].sign.step = "answered"]
  /\ UNCHANGED <<jar, request, orphans, lost, raced, out>>

ClearedAccess == [token |-> jar.token, access |-> FALSE]
Cleared == [token |-> None, access |-> FALSE]

HearLogout(t) ==
  /\ Signing(t, "logout", "answered")
  /\ jar' = Cleared
  /\ tab' = Signed(t, "anonymous")
  /\ out' = IF tab[t].sign.clean /\ tab[t].sign.token.session \notin lost
            THEN tab[t].sign.token.session ELSE out
  /\ UNCHANGED <<request, orphans, lost, raced, service>>

\* The gateway clears the cookies on an error too, if its answer arrives; the
\* tab is signed out in any case ("logoutIncomplete").  A logout carried out
\* after that ends the session like EndElsewhere.
LoseLogout(t) ==
  /\ Signing(t, "logout", "sent") \/ Signing(t, "logout", "answered")
  /\ jar' \in {jar, Cleared}
  /\ tab' = Signed(t, "anonymous")
  /\ UNCHANGED <<request, orphans, lost, raced, out, service>>

-----------------------------------------------------------------------------
(* Refreshes that were given up, and time *)

LateRefusal(o) ==
  /\ ~Current(o)
  /\ Refused(o)
  /\ orphans' = orphans \ {o}
  /\ UNCHANGED <<jar, tab, request, lost, raced, out>>

LateRotation(o) ==
  /\ Current(o)
  /\ Rotated(o.session)
  /\ jar' = [jar EXCEPT !.token = Aged(@, o.session)]
  /\ tab' = [u \in Tabs |-> AgedTab(tab[u], o.session)]
  /\ orphans' = {Aged(p, o.session) : p \in orphans \ {o}}
  /\ lost' = lost \cup {o.session}
  /\ UNCHANGED <<request, raced, out>>

\* The access cookie lives as long as its token.
Lapse ==
  /\ jar.access
  /\ jar' = [jar EXCEPT !.access = FALSE]
  /\ UNCHANGED <<tab, request, orphans, lost, raced, out, service>>

GraceEnds(s) ==
  /\ s \in fresh
  /\ fresh' = fresh \ {s}
  /\ overtaken' = IF Underway(s) THEN overtaken \cup {s} ELSE overtaken
  /\ UNCHANGED <<jar, tab, request, orphans, lost, raced, out, session>>

\* Expiry, another device, an administrator or a late logout ends the session.
EndElsewhere(s) ==
  /\ session[s] = "live"
  /\ End(s, "revoked")
  /\ UNCHANGED <<jar, tab, request, orphans, lost, raced, out, overtaken>>

-----------------------------------------------------------------------------
Init ==
  /\ jar = [token |-> None, access |-> FALSE]
  /\ session = [s \in Logins |-> "absent"]
  /\ fresh = {}
  /\ tab = [t \in Tabs |-> Page("anonymous", None, None)]
  /\ request = [r \in Requests |-> None]
  /\ orphans = {}
  /\ lost = {} /\ raced = {} /\ overtaken = {}
  /\ out = None

Answer(r) == Succeed(r) \/ Fail(r) \/ Reject(r)
Carried(t) == Rotate(t) \/ RefuseRefresh(t) \/ HearRefresh(t) \/ LoseRefresh(t)

Next ==
  \/ \E t \in Tabs : Load(t) \/ Ask(t) \/ Carried(t)
  \/ \E t \in Tabs : SignIn(t) \/ HearLogin(t) \/ FailLogin(t)
  \/ \E t \in Tabs : SignOut(t) \/ EndSession(t) \/ HearLogout(t) \/ LoseLogout(t)
  \/ \E r \in Requests : Answer(r)
  \/ \E o \in orphans : LateRefusal(o) \/ LateRotation(o)
  \/ Lapse
  \/ \E s \in Logins : GraceEnds(s) \/ EndElsewhere(s)

Spec == Init /\ [][Next]_vars

-----------------------------------------------------------------------------
\* A browser is taken for a thief of its own session only after an answer with
\* a token was lost, or when a refresh began while another was out (of another
\* tab, or one a reload or a timeout left behind) and one of them was slower
\* than the grace or than a second rotation: one page alone, however many
\* requests it has in flight, never presents a token twice.
NoFalseReuse == \A s \in Logins : session[s] = "reused" => s \in lost \cup (raced \cap overtaken)

\* A logout that was answered, and that no refresh or login of any tab
\* crossed, holds: the session is over and no tab gets cookies again until
\* the next login, whatever is in flight or comes late.
LogoutHolds == out # None => jar = [token |-> None, access |-> FALSE] /\ session[out] \notin {"absent", "live"}

\* A request that waits for a refresh waits for one its tab has in flight: none
\* is forgotten when the refresh ends, whichever way, or when the page goes.
NoLostWaiter == \A t \in Tabs : tab[t].refresh = None => Waiting(t) = {}

\* A refresh on its way to auth-service has the token x.
Abroad(x) == x \in orphans \/ \E t \in Tabs : Refreshing(t, "sent") /\ tab[t].refresh.token = x

\* Whatever the tabs do, what they see of auth-service is what the sessions
\* promise: ClientSession and Sessions meet in AuthService.
Seen(s) == IF session[s] \in {"absent", "live"} THEN session[s] ELSE "over"
Presented == {x \in Token : Abroad(x)}
Accused == {s \in Logins : session[s] = "reused"}

Auth ==
  INSTANCE AuthService WITH
    SessionIds <- Logins, session <- [s \in Logins |-> Seen(s)],
    abroad <- Presented, accused <- Accused

KeepsToAuthService == Auth!Spec
=============================================================================
