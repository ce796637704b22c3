-------------------------- MODULE ClientSessionProofs --------------------------
(***************************************************************************)
(* Proofs about ClientSession: types, that no request waits for a refresh  *)
(* nobody has in flight, that a logout nothing crossed holds, and that a   *)
(* browser is not taken for a thief of its own session.                    *)
(***************************************************************************)
EXTENDS ClientSession, TLAPS

\* A token of session s in the refresh of tab t.
Carries(t, s) == IF tab[t].refresh = None THEN FALSE ELSE Of(tab[t].refresh.token, s)

\* Tokens are of sessions that exist.
Known ==
  \A s \in Logins : session[s] = "absent" =>
    /\ ~Of(jar.token, s)
    /\ \A t \in Tabs : ~Carries(t, s)
    /\ \A t \in Tabs : IF tab[t].sign = None THEN TRUE ELSE tab[t].sign.token.session # s
    /\ \A o \in orphans : o.session # s

\* An answer to a refresh brings the newest token, and all others are old.
AnswerIsNewest ==
  \A t \in Tabs : Refreshing(t, "answered") =>
    LET s == tab[t].refresh.token.session
    IN /\ tab[t].refresh.token.age = 0
       /\ Of(jar.token, s) => jar.token.age > 0
       /\ \A u \in Tabs \ {t} : Carries(u, s) => tab[u].refresh.token.age > 0
       /\ \A o \in orphans : o.session = s => o.age > 0

\* An answer to a login brings the first token of a session nobody else knows.
LoginIsFirst ==
  \A t \in Tabs : Signing(t, "login", "answered") =>
    LET s == tab[t].sign.token.session
    IN /\ tab[t].sign.token.age = 0
       /\ ~Of(jar.token, s)
       /\ \A u \in Tabs : ~Carries(u, s)
       /\ \A u \in Tabs \ {t} : Signing(u, "login", "answered") => tab[u].sign.token.session # s
       /\ \A o \in orphans : o.session # s

\* The cookie is the newest token of its session, or the newest is on its way
\* to a tab, or it got lost.
JarIsNewest ==
  \A s \in Logins :
    Of(jar.token, s) /\ jar.token.age > 0 =>
      s \in lost \/ \E t \in Tabs : Refreshing(t, "answered") /\ Carries(t, s)

\* Nothing crosses a clean logout, and it is of the newest token.
CleanLogout(t) ==
  IF tab[t].sign = None THEN FALSE ELSE tab[t].sign.kind = "logout" /\ tab[t].sign.clean
NothingCrosses ==
  \A t \in Tabs : CleanLogout(t) =>
    /\ \A u \in Tabs : tab[u].refresh = None /\ ~Signing(u, "login", "answered")
    /\ LET s == tab[t].sign.token.session
       IN s \notin lost =>
            /\ tab[t].sign.token.age = 0
            /\ tab[t].sign.step = "answered" => session[s] \notin {"absent", "live"}

\* Once it is over no tab has a refresh that could bring cookies, nor a login.
Over ==
  out # None =>
    \A t \in Tabs : /\ ~Signing(t, "login", "answered")
                    /\ ~Refreshing(t, "answered")
                    /\ \A s \in Logins : ~Carries(t, s)

\* Two refreshes of a session are on their way, or the answer of one of them.
Crowded(s) ==
  \/ \E t, u \in Tabs : t # u /\ Carries(t, s) /\ Carries(u, s)
  \/ \E t \in Tabs : \E o \in orphans : Carries(t, s) /\ o.session = s
  \/ \E o, p \in orphans : o # p /\ o.session = s /\ p.session = s
CrowdIsRaced == \A s \in Logins : Crowded(s) => s \in raced \cup lost

\* Only another refresh makes the token of one on its way older.
OldIsRaced == \A x \in Token : Abroad(x) /\ x.age > 0 => x.session \in raced \cup lost

\* A token that would be taken for a stolen one was on its way for too long.
Late(x) == x.age = 2 \/ (x.age = 1 /\ x.session \notin fresh /\ session[x.session] = "live")
LateIsOvertaken == \A x \in Token : Abroad(x) /\ Late(x) => x.session \in overtaken \cup lost

\* So was the answer a cookie waits for that is older than the grace.
AnswerIsFresh ==
  \A t \in Tabs : \A s \in Logins :
    Refreshing(t, "answered") /\ Carries(t, s) /\ session[s] = "live" /\ s \notin fresh
      => s \in overtaken \cup lost

\* Nothing rotates while an answer is on its way to a tab: the cookie is at most
\* one rotation behind.
CookieIsPrevious == \A s \in Logins : Of(jar.token, s) /\ jar.token.age = 2 => s \in lost

ReuseOK ==
  CrowdIsRaced /\ OldIsRaced /\ LateIsOvertaken /\ AnswerIsFresh /\ CookieIsPrevious /\ NoFalseReuse

IInv ==
  TypeOK /\ NoLostWaiter /\ Known /\ AnswerIsNewest /\ LoginIsFirst /\ JarIsNewest
    /\ NothingCrosses /\ LogoutHolds /\ Over /\ ReuseOK

-----------------------------------------------------------------------------
(* Tokens and calls *)

\* Rotation makes the tokens of its session older, and leaves the others.
LEMMA AgedToken ==
  ASSUME NEW x \in Token \cup {None}, NEW s \in Logins
  PROVE  /\ Aged(x, s) \in Token \cup {None}
         /\ Aged(x, s) = None <=> x = None
         /\ x # None => Aged(x, s).session = x.session
         /\ x # None /\ x.session # s => Aged(x, s) = x
         /\ Of(x, s) => Aged(x, s).age > 0
<1>1. CASE x = None \/ ~Of(x, s)
  BY <1>1 DEF Aged, Of
<1>2. CASE x # None /\ Of(x, s)
  <2>1. x \in Token /\ Older(x.age) \in Ages /\ Older(x.age) > 0
    BY <1>2 DEF Token, Older, Ages
  <2>2. Aged(x, s) = [session |-> x.session, age |-> Older(x.age)]
    BY <1>2, <2>1 DEF Aged, Token
  <2>3. Aged(x, s) \in Token
    BY <2>1, <2>2 DEF Token
  <2>. QED
    BY <1>2, <2>1, <2>2, <2>3, ClientSessionAssumption DEF Of
<1>. QED
  BY <1>1, <1>2

LEMMA AgedRefresh ==
  ASSUME NEW c \in Refresh \cup {None}, NEW s \in Logins
  PROVE  /\ AgedCall(c, s) \in Refresh \cup {None}
         /\ AgedCall(c, s) = None <=> c = None
         /\ c # None => AgedCall(c, s).step = c.step /\ AgedCall(c, s).token = Aged(c.token, s)
<1>1. CASE c = None
  BY <1>1 DEF AgedCall
<1>2. CASE c # None
  <2>1. c \in Refresh /\ c.token \in Token \cup {None}
    BY <1>2 DEF Refresh
  <2>2. AgedCall(c, s) = [step |-> c.step, token |-> Aged(c.token, s)]
    BY <1>2, <2>1 DEF AgedCall, Refresh
  <2>3. AgedCall(c, s) \in Refresh
    BY <2>1, <2>2, AgedToken, ClientSessionAssumption DEF Refresh
  <2>. QED
    BY <1>2, <2>2, <2>3, ClientSessionAssumption
<1>. QED
  BY <1>1, <1>2

LEMMA AgedSign ==
  ASSUME NEW c \in Login \cup Logout \cup {None}, NEW s \in Logins
  PROVE  /\ AgedCall(c, s) \in Login \cup Logout \cup {None}
         /\ AgedCall(c, s) = None <=> c = None
         /\ c # None => /\ AgedCall(c, s).kind = c.kind /\ AgedCall(c, s).step = c.step
                        /\ AgedCall(c, s).token = Aged(c.token, s)
                        /\ c.kind = "logout" => AgedCall(c, s).clean = c.clean
<1>1. CASE c = None
  BY <1>1 DEF AgedCall
<1>2. CASE c # None
  <2>1. c.token \in Token /\ Aged(c.token, s) \in Token
    BY <1>2, AgedToken, ClientSessionAssumption DEF Login, Logout
  <2>2. CASE c \in Login
    <3>1. AgedCall(c, s) = [kind |-> "login", step |-> "answered", token |-> Aged(c.token, s)]
      BY <1>2, <2>2 DEF AgedCall, Login
    <3>. QED
      BY <1>2, <2>1, <2>2, <3>1, ClientSessionAssumption DEF Login
  <2>3. CASE c \in Logout
    <3>1. AgedCall(c, s) = [kind |-> "logout", step |-> c.step, token |-> Aged(c.token, s), clean |-> c.clean]
      BY <1>2, <2>3 DEF AgedCall, Logout
    <3>2. AgedCall(c, s) \in Logout
      BY <2>1, <2>3, <3>1 DEF Logout
    <3>. QED
      BY <1>2, <2>1, <2>3, <3>1, <3>2, ClientSessionAssumption DEF Logout
  <2>. QED
    BY <1>2, <2>2, <2>3
<1>. QED
  BY <1>1, <1>2

\* The calls of a tab after a rotation.
LEMMA AgedTabs ==
  ASSUME TypeOK, NEW t \in Tabs, NEW s \in Logins
  PROVE  /\ AgedTab(tab[t], s) \in Tab
         /\ AgedTab(tab[t], s).status = tab[t].status
         /\ AgedTab(tab[t], s).refresh = AgedCall(tab[t].refresh, s)
         /\ AgedTab(tab[t], s).sign = AgedCall(tab[t].sign, s)
<1>1. tab[t] \in Tab
  BY DEF TypeOK
<1>2. AgedTab(tab[t], s) = [status |-> tab[t].status, refresh |-> AgedCall(tab[t].refresh, s),
                            sign |-> AgedCall(tab[t].sign, s)]
  BY <1>1 DEF AgedTab, Page, Tab
<1>3. /\ AgedCall(tab[t].refresh, s) \in Refresh \cup {None}
      /\ AgedCall(tab[t].sign, s) \in Login \cup Logout \cup {None}
  BY <1>1, AgedRefresh, AgedSign DEF Tab
<1>. QED
  BY <1>1, <1>2, <1>3 DEF Tab

\* A call that crosses a logout spoils it, and changes nothing else.
LEMMA CrossedSign ==
  ASSUME TypeOK, NEW t \in Tabs
  PROVE  /\ Crossed(tab[t]) \in Tab
         /\ Crossed(tab[t]).status = tab[t].status
         /\ Crossed(tab[t]).refresh = tab[t].refresh
         /\ Crossed(tab[t]).sign = None <=> tab[t].sign = None
         /\ tab[t].sign # None =>
              /\ Crossed(tab[t]).sign.kind = tab[t].sign.kind
              /\ Crossed(tab[t]).sign.step = tab[t].sign.step
              /\ Crossed(tab[t]).sign.token = tab[t].sign.token
              /\ tab[t].sign.kind = "logout" => ~Crossed(tab[t]).sign.clean
<1>. DEFINE c == tab[t].sign
<1>1. tab[t] \in Tab
  BY DEF TypeOK
<1>2. Crossed(tab[t]) = [status |-> tab[t].status, refresh |-> tab[t].refresh, sign |-> CrossedCall(c)]
  BY <1>1 DEF Crossed, Page, Tab
<1>3. c \in Login \cup Logout \cup {None}
  BY <1>1 DEF Tab
<1>. HIDE DEF c
<1>4. /\ CrossedCall(c) \in Login \cup Logout \cup {None}
      /\ CrossedCall(c) = None <=> c = None
      /\ c # None =>
           /\ CrossedCall(c).kind = c.kind /\ CrossedCall(c).step = c.step
           /\ CrossedCall(c).token = c.token
           /\ c.kind = "logout" => ~CrossedCall(c).clean
  <2>1. CASE c = None
    BY <2>1 DEF CrossedCall
  <2>2. CASE c # None /\ c \in Login
    BY <2>2 DEF CrossedCall, Login
  <2>3. CASE c # None /\ c \in Logout
    <3>1. CrossedCall(c) = [kind |-> "logout", step |-> c.step, token |-> c.token, clean |-> FALSE]
      BY <2>3 DEF CrossedCall, Logout
    <3>2. CrossedCall(c) \in Logout
      BY <2>3, <3>1 DEF Logout
    <3>3. c.kind = "logout"
      BY <2>3 DEF Logout
    <3>4. CrossedCall(c) # None
      BY <3>2, ClientSessionAssumption
    <3>. QED
      BY <2>3, <3>1, <3>2, <3>3, <3>4
  <2>. QED
    BY <1>3, <2>1, <2>2, <2>3
<1>. QED
  BY <1>1, <1>2, <1>4 DEF c, Tab

-----------------------------------------------------------------------------
(* What steps make of the tabs *)

LEMMA TabsWithoutRefresh ==
  ASSUME TypeOK, NEW t \in Tabs
  PROVE  /\ WithoutRefresh(t) \in [Tabs -> Tab]
         /\ \A u \in Tabs : /\ WithoutRefresh(t)[u].sign = tab[u].sign
                            /\ WithoutRefresh(t)[u].refresh = IF u = t THEN None ELSE tab[u].refresh
<1>1. StatusAfterRefusal(t) \in {"loading", "authenticated", "anonymous"}
  BY DEF StatusAfterRefusal, TypeOK, Tab
<1>. QED
  BY <1>1 DEF WithoutRefresh, Page, TypeOK, Tab

LEMMA TabsSigned ==
  ASSUME TypeOK, NEW t \in Tabs, NEW status \in {"authenticated", "anonymous"}
  PROVE  /\ Signed(t, status) \in [Tabs -> Tab]
         /\ \A u \in Tabs : /\ Signed(t, status)[u].refresh = tab[u].refresh
                            /\ Signed(t, status)[u].sign = IF u = t THEN None ELSE tab[u].sign
BY DEF Signed, Page, TypeOK, Tab

LEMMA AskedType ==
  ASSUME NEW t \in Tabs, NEW kind \in {"me", "other"}, NEW retry \in BOOLEAN,
         NEW cookies \in [token : Token \cup {None}, access : BOOLEAN],
         cookies.access => cookies.token # None
  PROVE  /\ Asked(t, kind, retry, cookies) \in Request
         /\ ~Asked(t, kind, retry, cookies).waiting
         /\ Asked(t, kind, retry, cookies).tab = t
BY DEF Asked, Request, Token

LEMMA LeftBehind ==
  ASSUME TypeOK, NEW t \in Tabs
  PROVE  /\ Unheard(t) \subseteq Token
         /\ Wasted(tab[t].refresh) \subseteq Logins
         /\ Wasted(tab[t].sign) \subseteq Logins
<1>1. tab[t].refresh \in Refresh \cup {None} /\ tab[t].sign \in Login \cup Logout \cup {None}
  BY DEF TypeOK, Tab
<1>2. Unheard(t) \subseteq Token
  BY <1>1 DEF Unheard, Refresh
<1>3. Wasted(tab[t].refresh) \subseteq Logins
  BY <1>1, ClientSessionAssumption DEF Wasted, Refresh, Token
<1>4. Wasted(tab[t].sign) \subseteq Logins
  BY <1>1 DEF Wasted, Login, Logout, Token
<1>. QED
  BY <1>2, <1>3, <1>4

-----------------------------------------------------------------------------
(* Types *)

LEMMA ServiceTypes ==
  ASSUME TypeOK
  PROVE  /\ \A s \in Logins : Rotated(s) =>
              /\ session' \in [Logins -> {"absent", "live", "revoked", "reused"}]
              /\ fresh' \subseteq Logins /\ overtaken' \subseteq Logins
         /\ \A x \in Token : Refused(x) \/ LoggedOut(x) =>
              /\ session' \in [Logins -> {"absent", "live", "revoked", "reused"}]
              /\ fresh' \subseteq Logins /\ overtaken' \subseteq Logins
BY DEF TypeOK, Rotated, Refused, LoggedOut, End, Token

LEMMA TabTypes ==
  ASSUME TypeOK, NEW t \in Tabs, Load(t) \/ Ask(t) \/ Carried(t)
  PROVE  TypeOK'
<1>1. CASE Load(t)
  <2>1. request' \in [Requests -> Request \cup {None}]
    <3>1. Asked(t, "me", TRUE, jar) \in Request
      BY AskedType DEF TypeOK
    <3>. QED
      BY <1>1, <3>1 DEF Load, TypeOK
  <2>2. tab' \in [Tabs -> Tab]
    BY <1>1 DEF Load, Page, Tab, TypeOK
  <2>3. orphans' \subseteq Token /\ lost' \subseteq Logins
    BY <1>1, LeftBehind DEF Load, TypeOK
  <2>. QED
    BY <1>1, <2>1, <2>2, <2>3 DEF Load, TypeOK, service
<1>2. CASE Ask(t)
  <2>1. request' \in [Requests -> Request \cup {None}]
    <3>1. Asked(t, "other", TRUE, jar) \in Request
      BY AskedType DEF TypeOK
    <3>. QED
      BY <1>2, <3>1 DEF Ask, TypeOK
  <2>. QED
    BY <1>2, <2>1 DEF Ask, TypeOK, service
<1>3. GiveUp(t) => request' \in [Requests -> Request \cup {None}]
  BY DEF GiveUp, TypeOK
<1>4. CASE Rotate(t)
  <2>. DEFINE s == tab[t].refresh.token.session
              answer == [step |-> "answered", token |-> [session |-> s, age |-> 0]]
  <2>1. s \in Logins /\ answer \in Refresh
    BY <1>4 DEF Rotate, Refreshing, TypeOK, Tab, Refresh, Token, Ages
  <2>2. jar' = [jar EXCEPT !.token = Aged(@, s)]
    BY <1>4 DEF Rotate
  <2>3. tab' = [u \in Tabs |-> IF u = t THEN [AgedTab(tab[t], s) EXCEPT !.refresh = answer]
                               ELSE AgedTab(tab[u], s)]
    BY <1>4 DEF Rotate
  <2>4. orphans' = {Aged(o, s) : o \in orphans} /\ UNCHANGED <<request, lost, raced, out>>
    BY <1>4 DEF Rotate
  <2>5. /\ session' \in [Logins -> {"absent", "live", "revoked", "reused"}]
        /\ fresh' \subseteq Logins /\ overtaken' \subseteq Logins
    BY <1>4, <2>1, ServiceTypes DEF Rotate
  <2>. HIDE DEF s, answer
  <2>6. jar' \in [token : Token \cup {None}, access : BOOLEAN] /\ (jar'.access => jar'.token # None)
    <3>1. jar.token \in Token \cup {None}
      BY DEF TypeOK
    <3>. QED
      BY <2>1, <2>2, <3>1, AgedToken DEF TypeOK
  <2>7. tab' \in [Tabs -> Tab]
    BY <2>1, <2>3, AgedTabs DEF Tab
  <2>8. orphans' \subseteq Token
    BY <2>1, <2>4, AgedToken, ClientSessionAssumption DEF TypeOK
  <2>. QED
    BY <2>4, <2>5, <2>6, <2>7, <2>8 DEF TypeOK
<1>5. CASE RefuseRefresh(t)
  <2>1. tab[t].refresh.token # None => tab[t].refresh.token \in Token
    BY <1>5 DEF RefuseRefresh, Refreshing, TypeOK, Tab, Refresh
  <2>2. /\ session' \in [Logins -> {"absent", "live", "revoked", "reused"}]
        /\ fresh' \subseteq Logins /\ overtaken' \subseteq Logins
    BY <1>5, <2>1, ServiceTypes DEF RefuseRefresh, service, TypeOK
  <2>. QED
    BY <1>3, <1>5, <2>2, TabsWithoutRefresh DEF RefuseRefresh, TypeOK
<1>6. CASE HearRefresh(t)
  <2>1. tab[t].refresh.token \in Token
    BY <1>6, ClientSessionAssumption DEF HearRefresh, Refreshing, TypeOK, Tab, Refresh
  <2>2. jar' \in [token : Token \cup {None}, access : BOOLEAN] /\ (jar'.access => jar'.token # None)
    BY <1>6, <2>1, ClientSessionAssumption DEF HearRefresh
  <2>3. request' \in [Requests -> Request \cup {None}]
    <3>1. ASSUME NEW r \in Waiting(t) PROVE Retried(request[r], jar') \in Request
      <4>1. request[r].tab \in Tabs /\ request[r].kind \in {"me", "other"}
        BY <3>1 DEF Waiting, Mine, TypeOK, Request
      <4>. QED
        BY <2>2, <4>1, AskedType DEF Retried
    <3>. QED
      BY <1>6, <3>1 DEF HearRefresh, GoOn, TypeOK
  <2>4. tab' \in [Tabs -> Tab]
    BY <1>6 DEF HearRefresh, TypeOK, Tab
  <2>. QED
    BY <1>6, <2>2, <2>3, <2>4 DEF HearRefresh, TypeOK, service
<1>7. CASE LoseRefresh(t)
  <2>1. orphans' \subseteq Token /\ lost' \subseteq Logins
    BY <1>7, LeftBehind DEF LoseRefresh, TypeOK
  <2>. QED
    BY <1>3, <1>7, <2>1, TabsWithoutRefresh DEF LoseRefresh, TypeOK, service
<1>. QED
  BY <1>1, <1>2, <1>4, <1>5, <1>6, <1>7 DEF Carried

LEMMA SignTypes ==
  ASSUME TypeOK, NEW t \in Tabs,
         \/ SignIn(t) \/ HearLogin(t) \/ FailLogin(t)
         \/ SignOut(t) \/ EndSession(t) \/ HearLogout(t) \/ LoseLogout(t)
  PROVE  TypeOK'
<1>1. tab[t].sign # None => tab[t].sign.token \in Token /\ tab[t].sign \in Login \cup Logout
  BY DEF TypeOK, Tab, Login, Logout
<1>2. CASE SignIn(t)
  <2>1. PICK s \in Logins :
          /\ session' = [session EXCEPT ![s] = "live"]
          /\ tab' = [CrossedTabs EXCEPT ![t] = Page(@.status, @.refresh,
               [kind |-> "login", step |-> "answered", token |-> [session |-> s, age |-> 0]])]
    BY <1>2 DEF SignIn
  <2>2. [kind |-> "login", step |-> "answered", token |-> [session |-> s, age |-> 0]] \in Login
    BY DEF Login, Token, Ages
  <2>3. tab' \in [Tabs -> Tab]
    <3>1. CrossedTabs \in [Tabs -> Tab]
      BY CrossedSign DEF CrossedTabs
    <3>. QED
      BY <2>1, <2>2, <3>1 DEF Page, Tab
  <2>. QED
    BY <1>2, <2>1, <2>3 DEF SignIn, TypeOK
<1>3. CASE HearLogin(t)
  BY <1>1, <1>3, TabsSigned, ClientSessionAssumption DEF HearLogin, Signing, TypeOK, service
<1>4. CASE FailLogin(t)
  BY <1>4, TabsSigned, LeftBehind DEF FailLogin, TypeOK, service
<1>5. CASE SignOut(t)
  <2>1. jar.token \in Token
    BY <1>5 DEF SignOut, TypeOK
  <2>2. ASSUME NEW clean \in BOOLEAN
        PROVE  [kind |-> "logout", step |-> "sent", token |-> jar.token, clean |-> clean] \in Logout
    BY <2>1 DEF Logout
  <2>3. PICK clean \in BOOLEAN :
          tab' = [tab EXCEPT ![t].sign = [kind |-> "logout", step |-> "sent", token |-> jar.token,
                                          clean |-> clean]]
    BY <1>5, Zenon DEF SignOut
  <2>4. tab' \in [Tabs -> Tab]
    BY <2>2, <2>3 DEF TypeOK, Tab
  <2>. QED
    BY <1>5, <2>4 DEF SignOut, TypeOK, service
<1>6. CASE EndSession(t)
  <2>1. tab[t].sign \in Logout
    BY <1>1, <1>6 DEF EndSession, Signing, Login
  <2>2. [tab[t].sign EXCEPT !.step = "answered"] \in Logout
    BY <2>1 DEF Logout
  <2>3. tab' \in [Tabs -> Tab]
    BY <1>6, <2>2 DEF EndSession, TypeOK, Tab
  <2>4. LoggedOut(tab[t].sign.token) /\ tab[t].sign.token \in Token
    BY <1>1, <1>6 DEF EndSession, Signing
  <2>. QED
    BY <1>6, <2>3, <2>4, ServiceTypes DEF EndSession, TypeOK
<1>7. CASE HearLogout(t)
  <2>1. out' \in Logins \cup {None}
    BY <1>1, <1>7 DEF HearLogout, Signing, Token, TypeOK
  <2>2. jar' = Cleared /\ tab' = Signed(t, "anonymous") /\ UNCHANGED <<request, orphans, lost, raced, service>>
    BY <1>7 DEF HearLogout
  <2>. QED
    BY <2>1, <2>2, TabsSigned DEF Cleared, TypeOK, service
<1>8. CASE LoseLogout(t)
  <2>1. jar' \in [token : Token \cup {None}, access : BOOLEAN] /\ (jar'.access => jar'.token # None)
    <3>1. Cleared \in [token : Token \cup {None}, access : BOOLEAN] /\ ~Cleared.access
      BY DEF Cleared
    <3>2. jar' = jar \/ jar' = Cleared
      BY <1>8 DEF LoseLogout
    <3>. QED
      BY <3>1, <3>2 DEF TypeOK
  <2>. QED
    BY <1>8, <2>1, TabsSigned DEF LoseLogout, TypeOK, service
<1>. QED
  BY <1>2, <1>3, <1>4, <1>5, <1>6, <1>7, <1>8

LEMMA OtherTypes ==
  ASSUME TypeOK,
         \/ \E r \in Requests : Answer(r)
         \/ \E o \in orphans : LateRefusal(o) \/ LateRotation(o)
         \/ Lapse
         \/ \E s \in Logins : GraceEnds(s) \/ EndElsewhere(s)
  PROVE  TypeOK'
<1>1. ASSUME NEW r \in Requests, Succeed(r) \/ Fail(r) PROVE TypeOK'
  <2>1. request[r] \in Request /\ request[r].tab \in Tabs
    BY <1>1 DEF Succeed, Fail, Sent, TypeOK, Request
  <2>2. \A ok \in BOOLEAN : StatusAfterMe(request[r], ok) \in {"loading", "authenticated", "anonymous"}
    BY <2>1 DEF StatusAfterMe, TypeOK, Tab
  <2>3. PICK ok \in BOOLEAN : Ended(r, ok)
    BY <1>1 DEF Succeed, Fail
  <2>4. tab' \in [Tabs -> Tab]
    BY <2>1, <2>2, <2>3 DEF Ended, TypeOK, Tab
  <2>. QED
    BY <2>3, <2>4 DEF Ended, TypeOK, service
<1>2. ASSUME NEW r \in Requests, Reject(r) PROVE TypeOK'
  <2>1. request[r] \in Request /\ request[r].tab \in Tabs
    BY <1>2 DEF Reject, Sent, TypeOK, Request
  <2>2. Parked(request[r]) \in Request
    BY <2>1 DEF Parked, Request
  <2>3. [step |-> "sent", token |-> jar.token] \in Refresh
    BY DEF TypeOK, Refresh
  <2>4. tab' \in [Tabs -> Tab]
    <3>1. CrossedTabs \in [Tabs -> Tab]
      BY CrossedSign DEF CrossedTabs
    <3>. QED
      BY <1>2, <2>1, <2>3, <3>1 DEF Reject, Page, TypeOK, Tab
  <2>. QED
    BY <1>2, <2>2, <2>4 DEF Reject, TypeOK, service
<1>3. ASSUME NEW o \in orphans, LateRefusal(o) PROVE TypeOK'
  BY <1>3, ServiceTypes DEF LateRefusal, TypeOK
<1>4. ASSUME NEW o \in orphans, LateRotation(o) PROVE TypeOK'
  <2>1. o.session \in Logins
    BY DEF TypeOK, Token
  <2>2. jar' \in [token : Token \cup {None}, access : BOOLEAN] /\ (jar'.access => jar'.token # None)
    <3>1. jar.token \in Token \cup {None}
      BY DEF TypeOK
    <3>. QED
      BY <1>4, <2>1, <3>1, AgedToken DEF LateRotation, TypeOK
  <2>3. tab' \in [Tabs -> Tab]
    BY <1>4, <2>1, AgedTabs DEF LateRotation
  <2>4. orphans' \subseteq Token
    BY <1>4, <2>1, AgedToken, ClientSessionAssumption DEF LateRotation, TypeOK
  <2>. QED
    BY <1>4, <2>1, <2>2, <2>3, <2>4, ServiceTypes DEF LateRotation, TypeOK
<1>5. CASE Lapse
  BY <1>5 DEF Lapse, TypeOK, service
<1>6. ASSUME NEW s \in Logins, GraceEnds(s) \/ EndElsewhere(s) PROVE TypeOK'
  BY <1>6 DEF GraceEnds, EndElsewhere, End, TypeOK
<1>. QED
  BY <1>1, <1>2, <1>3, <1>4, <1>5, <1>6 DEF Answer

LEMMA TypesNext == TypeOK /\ [Next]_vars => TypeOK'
<1>1. CASE UNCHANGED vars
  BY <1>1 DEF vars, service, TypeOK
<1>. QED
  BY <1>1, TabTypes, SignTypes, OtherTypes DEF Next

-----------------------------------------------------------------------------
(* Steps, tab by tab *)

LEMMA RotateEffect ==
  ASSUME TypeOK, NEW t \in Tabs, Rotate(t)
  PROVE  \E s \in Logins :
           /\ tab[t].refresh.step = "sent" /\ tab[t].refresh.token = [session |-> s, age |-> 0]
           /\ Carries(t, s)
           /\ jar'.token = Aged(jar.token, s)
           /\ tab'[t].refresh = [step |-> "answered", token |-> [session |-> s, age |-> 0]]
           /\ \A u \in Tabs : /\ u # t => tab'[u].refresh = AgedCall(tab[u].refresh, s)
                              /\ tab'[u].sign = AgedCall(tab[u].sign, s)
           /\ orphans' = {Aged(o, s) : o \in orphans}
           /\ UNCHANGED <<request, session, lost, out>>
<1>. DEFINE s == tab[t].refresh.token.session
<1>1. tab[t].refresh # None /\ tab[t].refresh.step = "sent" /\ tab[t].refresh.token \in Token
  BY DEF Rotate, Refreshing, TypeOK, Tab, Refresh
<1>2. s \in Logins /\ tab[t].refresh.token = [session |-> s, age |-> 0] /\ Carries(t, s)
  BY <1>1, ClientSessionAssumption DEF Rotate, Current, Token, Carries, Of
<1>3. /\ jar' = [jar EXCEPT !.token = Aged(@, s)]
      /\ orphans' = {Aged(o, s) : o \in orphans}
      /\ UNCHANGED <<request, session, lost, out>>
  BY DEF Rotate, Rotated
<1>4. jar'.token = Aged(jar.token, s)
  BY <1>3 DEF TypeOK
<1>5. tab' = [u \in Tabs |->
        IF u = t THEN [AgedTab(tab[t], s) EXCEPT
                         !.refresh = [step |-> "answered", token |-> [session |-> s, age |-> 0]]]
        ELSE AgedTab(tab[u], s)]
  BY DEF Rotate
<1>. HIDE DEF s
<1>6. /\ tab'[t].refresh = [step |-> "answered", token |-> [session |-> s, age |-> 0]]
      /\ tab'[t].sign = AgedCall(tab[t].sign, s)
  BY <1>2, <1>5, AgedTabs DEF Tab
<1>7. ASSUME NEW u \in Tabs, u # t
      PROVE  tab'[u].refresh = AgedCall(tab[u].refresh, s) /\ tab'[u].sign = AgedCall(tab[u].sign, s)
  BY <1>2, <1>5, <1>7, AgedTabs
<1>. QED
  BY <1>1, <1>2, <1>3, <1>4, <1>6, <1>7

LEMMA LateEffect ==
  ASSUME TypeOK, NEW o \in orphans, LateRotation(o)
  PROVE  \E s \in Logins :
           /\ o.session = s /\ o.age = 0
           /\ jar'.token = Aged(jar.token, s)
           /\ jar.token = None => jar' = jar
           /\ \A u \in Tabs : /\ tab'[u].refresh = AgedCall(tab[u].refresh, s)
                              /\ tab'[u].sign = AgedCall(tab[u].sign, s)
           /\ orphans' = {Aged(p, s) : p \in orphans \ {o}}
           /\ lost' = lost \cup {s}
           /\ UNCHANGED <<request, session, out>>
<1>1. o.session \in Logins /\ o.age = 0
  BY DEF LateRotation, Current, TypeOK, Token
<1>2. jar'.token = Aged(jar.token, o.session) /\ (jar.token = None => jar' = jar)
  <2>1. jar' = [jar EXCEPT !.token = Aged(@, o.session)]
    BY DEF LateRotation
  <2>2. Aged(None, o.session) = None
    BY DEF Aged, Of
  <2>. QED
    BY <2>1, <2>2 DEF TypeOK
<1>3. ASSUME NEW u \in Tabs
      PROVE  /\ tab'[u].refresh = AgedCall(tab[u].refresh, o.session)
             /\ tab'[u].sign = AgedCall(tab[u].sign, o.session)
  BY <1>1, AgedTabs DEF LateRotation
<1>. QED
  BY <1>1, <1>2, <1>3 DEF LateRotation, Rotated

LEMMA RejectEffect ==
  ASSUME TypeOK, NEW r \in Requests, Reject(r)
  PROVE  \E t \in Tabs :
           /\ t = request[r].tab
           /\ request' = [request EXCEPT ![r] = Parked(@)]
           /\ \/ /\ tab[t].refresh # None
                 /\ UNCHANGED tab
              \/ /\ tab[t].refresh = None
                 /\ tab'[t].refresh = [step |-> "sent", token |-> jar.token]
                 /\ \A u \in Tabs : u # t => tab'[u].refresh = tab[u].refresh
                 /\ \A u \in Tabs : tab'[u].sign = Crossed(tab[u]).sign
           /\ UNCHANGED <<jar, session, orphans, lost, out>>
<1>. DEFINE t == request[r].tab
<1>1. t \in Tabs
  BY DEF Reject, Sent, TypeOK, Request
<1>2. /\ request' = [request EXCEPT ![r] = Parked(@)]
      /\ UNCHANGED <<jar, session, orphans, lost, out>>
  BY DEF Reject, service
<1>3. CASE tab[t].refresh # None
  BY <1>1, <1>2, <1>3 DEF Reject, MustRefresh
<1>4. CASE tab[t].refresh = None
  <2>1. CrossedTabs \in [Tabs -> Tab]
    BY CrossedSign DEF CrossedTabs
  <2>2. tab' = [CrossedTabs EXCEPT ![t] = Page(@.status, [step |-> "sent", token |-> jar.token], @.sign)]
    BY <1>4 DEF Reject, MustRefresh
  <2>3. \A u \in Tabs : CrossedTabs[u].refresh = tab[u].refresh /\ CrossedTabs[u].sign = Crossed(tab[u]).sign
    BY CrossedSign DEF CrossedTabs
  <2>4. /\ tab'[t].refresh = [step |-> "sent", token |-> jar.token]
        /\ tab'[t].sign = CrossedTabs[t].sign
        /\ \A u \in Tabs : u # t => tab'[u] = CrossedTabs[u]
    BY <1>1, <2>1, <2>2 DEF Page
  <2>. QED
    BY <1>1, <1>2, <1>4, <2>3, <2>4
<1>. QED
  BY <1>3, <1>4

LEMMA SignInEffect ==
  ASSUME TypeOK, NEW t \in Tabs, SignIn(t)
  PROVE  \E s \in Logins :
           /\ session[s] = "absent" /\ session' = [session EXCEPT ![s] = "live"]
           /\ tab'[t].sign = [kind |-> "login", step |-> "answered", token |-> [session |-> s, age |-> 0]]
           /\ \A u \in Tabs : u # t => tab'[u].sign = Crossed(tab[u]).sign
           /\ \A u \in Tabs : tab'[u].refresh = tab[u].refresh
           /\ out' = None
           /\ UNCHANGED <<jar, request, orphans, lost>>
<1>1. PICK s \in Logins :
        /\ session[s] = "absent" /\ session' = [session EXCEPT ![s] = "live"]
        /\ tab' = [CrossedTabs EXCEPT ![t] = Page(@.status, @.refresh,
             [kind |-> "login", step |-> "answered", token |-> [session |-> s, age |-> 0]])]
  BY DEF SignIn
<1>2. CrossedTabs \in [Tabs -> Tab]
  BY CrossedSign DEF CrossedTabs
<1>3. \A u \in Tabs : CrossedTabs[u].refresh = tab[u].refresh /\ CrossedTabs[u].sign = Crossed(tab[u]).sign
  BY CrossedSign DEF CrossedTabs
<1>4. /\ tab'[t].sign = [kind |-> "login", step |-> "answered", token |-> [session |-> s, age |-> 0]]
      /\ tab'[t].refresh = CrossedTabs[t].refresh
      /\ \A u \in Tabs : u # t => tab'[u] = CrossedTabs[u]
  BY <1>1, <1>2 DEF Page
<1>5. \A u \in Tabs : tab'[u].refresh = tab[u].refresh
  BY <1>3, <1>4
<1>6. \A u \in Tabs : u # t => tab'[u].sign = Crossed(tab[u]).sign
  BY <1>3, <1>4
<1>7. out' = None /\ UNCHANGED <<jar, request, orphans, lost>>
  BY DEF SignIn
<1>. QED
  BY <1>1, <1>4, <1>5, <1>6, <1>7

LEMMA LoadEffect ==
  ASSUME TypeOK, NEW t \in Tabs, Load(t)
  PROVE  /\ tab'[t].refresh = None /\ tab'[t].sign = None
         /\ \A u \in Tabs : u # t => tab'[u] = tab[u]
         /\ orphans' = orphans \cup Unheard(t)
         /\ lost' = lost \cup Wasted(tab[t].refresh)
                         \cup (IF tab[t].sign = None THEN {} ELSE
                                 IF tab[t].sign.kind = "login" THEN Wasted(tab[t].sign) ELSE {})
         /\ UNCHANGED <<jar, session, out>>
BY DEF Load, Page, TypeOK, service

-----------------------------------------------------------------------------
(* Requests that wait *)

LEMMA WaitersNext == TypeOK /\ NoLostWaiter /\ [Next]_vars => NoLostWaiter'
<1>. SUFFICES ASSUME TypeOK, NoLostWaiter, [Next]_vars, NEW u \in Tabs, tab'[u].refresh = None
              PROVE  Waiting(u)' = {}
  BY DEF NoLostWaiter
<1>. USE DEF Waiting, Mine
\* No refresh ends, and no request begins to wait.
<1>1. ASSUME tab'[u].refresh = None => tab[u].refresh = None, UNCHANGED request
      PROVE  Waiting(u)' = {}
  BY <1>1 DEF NoLostWaiter
<1>2. ASSUME NEW t \in Tabs, Load(t) PROVE Waiting(u)' = {}
  <2>1. u # t => tab[u].refresh = None
    BY <1>2 DEF Load, TypeOK
  <2>2. ~Asked(t, "me", TRUE, jar).waiting /\ Asked(t, "me", TRUE, jar).tab = t
    BY AskedType DEF TypeOK
  <2>3. PICK r \in Requests :
          request' = [q \in Requests |-> IF q = r THEN Asked(t, "me", TRUE, jar)
                                         ELSE IF q \in Mine(t) THEN None ELSE request[q]]
    BY <1>2, Zenon DEF Load
  <2>4. ASSUME NEW q \in Waiting(u)' PROVE FALSE
    <3>1. q \in Requests /\ request'[q] # None /\ request'[q].tab = u /\ request'[q].waiting
      BY <2>4
    <3>2. request'[q] = request[q] /\ q \notin Mine(t)
      BY <2>2, <2>3, <3>1
    <3>3. q \in Waiting(u) /\ u # t
      BY <3>1, <3>2
    <3>. QED
      BY <2>1, <3>3 DEF NoLostWaiter
  <2>. QED
    BY <2>4, Zenon
<1>3. ASSUME NEW t \in Tabs, Ask(t) PROVE Waiting(u)' = {}
  <2>1. ~Asked(t, "other", TRUE, jar).waiting
    BY AskedType DEF TypeOK
  <2>2. PICK r \in Requests : request' = [request EXCEPT ![r] = Asked(t, "other", TRUE, jar)]
    BY <1>3 DEF Ask
  <2>3. Waiting(u) = {}
    BY <1>3 DEF Ask, NoLostWaiter
  <2>4. ASSUME NEW q \in Waiting(u)' PROVE FALSE
    <3>1. q \in Requests /\ request'[q] # None /\ request'[q].tab = u /\ request'[q].waiting
      BY <2>4
    <3>2. request'[q] = request[q]
      BY <2>1, <2>2, <3>1 DEF TypeOK
    <3>. QED
      BY <2>3, <3>1, <3>2
  <2>. QED
    BY <2>4
\* A refresh that ends leaves nobody behind.
<1>4. ASSUME NEW t \in Tabs, GiveUp(t), u # t => tab[u].refresh = None PROVE Waiting(u)' = {}
  BY <1>4 DEF GiveUp, NoLostWaiter, TypeOK
<1>5. ASSUME NEW t \in Tabs, RefuseRefresh(t) \/ LoseRefresh(t) PROVE Waiting(u)' = {}
  BY <1>4, <1>5, TabsWithoutRefresh DEF RefuseRefresh, LoseRefresh
<1>6. ASSUME NEW t \in Tabs, HearRefresh(t) PROVE Waiting(u)' = {}
  <2>1. u # t => tab[u].refresh = None
    BY <1>6 DEF HearRefresh, TypeOK
  <2>2. \A r \in Waiting(t) : ~Retried(request[r], jar').waiting
    BY DEF Retried, Asked
  <2>3. request' = [r \in Requests |-> IF r \in Waiting(t) THEN Retried(request[r], jar') ELSE request[r]]
    BY <1>6 DEF HearRefresh, GoOn
  <2>. QED
    BY <2>1, <2>2, <2>3 DEF NoLostWaiter, TypeOK
<1>7. \A v \in Tabs, s \in Logins : AgedCall(tab[v].refresh, s) = None => tab[v].refresh = None
  BY AgedRefresh DEF TypeOK, Tab
<1>8. ASSUME NEW t \in Tabs, Rotate(t) PROVE Waiting(u)' = {}
  <2>1. tab'[u].refresh = None => tab[u].refresh = None
    <3>1. PICK s \in Logins :
            /\ tab'[t].refresh = [step |-> "answered", token |-> [session |-> s, age |-> 0]]
            /\ \A v \in Tabs : v # t => tab'[v].refresh = AgedCall(tab[v].refresh, s)
      BY <1>8, RotateEffect
    <3>2. tab'[t].refresh # None
      BY <3>1, ClientSessionAssumption DEF Refresh, Token, Ages
    <3>. QED
      BY <1>7, <3>1, <3>2
  <2>. QED
    BY <1>1, <1>8, <2>1 DEF Rotate
<1>9. ASSUME NEW o \in orphans, LateRotation(o) PROVE Waiting(u)' = {}
  BY <1>1, <1>7, <1>9, LateEffect DEF LateRotation
<1>10. ASSUME NEW r \in Requests, Reject(r) PROVE Waiting(u)' = {}
  <2>1. PICK t \in Tabs :
          /\ t = request[r].tab /\ request' = [request EXCEPT ![r] = Parked(@)]
          /\ \/ tab[t].refresh # None /\ UNCHANGED tab
             \/ /\ tab'[t].refresh = [step |-> "sent", token |-> jar.token]
                /\ \A v \in Tabs : v # t => tab'[v].refresh = tab[v].refresh
    BY <1>10, RejectEffect
  <2>2. u # t /\ tab[u].refresh = None
    BY <2>1, ClientSessionAssumption DEF Refresh, TypeOK
  <2>3. Parked(request[r]).tab = t
    BY <2>1 DEF Parked
  <2>. QED
    BY <2>1, <2>2, <2>3 DEF NoLostWaiter, TypeOK
<1>11. ASSUME NEW r \in Requests, Succeed(r) \/ Fail(r) PROVE Waiting(u)' = {}
  BY <1>11 DEF Succeed, Fail, Ended, NoLostWaiter, TypeOK, Tab
<1>12. ASSUME NEW t \in Tabs,
              \/ SignIn(t) \/ HearLogin(t) \/ FailLogin(t)
              \/ SignOut(t) \/ EndSession(t) \/ HearLogout(t) \/ LoseLogout(t)
       PROVE  Waiting(u)' = {}
  <2>1. UNCHANGED request
    BY <1>12 DEF SignIn, HearLogin, FailLogin, SignOut, EndSession, HearLogout, LoseLogout
  <2>2. tab'[u].refresh = tab[u].refresh
    <3>1. CASE SignIn(t)
      BY <3>1, SignInEffect
    <3>2. CASE HearLogin(t) \/ FailLogin(t) \/ HearLogout(t) \/ LoseLogout(t)
      BY <3>2, TabsSigned DEF HearLogin, FailLogin, HearLogout, LoseLogout
    <3>3. CASE SignOut(t) \/ EndSession(t)
      BY <3>3 DEF SignOut, EndSession, TypeOK, Tab
    <3>. QED
      BY <1>12, <3>1, <3>2, <3>3
  <2>. QED
    BY <1>1, <2>1, <2>2
<1>13. CASE \/ \E o \in orphans : LateRefusal(o)
            \/ \E s \in Logins : GraceEnds(s) \/ EndElsewhere(s)
            \/ Lapse \/ UNCHANGED vars
  BY <1>1, <1>13 DEF LateRefusal, Lapse, GraceEnds, EndElsewhere, vars
<1>. QED
  BY <1>2, <1>3, <1>5, <1>6, <1>8, <1>9, <1>10, <1>11, <1>12, <1>13 DEF Next, Answer, Carried

-----------------------------------------------------------------------------
(* Tokens and logouts *)

TokensOK == Known /\ AnswerIsNewest /\ LoginIsFirst /\ JarIsNewest
LogoutsOK == NothingCrosses /\ LogoutHolds /\ Over

\* Steps that bring no token and start nothing: calls and sessions end, what a
\* page leaves behind becomes an orphan, and tokens get lost.
LEMMA QuietStep ==
  ASSUME TypeOK, TypeOK', TokensOK, LogoutsOK,
         jar' = jar \/ (jar.access /\ jar'.token = jar.token), UNCHANGED out, lost \subseteq lost',
         \A s \in Logins : session'[s] = session[s]
                           \/ (session[s] = "live" /\ session'[s] \notin {"absent", "live"}),
         \A u \in Tabs : tab'[u].refresh \in {tab[u].refresh, None},
         \A u \in Tabs : Refreshing(u, "answered") /\ tab'[u].refresh # tab[u].refresh
                           => tab[u].refresh.token.session \in lost',
         \A u \in Tabs : tab'[u].sign \in {tab[u].sign, None},
         \A o \in orphans' :
           o \in orphans \/ \E u \in Tabs : Refreshing(u, "sent") /\ o = tab[u].refresh.token
                                            /\ tab'[u].refresh = None
  PROVE  TokensOK' /\ LogoutsOK'
<1>1. /\ \A u \in Tabs, s \in Logins : Carries(u, s)' => Carries(u, s) /\ tab'[u].refresh = tab[u].refresh
      /\ \A u \in Tabs : \A step : Refreshing(u, step)' => Refreshing(u, step) /\ tab'[u].refresh = tab[u].refresh
      /\ \A u \in Tabs : \A kind, step : Signing(u, kind, step)' => Signing(u, kind, step) /\ tab'[u].sign = tab[u].sign
      /\ \A s \in Logins : Of(jar.token, s)' <=> Of(jar.token, s)
  BY DEF Carries, Refreshing, Signing, Of
<1>2. \A o \in orphans' : o \in orphans \/ \E u \in Tabs : Refreshing(u, "sent") /\ Carries(u, o.session)
                                                         /\ o = tab[u].refresh.token
  BY ClientSessionAssumption DEF Carries, Of, Refreshing, TypeOK
<1>3. Known'
  BY <1>1, <1>2 DEF TokensOK, Known, TypeOK
<1>4. AnswerIsNewest'
  <2>. SUFFICES ASSUME NEW t \in Tabs, Refreshing(t, "answered")'
                PROVE  LET s == tab[t].refresh.token.session
                       IN /\ tab[t].refresh.token.age = 0
                          /\ Of(jar.token, s)' => jar'.token.age > 0
                          /\ \A u \in Tabs \ {t} : Carries(u, s)' => tab[u].refresh.token.age > 0
                          /\ \A o \in orphans' : o.session = s => o.age > 0
    BY <1>1 DEF AnswerIsNewest, Carries
  <2>1. Refreshing(t, "answered") /\ tab[t].refresh.token.session \in Logins
    BY <1>1, ClientSessionAssumption DEF Refreshing, TypeOK, Tab, Refresh, Token
  <2>2. \A u \in Tabs : Refreshing(u, "sent") => u # t
    BY <2>1 DEF Refreshing
  <2>. QED
    BY <1>1, <1>2, <2>1, <2>2 DEF TokensOK, AnswerIsNewest
<1>5. LoginIsFirst'
  <2>. SUFFICES ASSUME NEW t \in Tabs, Signing(t, "login", "answered")'
                PROVE  LET s == tab[t].sign.token.session
                       IN /\ tab[t].sign.token.age = 0
                          /\ ~Of(jar.token, s)'
                          /\ \A u \in Tabs : ~Carries(u, s)'
                          /\ \A u \in Tabs \ {t} : Signing(u, "login", "answered")'
                               => tab'[u].sign.token.session # s
                          /\ \A o \in orphans' : o.session # s
    BY <1>1 DEF LoginIsFirst
  <2>1. Signing(t, "login", "answered") /\ tab[t].sign.token.session \in Logins
    BY <1>1 DEF Signing, TypeOK, Tab, Login, Logout, Token
  <2>. QED
    BY <1>1, <1>2, <2>1 DEF TokensOK, LoginIsFirst
<1>6. JarIsNewest'
  BY <1>1 DEF TokensOK, JarIsNewest, Carries, Refreshing, Of
<1>7. NothingCrosses'
  <2>1. \A t \in Tabs : CleanLogout(t)' => CleanLogout(t) /\ tab'[t].sign = tab[t].sign
    BY DEF CleanLogout
  <2>2. \A t \in Tabs : CleanLogout(t) => tab[t].sign.token.session \in Logins
    BY DEF CleanLogout, TypeOK, Tab, Login, Logout, Token
  <2>. QED
    BY <1>1, <2>1, <2>2 DEF LogoutsOK, NothingCrosses
<1>8. LogoutHolds'
  BY DEF LogoutsOK, LogoutHolds, TypeOK
<1>9. Over'
  BY <1>1 DEF LogoutsOK, Over
<1>. QED
  BY <1>3, <1>4, <1>5, <1>6, <1>7, <1>8, <1>9 DEF TokensOK, LogoutsOK

LEMMA QuietNext ==
  ASSUME TypeOK, TypeOK', TokensOK, LogoutsOK,
         \/ \E t \in Tabs : Load(t) \/ Ask(t) \/ RefuseRefresh(t) \/ LoseRefresh(t) \/ FailLogin(t)
         \/ \E t \in Tabs : LoseLogout(t) /\ UNCHANGED jar
         \/ \E r \in Requests : Succeed(r) \/ Fail(r)
         \/ \E o \in orphans : LateRefusal(o)
         \/ \E s \in Logins : GraceEnds(s) \/ EndElsewhere(s)
         \/ Lapse \/ UNCHANGED vars
  PROVE  TokensOK' /\ LogoutsOK'
<1>1. \A x \in Token : Refused(x) =>
        \A s \in Logins : session'[s] = session[s]
                          \/ (session[s] = "live" /\ session'[s] \notin {"absent", "live"})
  BY DEF Refused, End, Token, TypeOK
<1>2. ASSUME NEW t \in Tabs, Load(t) PROVE TokensOK' /\ LogoutsOK'
  <2>1. Unheard(t) \subseteq IF Refreshing(t, "sent") THEN {tab[t].refresh.token} ELSE {}
    BY DEF Unheard, Refreshing
  <2>2. Refreshing(t, "answered") => tab[t].refresh.token.session \in lost'
    BY <1>2, LoadEffect DEF Refreshing, Wasted
  <2>. QED
    BY <1>2, <2>1, <2>2, LoadEffect, QuietStep DEF Refreshing
<1>3. ASSUME NEW t \in Tabs, Ask(t) PROVE TokensOK' /\ LogoutsOK'
  BY <1>3, QuietStep DEF Ask, service
<1>4. ASSUME NEW t \in Tabs, RefuseRefresh(t) PROVE TokensOK' /\ LogoutsOK'
  <2>1. \A s \in Logins : session'[s] = session[s]
                          \/ (session[s] = "live" /\ session'[s] \notin {"absent", "live"})
    BY <1>1, <1>4 DEF RefuseRefresh, Refreshing, service, TypeOK, Tab, Refresh
  <2>2. \A u \in Tabs : Refreshing(u, "answered") => u # t
    BY <1>4 DEF RefuseRefresh, Refreshing
  <2>3. tab' = WithoutRefresh(t) /\ UNCHANGED <<jar, orphans, lost, out>>
    BY <1>4 DEF RefuseRefresh
  <2>. QED
    BY <2>1, <2>2, <2>3, TabsWithoutRefresh, QuietStep
<1>5. ASSUME NEW t \in Tabs, LoseRefresh(t) PROVE TokensOK' /\ LogoutsOK'
  <2>1. Unheard(t) \subseteq IF Refreshing(t, "sent") THEN {tab[t].refresh.token} ELSE {}
    BY DEF Unheard, Refreshing
  <2>2. Refreshing(t, "answered") => tab[t].refresh.token.session \in lost'
    BY <1>5 DEF LoseRefresh, Refreshing, Wasted
  <2>3. tab' = WithoutRefresh(t) /\ UNCHANGED <<jar, out, session>>
        /\ lost \subseteq lost' /\ orphans' \subseteq orphans \cup Unheard(t)
    BY <1>5 DEF LoseRefresh, service
  <2>. QED
    BY <2>1, <2>2, <2>3, TabsWithoutRefresh, QuietStep
<1>6. ASSUME NEW t \in Tabs, FailLogin(t) \/ (LoseLogout(t) /\ UNCHANGED jar)
      PROVE  TokensOK' /\ LogoutsOK'
  <2>1. tab' = Signed(t, "anonymous") /\ UNCHANGED <<jar, orphans, out, session>> /\ lost \subseteq lost'
    BY <1>6 DEF FailLogin, LoseLogout, service
  <2>. QED
    BY <2>1, TabsSigned, QuietStep
<1>7. ASSUME NEW r \in Requests, Succeed(r) \/ Fail(r) PROVE TokensOK' /\ LogoutsOK'
  <2>1. PICK ok \in BOOLEAN : Ended(r, ok)
    BY <1>7 DEF Succeed, Fail
  <2>2. \A u \in Tabs : tab'[u].refresh = tab[u].refresh /\ tab'[u].sign = tab[u].sign
    BY <2>1 DEF Ended, TypeOK, Tab
  <2>. QED
    BY <2>1, <2>2, QuietStep DEF Ended, service
<1>8. ASSUME NEW o \in orphans, LateRefusal(o) PROVE TokensOK' /\ LogoutsOK'
  <2>1. \A s \in Logins : session'[s] = session[s]
                          \/ (session[s] = "live" /\ session'[s] \notin {"absent", "live"})
    BY <1>1, <1>8 DEF LateRefusal, TypeOK
  <2>. QED
    BY <1>8, <2>1, QuietStep DEF LateRefusal
<1>9. ASSUME NEW s \in Logins, GraceEnds(s) \/ EndElsewhere(s) PROVE TokensOK' /\ LogoutsOK'
  <2>1. \A q \in Logins : session'[q] = session[q]
                          \/ (session[q] = "live" /\ session'[q] \notin {"absent", "live"})
    BY <1>9 DEF GraceEnds, EndElsewhere, End, TypeOK
  <2>. QED
    BY <1>9, <2>1, QuietStep DEF GraceEnds, EndElsewhere
<1>10. CASE Lapse
  BY <1>10, QuietStep DEF Lapse, service, TypeOK
<1>11. CASE UNCHANGED vars
  BY <1>11, QuietStep DEF vars, service
<1>. QED
  BY <1>2, <1>3, <1>4, <1>5, <1>6, <1>7, <1>8, <1>9, <1>10, <1>11

\* What a rotation of session s does to the tokens that are out.
LEMMA AgedTokens ==
  ASSUME NEW x \in Token \cup {None}, NEW s \in Logins, NEW q \in Logins
  PROVE  /\ Of(Aged(x, s), q) <=> Of(x, q)
         /\ Of(x, s) => Aged(x, s).age > 0
         /\ Of(x, q) /\ q # s => Aged(x, s) = x
BY AgedToken DEF Of

\* The calls of a tab that a rotation elsewhere does not answer.
LEMMA AgedCalls ==
  ASSUME TypeOK, NEW u \in Tabs, NEW s \in Logins,
         tab'[u].refresh = AgedCall(tab[u].refresh, s)
  PROVE  /\ \A q \in Logins : Carries(u, q)' <=> Carries(u, q)
         /\ \A step : Refreshing(u, step)' <=> Refreshing(u, step)
         /\ Carries(u, s) => tab'[u].refresh.token.age > 0
         /\ \A q \in Logins : Carries(u, q) /\ q # s => tab'[u].refresh.token = tab[u].refresh.token
<1>1. tab[u].refresh \in Refresh \cup {None}
  BY DEF TypeOK, Tab
<1>2. tab'[u].refresh = None <=> tab[u].refresh = None
  BY <1>1, AgedRefresh
<1>3. tab[u].refresh # None =>
        /\ tab[u].refresh.token \in Token \cup {None}
        /\ tab'[u].refresh.token = Aged(tab[u].refresh.token, s)
        /\ tab'[u].refresh.step = tab[u].refresh.step
  BY <1>1, AgedRefresh DEF Refresh
<1>4. \A step : Refreshing(u, step)' <=> Refreshing(u, step)
  BY <1>2, <1>3 DEF Refreshing
<1>5. \A q \in Logins : Carries(u, q)' <=> Carries(u, q)
  <2>. SUFFICES ASSUME NEW q \in Logins, tab[u].refresh # None
                PROVE  Of(tab'[u].refresh.token, q) <=> Of(tab[u].refresh.token, q)
    BY <1>2 DEF Carries
  <2>. QED
    BY <1>3, AgedTokens
<1>6. Carries(u, s) => tab'[u].refresh.token.age > 0
  BY <1>3, AgedTokens DEF Carries
<1>7. \A q \in Logins : Carries(u, q) /\ q # s => tab'[u].refresh.token = tab[u].refresh.token
  BY <1>3, AgedTokens DEF Carries
<1>. QED
  BY <1>4, <1>5, <1>6, <1>7

LEMMA AgedSigns ==
  ASSUME TypeOK, NEW u \in Tabs, NEW s \in Logins,
         tab'[u].sign = AgedCall(tab[u].sign, s)
  PROVE  /\ tab'[u].sign = None <=> tab[u].sign = None
         /\ tab[u].sign # None =>
              /\ tab'[u].sign.token.session = tab[u].sign.token.session
              /\ tab[u].sign.token.session \in Logins
              /\ tab[u].sign.token.session # s => tab'[u].sign.token = tab[u].sign.token
              /\ tab'[u].sign.step = tab[u].sign.step
         /\ \A kind, step : Signing(u, kind, step)' <=> Signing(u, kind, step)
         /\ CleanLogout(u)' <=> CleanLogout(u)
<1>1. tab[u].sign \in Login \cup Logout \cup {None}
  BY DEF TypeOK, Tab
<1>2. tab[u].sign # None => tab[u].sign.token \in Token /\ tab[u].sign.token.session \in Logins
  BY <1>1 DEF Login, Logout, Token
<1>3. tab[u].sign # None =>
        /\ tab'[u].sign.token.session = tab[u].sign.token.session
        /\ tab[u].sign.token.session # s => tab'[u].sign.token = tab[u].sign.token
  BY <1>1, <1>2, AgedSign, AgedToken, ClientSessionAssumption
<1>4. \A kind, step : Signing(u, kind, step)' <=> Signing(u, kind, step)
  BY <1>1, AgedSign DEF Signing
<1>5. CleanLogout(u)' <=> CleanLogout(u)
  BY <1>1, AgedSign DEF CleanLogout
<1>. QED
  BY <1>1, <1>2, <1>3, <1>4, <1>5, AgedSign

\* A refresh that rotates: its answer is the newest token, all others are old,
\* and neither a login's answer nor a clean logout is on its way.
LEMMA RotateStep ==
  ASSUME TypeOK, TypeOK', TokensOK, LogoutsOK, NEW t \in Tabs, Rotate(t)
  PROVE  TokensOK' /\ LogoutsOK'
<1>1. PICK s \in Logins :
        /\ tab[t].refresh.step = "sent" /\ tab[t].refresh.token = [session |-> s, age |-> 0]
        /\ Carries(t, s)
        /\ jar'.token = Aged(jar.token, s)
        /\ tab'[t].refresh = [step |-> "answered", token |-> [session |-> s, age |-> 0]]
        /\ \A u \in Tabs : /\ u # t => tab'[u].refresh = AgedCall(tab[u].refresh, s)
                           /\ tab'[u].sign = AgedCall(tab[u].sign, s)
        /\ orphans' = {Aged(o, s) : o \in orphans}
        /\ UNCHANGED <<request, session, lost, out>>
  BY RotateEffect
<1>2. /\ tab'[t].refresh # None /\ tab'[t].refresh.token # None
      /\ tab[t].refresh # None /\ tab[t].refresh.token # None
  BY <1>1, ClientSessionAssumption DEF Refresh, Token, Ages, Carries, Of
<1>3. /\ \A q \in Logins : (Carries(t, q)' <=> q = s) /\ (Carries(t, q) <=> q = s)
      /\ Refreshing(t, "answered")' /\ ~Refreshing(t, "answered")
  BY <1>1, <1>2 DEF Carries, Of, Refreshing
<1>4. \A u \in Tabs \ {t} :
        /\ \A q \in Logins : Carries(u, q)' <=> Carries(u, q)
        /\ \A step : Refreshing(u, step)' <=> Refreshing(u, step)
        /\ Carries(u, s) => tab'[u].refresh.token.age > 0
        /\ \A q \in Logins : Carries(u, q) /\ q # s => tab'[u].refresh.token = tab[u].refresh.token
  BY <1>1, AgedCalls
<1>5. \A u \in Tabs :
        /\ tab'[u].sign = None <=> tab[u].sign = None
        /\ tab[u].sign # None =>
             /\ tab'[u].sign.token.session = tab[u].sign.token.session
             /\ tab[u].sign.token.session \in Logins
             /\ tab[u].sign.token.session # s => tab'[u].sign.token = tab[u].sign.token
        /\ \A kind, step : Signing(u, kind, step)' <=> Signing(u, kind, step)
        /\ CleanLogout(u)' <=> CleanLogout(u)
  BY <1>1, AgedSigns
<1>6. /\ \A q \in Logins : Of(jar.token, q)' <=> Of(jar.token, q)
      /\ Of(jar.token, s) => jar'.token.age > 0
      /\ \A q \in Logins : Of(jar.token, q) /\ q # s => jar'.token = jar.token
  BY <1>1, AgedTokens DEF TypeOK
<1>7. \A o \in orphans' : /\ o.session = s => o.age > 0
                          /\ \E p \in orphans : p.session = o.session /\ (o.session # s => o = p)
  BY <1>1, AgedToken, ClientSessionAssumption DEF TypeOK, Of
<1>8. session[s] # "absent"
  BY <1>1 DEF TokensOK, Known
<1>9. Known'
  BY <1>1, <1>3, <1>4, <1>5, <1>6, <1>7, <1>8 DEF TokensOK, Known
<1>10. AnswerIsNewest'
  <2>1. ASSUME NEW v \in Tabs \ {t}, NEW q \in Logins, Refreshing(v, "answered"), Carries(v, q)
        PROVE  q # s
    <3>1. tab[v].refresh.token.session = q
      BY <2>1 DEF Carries, Of
    <3>. QED
      BY <1>1, <2>1, <3>1 DEF TokensOK, AnswerIsNewest
  <2>. SUFFICES ASSUME NEW v \in Tabs, Refreshing(v, "answered")', NEW q \in Logins, Carries(v, q)'
                PROVE  /\ tab'[v].refresh.token.age = 0
                       /\ Of(jar.token, q)' => jar'.token.age > 0
                       /\ \A u \in Tabs \ {v} : Carries(u, q)' => tab'[u].refresh.token.age > 0
                       /\ \A o \in orphans' : o.session = q => o.age > 0
    BY ClientSessionAssumption DEF AnswerIsNewest, Carries, Of, Refreshing, TypeOK, Tab, Refresh, Token
  <2>2. CASE v = t
    BY <1>1, <1>3, <1>4, <1>6, <1>7, <2>2
  <2>3. CASE v # t
    <3>1. Refreshing(v, "answered") /\ Carries(v, q) /\ q # s
      BY <1>4, <2>1, <2>3
    <3>2. tab[v].refresh.token.session = q
      BY <3>1 DEF Carries, Of
    <3>3. /\ tab[v].refresh.token.age = 0
          /\ Of(jar.token, q) => jar.token.age > 0
          /\ \A u \in Tabs \ {v} : Carries(u, q) => tab[u].refresh.token.age > 0
          /\ \A o \in orphans : o.session = q => o.age > 0
      BY <3>1, <3>2 DEF TokensOK, AnswerIsNewest
    <3>. QED
      BY <1>3, <1>4, <1>6, <1>7, <2>3, <3>1, <3>3
  <2>. QED
    BY <2>2, <2>3
<1>11. LoginIsFirst'
  <2>. SUFFICES ASSUME NEW v \in Tabs, Signing(v, "login", "answered"),
                       NEW q \in Logins, tab[v].sign.token.session = q
                PROVE  /\ tab'[v].sign.token.age = 0 /\ tab'[v].sign.token.session = q
                       /\ ~Of(jar.token, q)'
                       /\ \A u \in Tabs : ~Carries(u, q)'
                       /\ \A u \in Tabs \ {v} : Signing(u, "login", "answered")
                            => tab'[u].sign.token.session # q
                       /\ \A o \in orphans' : o.session # q
    <3>1. \A v \in Tabs : Signing(v, "login", "answered")' =>
            /\ Signing(v, "login", "answered")
            /\ tab'[v].sign.token.session = tab[v].sign.token.session
            /\ tab[v].sign.token.session \in Logins
      BY <1>5 DEF Signing
    <3>. QED
      BY <1>5, <3>1 DEF LoginIsFirst
  <2>1. /\ tab[v].sign.token.age = 0
        /\ ~Of(jar.token, q)
        /\ \A u \in Tabs : ~Carries(u, q)
        /\ \A u \in Tabs \ {v} : Signing(u, "login", "answered") => tab[u].sign.token.session # q
        /\ \A o \in orphans : o.session # q
    BY DEF TokensOK, LoginIsFirst
  <2>2. q # s /\ tab[v].sign # None
    BY <1>1, <2>1 DEF Signing
  <2>. QED
    BY <1>3, <1>4, <1>5, <1>6, <1>7, <2>1, <2>2 DEF Signing
<1>12. JarIsNewest'
  <2>. SUFFICES ASSUME NEW q \in Logins, Of(jar.token, q), jar'.token.age > 0
                PROVE  q \in lost \/ \E u \in Tabs : Refreshing(u, "answered")' /\ Carries(u, q)'
    BY <1>1, <1>6 DEF JarIsNewest
  <2>1. CASE q # s
    BY <1>3, <1>4, <1>6, <2>1 DEF TokensOK, JarIsNewest
  <2>. QED
    BY <1>3, <2>1
<1>13. \A v \in Tabs : ~CleanLogout(v)
  BY <1>2 DEF LogoutsOK, NothingCrosses
<1>14. out = None
  BY <1>1 DEF LogoutsOK, Over
<1>. QED
  BY <1>1, <1>5, <1>9, <1>10, <1>11, <1>12, <1>13, <1>14
     DEF TokensOK, LogoutsOK, NothingCrosses, LogoutHolds, Over

\* A rotation whose answer is lost: nobody holds the newest token any more.
LEMMA LateStep ==
  ASSUME TypeOK, TypeOK', TokensOK, LogoutsOK, NEW o \in orphans, LateRotation(o)
  PROVE  TokensOK' /\ LogoutsOK'
<1>1. PICK s \in Logins :
        /\ o.session = s /\ o.age = 0
        /\ jar'.token = Aged(jar.token, s)
        /\ jar.token = None => jar' = jar
        /\ \A u \in Tabs : /\ tab'[u].refresh = AgedCall(tab[u].refresh, s)
                           /\ tab'[u].sign = AgedCall(tab[u].sign, s)
        /\ orphans' = {Aged(p, s) : p \in orphans \ {o}}
        /\ lost' = lost \cup {s}
        /\ UNCHANGED <<request, session, out>>
  BY LateEffect
<1>2. \A u \in Tabs :
        /\ \A q \in Logins : Carries(u, q)' <=> Carries(u, q)
        /\ \A step : Refreshing(u, step)' <=> Refreshing(u, step)
        /\ \A q \in Logins : Carries(u, q) /\ q # s => tab'[u].refresh.token = tab[u].refresh.token
  BY <1>1, AgedCalls
<1>3. \A u \in Tabs :
        /\ tab'[u].sign = None <=> tab[u].sign = None
        /\ tab[u].sign # None =>
             /\ tab'[u].sign.token.session = tab[u].sign.token.session
             /\ tab[u].sign.token.session \in Logins
             /\ tab[u].sign.token.session # s => tab'[u].sign.token = tab[u].sign.token
             /\ tab'[u].sign.step = tab[u].sign.step
        /\ \A kind, step : Signing(u, kind, step)' <=> Signing(u, kind, step)
        /\ CleanLogout(u)' <=> CleanLogout(u)
  BY <1>1, AgedSigns
<1>4. /\ \A q \in Logins : Of(jar.token, q)' <=> Of(jar.token, q)
      /\ \A q \in Logins : Of(jar.token, q) /\ q # s => jar'.token = jar.token
  BY <1>1, AgedTokens DEF TypeOK
<1>5. \A p \in orphans' : \E r \in orphans : r.session = p.session /\ (p.session # s => p = r)
  <2>1. \A r \in orphans : Aged(r, s).session = r.session /\ (r.session # s => Aged(r, s) = r)
    BY AgedToken, ClientSessionAssumption DEF TypeOK
  <2>. QED
    BY <1>1, <2>1
<1>6. Known'
  BY <1>1, <1>2, <1>3, <1>4, <1>5 DEF TokensOK, Known
<1>7. AnswerIsNewest'
  <2>1. ASSUME NEW v \in Tabs, NEW q \in Logins, Refreshing(v, "answered"), Carries(v, q)
        PROVE  /\ q # s
               /\ tab[v].refresh.token.age = 0
               /\ Of(jar.token, q) => jar.token.age > 0
               /\ \A u \in Tabs \ {v} : Carries(u, q) => tab[u].refresh.token.age > 0
               /\ \A p \in orphans : p.session = q => p.age > 0
    <3>1. tab[v].refresh.token.session = q
      BY <2>1 DEF Carries, Of
    <3>. QED
      BY <1>1, <2>1, <3>1 DEF TokensOK, AnswerIsNewest
  <2>. SUFFICES ASSUME NEW v \in Tabs, Refreshing(v, "answered")', NEW q \in Logins, Carries(v, q)'
                PROVE  /\ tab'[v].refresh.token.age = 0
                       /\ Of(jar.token, q)' => jar'.token.age > 0
                       /\ \A u \in Tabs \ {v} : Carries(u, q)' => tab'[u].refresh.token.age > 0
                       /\ \A p \in orphans' : p.session = q => p.age > 0
    BY ClientSessionAssumption DEF AnswerIsNewest, Carries, Of, Refreshing, TypeOK, Tab, Refresh, Token
  <2>. QED
    BY <1>2, <1>4, <1>5, <2>1
<1>8. LoginIsFirst'
  <2>1. ASSUME NEW v \in Tabs, Signing(v, "login", "answered"),
               NEW q \in Logins, tab[v].sign.token.session = q
        PROVE  /\ q # s
               /\ tab[v].sign.token.age = 0
               /\ ~Of(jar.token, q)
               /\ \A u \in Tabs : ~Carries(u, q)
               /\ \A u \in Tabs \ {v} : Signing(u, "login", "answered") => tab[u].sign.token.session # q
               /\ \A p \in orphans : p.session # q
    BY <1>1, <2>1 DEF TokensOK, LoginIsFirst
  <2>. SUFFICES ASSUME NEW v \in Tabs, Signing(v, "login", "answered"),
                       NEW q \in Logins, tab[v].sign.token.session = q
                PROVE  /\ tab'[v].sign.token.age = 0 /\ tab'[v].sign.token.session = q
                       /\ ~Of(jar.token, q)'
                       /\ \A u \in Tabs : ~Carries(u, q)'
                       /\ \A u \in Tabs \ {v} : Signing(u, "login", "answered")
                            => tab'[u].sign.token.session # q
                       /\ \A p \in orphans' : p.session # q
    <3>1. \A v \in Tabs : Signing(v, "login", "answered")' =>
            /\ Signing(v, "login", "answered")
            /\ tab'[v].sign.token.session = tab[v].sign.token.session
            /\ tab[v].sign.token.session \in Logins
      BY <1>3 DEF Signing
    <3>. QED
      BY <1>3, <3>1 DEF LoginIsFirst
  <2>2. tab[v].sign # None
    BY DEF Signing
  <2>. QED
    BY <1>2, <1>3, <1>4, <1>5, <2>1, <2>2 DEF Signing
<1>9. JarIsNewest'
  <2>. SUFFICES ASSUME NEW q \in Logins, q # s, Of(jar.token, q), jar'.token.age > 0
                PROVE  q \in lost \/ \E u \in Tabs : Refreshing(u, "answered")' /\ Carries(u, q)'
    BY <1>1, <1>4 DEF JarIsNewest
  <2>. QED
    BY <1>2, <1>4 DEF TokensOK, JarIsNewest
<1>10. NothingCrosses'
  <2>. SUFFICES ASSUME NEW v \in Tabs, CleanLogout(v), NEW q \in Logins, tab[v].sign.token.session = q
                PROVE  /\ \A u \in Tabs : tab'[u].refresh = None /\ ~Signing(u, "login", "answered")
                       /\ q \notin lost' =>
                            /\ tab'[v].sign.token.age = 0
                            /\ tab'[v].sign.step = "answered" => session[q] \notin {"absent", "live"}
    <3>1. \A v \in Tabs : CleanLogout(v)' =>
            /\ CleanLogout(v)
            /\ tab'[v].sign.token.session = tab[v].sign.token.session
            /\ tab[v].sign.token.session \in Logins
      BY <1>3 DEF CleanLogout
    <3>. QED
      BY <1>1, <1>3, <3>1 DEF NothingCrosses
  <2>1. /\ \A u \in Tabs : tab[u].refresh = None /\ ~Signing(u, "login", "answered")
        /\ q \notin lost =>
             /\ tab[v].sign.token.age = 0
             /\ tab[v].sign.step = "answered" => session[q] \notin {"absent", "live"}
    BY DEF LogoutsOK, NothingCrosses
  <2>2. tab[v].sign # None
    BY DEF CleanLogout
  <2>. QED
    BY <1>1, <1>3, <2>1, <2>2 DEF AgedCall
<1>11. LogoutHolds' /\ Over'
  BY <1>1, <1>2, <1>3 DEF LogoutsOK, LogoutHolds, Over
<1>. QED
  BY <1>6, <1>7, <1>8, <1>9, <1>10, <1>11 DEF TokensOK, LogoutsOK

\* A refresh whose answer is heard: the cookie is the newest token.
LEMMA HearRefreshStep ==
  ASSUME TypeOK, TypeOK', TokensOK, LogoutsOK, NEW t \in Tabs, HearRefresh(t)
  PROVE  TokensOK' /\ LogoutsOK'
<1>1. PICK s \in Logins : Refreshing(t, "answered") /\ Carries(t, s) /\ tab[t].refresh.token.session = s
  BY ClientSessionAssumption DEF HearRefresh, Refreshing, Carries, Of, TypeOK, Tab, Refresh, Token
<1>2. /\ tab'[t].refresh = None /\ \A u \in Tabs : u # t => tab'[u].refresh = tab[u].refresh
      /\ \A u \in Tabs : tab'[u].sign = tab[u].sign
      /\ jar'.token = tab[t].refresh.token
      /\ UNCHANGED <<orphans, lost, out, session>>
  BY DEF HearRefresh, TypeOK, Tab, service
<1>3. /\ tab[t].refresh.token.age = 0
      /\ \A u \in Tabs \ {t} : Carries(u, s) => tab[u].refresh.token.age > 0
  BY <1>1 DEF TokensOK, AnswerIsNewest
<1>4. /\ \A u \in Tabs \ {t} : /\ \A q \in Logins : Carries(u, q)' <=> Carries(u, q)
                               /\ \A step : Refreshing(u, step)' <=> Refreshing(u, step)
      /\ ~Refreshing(t, "answered")' /\ \A q \in Logins : ~Carries(t, q)'
      /\ \A u \in Tabs : \A kind, step : Signing(u, kind, step)' <=> Signing(u, kind, step)
  BY <1>2 DEF Carries, Refreshing, Signing
<1>5. \A q \in Logins : Of(jar.token, q)' => q = s
  BY <1>1, <1>2 DEF Of
<1>6. Known'
  BY <1>1, <1>2, <1>4, <1>5 DEF TokensOK, Known
<1>7. AnswerIsNewest'
  <2>1. ASSUME NEW v \in Tabs \ {t}, Refreshing(v, "answered"), NEW q \in Logins, Carries(v, q)
        PROVE  /\ q # s /\ tab[v].refresh.token.age = 0
               /\ \A u \in Tabs \ {v} : Carries(u, q) => tab[u].refresh.token.age > 0
               /\ \A o \in orphans : o.session = q => o.age > 0
    <3>1. tab[v].refresh.token.session = q
      BY <2>1 DEF Carries, Of
    <3>. QED
      BY <1>3, <2>1, <3>1 DEF TokensOK, AnswerIsNewest
  <2>. SUFFICES ASSUME NEW v \in Tabs, Refreshing(v, "answered")', NEW q \in Logins, Carries(v, q)'
                PROVE  /\ tab'[v].refresh.token.age = 0
                       /\ Of(jar.token, q)' => jar'.token.age > 0
                       /\ \A u \in Tabs \ {v} : Carries(u, q)' => tab'[u].refresh.token.age > 0
                       /\ \A o \in orphans' : o.session = q => o.age > 0
    BY ClientSessionAssumption DEF AnswerIsNewest, Carries, Of, Refreshing, TypeOK, Tab, Refresh, Token
  <2>. QED
    BY <1>2, <1>4, <1>5, <2>1
<1>8. LoginIsFirst'
  <2>1. \A v \in Tabs : Signing(v, "login", "answered") =>
          tab[v].sign.token.session \in Logins /\ tab[v].sign.token.session # s
    BY <1>1 DEF TokensOK, LoginIsFirst, Signing, TypeOK, Tab, Login, Logout, Token
  <2>. QED
    BY <1>2, <1>4, <1>5, <2>1 DEF TokensOK, LoginIsFirst
<1>9. JarIsNewest'
  BY <1>2, <1>3 DEF JarIsNewest
<1>10. (\A v \in Tabs : ~CleanLogout(v)) /\ out = None
  BY <1>1 DEF LogoutsOK, NothingCrosses, Over, Refreshing
<1>. QED
  BY <1>2, <1>6, <1>7, <1>8, <1>9, <1>10
     DEF TokensOK, LogoutsOK, NothingCrosses, CleanLogout, LogoutHolds, Over

\* A refresh begins with the token of the cookie, and crosses every logout.
LEMMA RejectStep ==
  ASSUME TypeOK, TypeOK', TokensOK, LogoutsOK, NEW r \in Requests, Reject(r)
  PROVE  TokensOK' /\ LogoutsOK'
<1>1. PICK t \in Tabs :
        /\ \/ tab[t].refresh # None /\ UNCHANGED tab
           \/ /\ tab[t].refresh = None
              /\ tab'[t].refresh = [step |-> "sent", token |-> jar.token]
              /\ \A u \in Tabs : u # t => tab'[u].refresh = tab[u].refresh
              /\ \A u \in Tabs : tab'[u].sign = Crossed(tab[u]).sign
        /\ UNCHANGED <<jar, session, orphans, lost, out>>
  BY RejectEffect
<1>2. CASE UNCHANGED tab
  BY <1>1, <1>2, QuietStep
<1>3. CASE /\ tab[t].refresh = None
           /\ tab'[t].refresh = [step |-> "sent", token |-> jar.token]
           /\ \A u \in Tabs : u # t => tab'[u].refresh = tab[u].refresh
           /\ \A u \in Tabs : tab'[u].sign = Crossed(tab[u]).sign
  <2>1. /\ \A u \in Tabs \ {t} : /\ \A q \in Logins : Carries(u, q)' <=> Carries(u, q)
                                 /\ \A step : Refreshing(u, step)' <=> Refreshing(u, step)
        /\ ~Refreshing(t, "answered") /\ ~Refreshing(t, "answered")'
        /\ \A q \in Logins : Carries(t, q)' => Of(jar.token, q) /\ tab'[t].refresh.token = jar.token
    BY <1>3 DEF Carries, Refreshing
  <2>2. \A u \in Tabs :
          /\ tab'[u].sign = None <=> tab[u].sign = None
          /\ tab[u].sign # None => tab'[u].sign.token = tab[u].sign.token
          /\ \A kind, step : Signing(u, kind, step)' <=> Signing(u, kind, step)
          /\ ~CleanLogout(u)'
    BY <1>3, CrossedSign DEF Signing, CleanLogout
  <2>3. Known'
    BY <1>1, <2>1, <2>2 DEF TokensOK, Known
  <2>4. AnswerIsNewest'
    <3>. SUFFICES ASSUME NEW v \in Tabs, Refreshing(v, "answered")', NEW q \in Logins,
                         tab'[v].refresh.token.session = q
                  PROVE  /\ tab'[v].refresh.token.age = 0
                         /\ Of(jar.token, q)' => jar'.token.age > 0
                         /\ \A u \in Tabs \ {v} : Carries(u, q)' => tab'[u].refresh.token.age > 0
                         /\ \A o \in orphans' : o.session = q => o.age > 0
      BY ClientSessionAssumption DEF AnswerIsNewest, Refreshing, TypeOK, Tab, Refresh, Token
    <3>1. v # t /\ Refreshing(v, "answered") /\ tab'[v].refresh = tab[v].refresh
      BY <1>3, <2>1
    <3>2. /\ tab[v].refresh.token.age = 0
          /\ Of(jar.token, q) => jar.token.age > 0
          /\ \A u \in Tabs \ {v} : Carries(u, q) => tab[u].refresh.token.age > 0
          /\ \A o \in orphans : o.session = q => o.age > 0
      BY <3>1 DEF TokensOK, AnswerIsNewest
    <3>. QED
      BY <1>1, <1>3, <2>1, <3>1, <3>2
  <2>5. LoginIsFirst'
    <3>1. \A v \in Tabs : Signing(v, "login", "answered") =>
            tab[v].sign # None /\ tab[v].sign.token.session \in Logins
      BY DEF Signing, TypeOK, Tab, Login, Logout, Token
    <3>. QED
      BY <1>1, <2>1, <2>2, <3>1 DEF TokensOK, LoginIsFirst
  <2>6. JarIsNewest'
    BY <1>1, <2>1 DEF TokensOK, JarIsNewest
  <2>7. LogoutHolds' /\ Over'
    BY <1>1, <2>1, <2>2 DEF LogoutsOK, LogoutHolds, Over, Of
  <2>. QED
    BY <2>2, <2>3, <2>4, <2>5, <2>6, <2>7 DEF TokensOK, LogoutsOK, NothingCrosses
<1>. QED
  BY <1>1, <1>2, <1>3

\* Steps of login and logout that leave the cookie and all refreshes alone.
LEMMA SignedIn ==
  ASSUME TypeOK, TypeOK', TokensOK, LogoutsOK, NEW t \in Tabs, SignIn(t)
  PROVE  TokensOK' /\ LogoutsOK'
<1>1. PICK s \in Logins :
        /\ session[s] = "absent" /\ session' = [session EXCEPT ![s] = "live"]
        /\ tab'[t].sign = [kind |-> "login", step |-> "answered", token |-> [session |-> s, age |-> 0]]
        /\ \A u \in Tabs : u # t => tab'[u].sign = Crossed(tab[u]).sign
        /\ \A u \in Tabs : tab'[u].refresh = tab[u].refresh
        /\ out' = None
        /\ UNCHANGED <<jar, request, orphans, lost>>
  BY SignInEffect
<1>2. \A u \in Tabs : /\ \A q \in Logins : Carries(u, q)' <=> Carries(u, q)
                      /\ \A step : Refreshing(u, step)' <=> Refreshing(u, step)
  BY <1>1 DEF Carries, Refreshing
<1>3. \A u \in Tabs \ {t} :
        /\ tab'[u].sign = None <=> tab[u].sign = None
        /\ tab[u].sign # None => tab'[u].sign.token = tab[u].sign.token
        /\ \A kind, step : Signing(u, kind, step)' <=> Signing(u, kind, step)
        /\ ~CleanLogout(u)'
  BY <1>1, CrossedSign DEF Signing, CleanLogout
<1>4. tab'[t].sign # None /\ tab'[t].sign.token = [session |-> s, age |-> 0] /\ ~CleanLogout(t)'
  BY <1>1, ClientSessionAssumption DEF Login, Token, Ages, CleanLogout
<1>5. \A q \in Logins : session'[q] = "absent" => session[q] = "absent" /\ q # s
  BY <1>1 DEF TypeOK
<1>6. /\ ~Of(jar.token, s)
      /\ \A u \in Tabs : ~Carries(u, s)
      /\ \A u \in Tabs : tab[u].sign # None => tab[u].sign.token.session # s
      /\ \A o \in orphans : o.session # s
  BY <1>1 DEF TokensOK, Known
<1>7. Known'
  <2>1. \A q \in Logins, u \in Tabs : session'[q] = "absent" =>
          IF tab'[u].sign = None THEN TRUE ELSE tab'[u].sign.token.session # q
    BY <1>3, <1>4, <1>5 DEF TokensOK, Known
  <2>. QED
    BY <1>1, <1>2, <1>5, <2>1 DEF TokensOK, Known
<1>8. AnswerIsNewest'
  <2>1. \A v \in Tabs : Refreshing(v, "answered") => tab[v].refresh.token.session \in Logins
    BY ClientSessionAssumption DEF Refreshing, TypeOK, Tab, Refresh, Token
  <2>. QED
    BY <1>1, <1>2, <2>1 DEF TokensOK, AnswerIsNewest
<1>9. LoginIsFirst'
  <2>1. ASSUME NEW v \in Tabs \ {t}, Signing(v, "login", "answered")
        PROVE  LET q == tab[v].sign.token.session
               IN /\ q \in Logins /\ q # s /\ tab'[v].sign.token = tab[v].sign.token
                  /\ tab[v].sign.token.age = 0
                  /\ ~Of(jar.token, q)
                  /\ \A u \in Tabs : ~Carries(u, q)
                  /\ \A u \in Tabs \ {v} : Signing(u, "login", "answered") => tab[u].sign.token.session # q
                  /\ \A o \in orphans : o.session # q
    <3>1. tab[v].sign # None /\ tab[v].sign.token.session \in Logins
      BY <2>1 DEF Signing, TypeOK, Tab, Login, Logout, Token
    <3>. QED
      BY <1>3, <1>6, <2>1, <3>1 DEF TokensOK, LoginIsFirst
  <2>2. \A u \in Tabs : Signing(u, "login", "answered")' => tab'[u].sign.token.session \in Logins
    BY DEF Signing, TypeOK, Tab, Login, Logout, Token
  <2>. SUFFICES ASSUME NEW v \in Tabs, Signing(v, "login", "answered")',
                       NEW q \in Logins, tab'[v].sign.token.session = q
                PROVE  /\ tab'[v].sign.token.age = 0
                       /\ ~Of(jar.token, q)
                       /\ \A u \in Tabs : ~Carries(u, q)
                       /\ \A u \in Tabs \ {v} : Signing(u, "login", "answered")' => tab'[u].sign.token.session # q
                       /\ \A o \in orphans : o.session # q
    BY <1>1, <1>2, <2>2 DEF LoginIsFirst
  <2>3. \A u \in Tabs \ {t} : Signing(u, "login", "answered")' =>
          /\ Signing(u, "login", "answered")
          /\ tab'[u].sign.token = tab[u].sign.token
          /\ tab[u].sign.token.session # s
    BY <1>3, <2>1
  <2>4. CASE v = t
    <3>1. q = s /\ tab'[v].sign.token.age = 0
      BY <1>4, <2>4
    <3>. QED
      BY <1>6, <2>3, <2>4, <3>1
  <2>5. CASE v # t
    <3>1. Signing(v, "login", "answered") /\ tab[v].sign.token.session = q
      BY <2>3, <2>5
    <3>. QED
      BY <1>4, <2>1, <2>3, <2>5, <3>1
  <2>. QED
    BY <2>4, <2>5
<1>10. JarIsNewest'
  BY <1>1, <1>2 DEF TokensOK, JarIsNewest
<1>11. LogoutsOK'
  BY <1>1, <1>3, <1>4 DEF LogoutsOK, NothingCrosses, LogoutHolds, Over
<1>. QED
  BY <1>7, <1>8, <1>9, <1>10, <1>11 DEF TokensOK

\* A login that is heard: the cookie is the first token of its session.
LEMMA HearLoginStep ==
  ASSUME TypeOK, TypeOK', TokensOK, LogoutsOK, NEW t \in Tabs, HearLogin(t)
  PROVE  TokensOK' /\ LogoutsOK'
<1>1. PICK s \in Logins : Signing(t, "login", "answered") /\ tab[t].sign.token.session = s
  BY DEF HearLogin, Signing, TypeOK, Tab, Login, Logout, Token
<1>2. /\ jar'.token = tab[t].sign.token
      /\ tab' = Signed(t, "authenticated")
      /\ UNCHANGED <<orphans, lost, out, session>>
  BY DEF HearLogin, service
<1>3. /\ \A u \in Tabs : tab'[u].refresh = tab[u].refresh
      /\ \A u \in Tabs : tab'[u].sign = IF u = t THEN None ELSE tab[u].sign
  BY <1>2, TabsSigned
<1>4. /\ tab[t].sign.token.age = 0
      /\ \A u \in Tabs : ~Carries(u, s)
      /\ \A u \in Tabs \ {t} : Signing(u, "login", "answered") => tab[u].sign.token.session # s
  BY <1>1 DEF TokensOK, LoginIsFirst
<1>5. /\ \A u \in Tabs : /\ \A q \in Logins : Carries(u, q)' <=> Carries(u, q)
                         /\ \A step : Refreshing(u, step)' <=> Refreshing(u, step)
      /\ \A u \in Tabs : \A kind, step : Signing(u, kind, step)' <=> (u # t /\ Signing(u, kind, step))
  BY <1>3 DEF Carries, Refreshing, Signing
<1>6. \A q \in Logins : Of(jar.token, q)' => q = s
  BY <1>1, <1>2 DEF Of
<1>7. Known'
  <2>1. session[s] # "absent"
    BY <1>1 DEF TokensOK, Known, Signing
  <2>. QED
    BY <1>2, <1>3, <1>5, <1>6, <2>1 DEF TokensOK, Known
<1>8. AnswerIsNewest'
  <2>1. \A v \in Tabs : Refreshing(v, "answered") =>
          tab[v].refresh.token.session \in Logins /\ tab[v].refresh.token.session # s
    BY <1>4, ClientSessionAssumption DEF Refreshing, Carries, Of, TypeOK, Tab, Refresh, Token
  <2>. QED
    BY <1>2, <1>3, <1>5, <1>6, <2>1 DEF TokensOK, AnswerIsNewest
<1>9. LoginIsFirst'
  <2>1. \A v \in Tabs \ {t} : Signing(v, "login", "answered") =>
          tab[v].sign.token.session \in Logins /\ tab[v].sign.token.session # s
    BY <1>4 DEF Signing, TypeOK, Tab, Login, Logout, Token
  <2>. QED
    BY <1>2, <1>3, <1>5, <1>6, <2>1 DEF TokensOK, LoginIsFirst
<1>10. JarIsNewest'
  BY <1>2, <1>4 DEF JarIsNewest
<1>11. (\A v \in Tabs : ~CleanLogout(v)) /\ out = None
  BY <1>1 DEF LogoutsOK, NothingCrosses, Over
<1>. QED
  BY <1>2, <1>3, <1>7, <1>8, <1>9, <1>10, <1>11
     DEF TokensOK, LogoutsOK, NothingCrosses, CleanLogout, LogoutHolds, Over

\* A logout begins: nothing has crossed it if no other call is in flight, and
\* then the cookie is the newest token, unless that got lost.
LEMMA SignOutStep ==
  ASSUME TypeOK, TypeOK', TokensOK, LogoutsOK, NEW t \in Tabs, SignOut(t)
  PROVE  TokensOK' /\ LogoutsOK'
<1>. DEFINE clean == Alone(t) /\ tab[t].refresh = None
<1>0. PICK c \in BOOLEAN :
        /\ c => clean
        /\ tab' = [tab EXCEPT ![t].sign = [kind |-> "logout", step |-> "sent", token |-> jar.token,
                                           clean |-> c]]
  BY Zenon DEF SignOut
<1>. HIDE DEF clean
<1>1. /\ tab[t].sign = None /\ jar.token \in Token
      /\ UNCHANGED <<jar, orphans, lost, out, session>>
      /\ \A u \in Tabs : tab'[u].refresh = tab[u].refresh
      /\ \A u \in Tabs : u # t => tab'[u].sign = tab[u].sign
      /\ tab'[t].sign = [kind |-> "logout", step |-> "sent", token |-> jar.token, clean |-> c]
      /\ tab'[t].sign \in Logout
  <2>1. tab[t].sign = None /\ jar.token \in Token /\ UNCHANGED <<jar, orphans, lost, out, session>>
    BY DEF SignOut, TypeOK, service
  <2>2. /\ \A u \in Tabs : tab'[u].refresh = tab[u].refresh
        /\ \A u \in Tabs : u # t => tab'[u].sign = tab[u].sign
        /\ tab'[t].sign = [kind |-> "logout", step |-> "sent", token |-> jar.token, clean |-> c]
    BY <1>0 DEF TypeOK, Tab
  <2>. QED
    BY <2>1, <2>2 DEF Logout
<1>2. CleanLogout(t)' => clean
  BY <1>0, <1>1 DEF CleanLogout
<1>3. tab'[t].sign # None
  BY <1>1, ClientSessionAssumption
<1>4. /\ \A u \in Tabs : /\ \A q \in Logins : Carries(u, q)' <=> Carries(u, q)
                         /\ \A step : Refreshing(u, step)' <=> Refreshing(u, step)
      /\ \A u \in Tabs : Signing(u, "login", "answered")' <=> Signing(u, "login", "answered")
      /\ ~Signing(t, "login", "answered")
      /\ \A u \in Tabs \ {t} : CleanLogout(u)' <=> CleanLogout(u)
  BY <1>1, <1>3 DEF Carries, Refreshing, Signing, CleanLogout
<1>5. Known'
  <2>1. \A q \in Logins : session[q] = "absent" => jar.token.session # q
    BY <1>1, ClientSessionAssumption DEF TokensOK, Known, Of
  <2>. QED
    BY <1>1, <1>3, <1>4, <2>1 DEF TokensOK, Known
<1>6. AnswerIsNewest'
  <2>1. \A v \in Tabs : Refreshing(v, "answered") => tab[v].refresh.token.session \in Logins
    BY ClientSessionAssumption DEF Refreshing, TypeOK, Tab, Refresh, Token
  <2>. QED
    BY <1>1, <1>4, <2>1 DEF TokensOK, AnswerIsNewest
<1>7. LoginIsFirst'
  <2>1. \A v \in Tabs : Signing(v, "login", "answered") => v # t /\ tab[v].sign.token.session \in Logins
    BY <1>4 DEF Signing, TypeOK, Tab, Login, Logout, Token
  <2>. QED
    BY <1>1, <1>4, <2>1 DEF TokensOK, LoginIsFirst
<1>8. JarIsNewest'
  BY <1>1, <1>4 DEF TokensOK, JarIsNewest
<1>9. NothingCrosses'
  <2>1. ASSUME CleanLogout(t)'
        PROVE  /\ \A u \in Tabs : tab'[u].refresh = None /\ ~Signing(u, "login", "answered")'
               /\ jar.token.session \in lost \/ jar.token.age = 0
    <3>1. \A u \in Tabs : tab[u].refresh = None /\ (u # t => tab[u].sign = None)
      BY <1>2, <2>1 DEF Alone, clean
    <3>2. jar.token.session \in Logins /\ jar.token.age \in Nat /\ Of(jar.token, jar.token.session)
      BY <1>1, ClientSessionAssumption DEF Token, Ages, Of
    <3>3. jar.token.session \in lost \/ jar.token.age = 0
      BY <3>1, <3>2 DEF TokensOK, JarIsNewest, Refreshing
    <3>. QED
      BY <1>1, <1>4, <3>1, <3>3 DEF Signing
  <2>2. ASSUME NEW v \in Tabs \ {t}, CleanLogout(v)
        PROVE  tab'[v].sign = tab[v].sign /\ tab[v].sign # None
    BY <1>1, <2>2 DEF CleanLogout
  <2>. QED
    BY <1>1, <1>4, <2>1, <2>2 DEF LogoutsOK, NothingCrosses
<1>10. LogoutHolds' /\ Over'
  BY <1>1, <1>4 DEF LogoutsOK, LogoutHolds, Over
<1>. QED
  BY <1>5, <1>6, <1>7, <1>8, <1>9, <1>10 DEF TokensOK, LogoutsOK

\* auth-service ends the session of the token, if it is the newest.
LEMMA EndSessionStep ==
  ASSUME TypeOK, TypeOK', TokensOK, LogoutsOK, NEW t \in Tabs, EndSession(t)
  PROVE  TokensOK' /\ LogoutsOK'
<1>1. tab[t].sign \in Logout /\ tab[t].sign # None /\ tab[t].sign.token \in Token
      /\ tab[t].sign.token.session \in Logins
  BY DEF EndSession, Signing, TypeOK, Tab, Login, Logout, Token
<1>2. /\ UNCHANGED <<jar, orphans, lost, out>>
      /\ \A u \in Tabs : tab'[u].refresh = tab[u].refresh
      /\ \A u \in Tabs : u # t => tab'[u].sign = tab[u].sign
      /\ tab'[t].sign = [tab[t].sign EXCEPT !.step = "answered"]
  BY DEF EndSession, TypeOK, Tab
<1>3. /\ tab'[t].sign.kind = "logout" /\ tab'[t].sign.token = tab[t].sign.token
      /\ tab'[t].sign.clean = tab[t].sign.clean /\ tab'[t].sign \in Logout /\ tab'[t].sign # None
  BY <1>1, <1>2, ClientSessionAssumption DEF Logout
<1>4. /\ \A s \in Logins : session'[s] = session[s]
                           \/ (session[s] = "live" /\ session'[s] \notin {"absent", "live"})
      /\ tab[t].sign.token.age = 0 => session'[tab[t].sign.token.session] # "live"
  BY <1>1 DEF EndSession, LoggedOut, Current, End, TypeOK
<1>5. /\ \A u \in Tabs : /\ \A q \in Logins : Carries(u, q)' <=> Carries(u, q)
                         /\ \A step : Refreshing(u, step)' <=> Refreshing(u, step)
      /\ \A u \in Tabs : Signing(u, "login", "answered")' <=> Signing(u, "login", "answered")
      /\ ~Signing(t, "login", "answered")
      /\ \A u \in Tabs : CleanLogout(u)' <=> CleanLogout(u)
      /\ \A u \in Tabs : tab'[u].sign = None <=> tab[u].sign = None
      /\ \A u \in Tabs : tab[u].sign # None => tab'[u].sign.token = tab[u].sign.token
  BY <1>1, <1>2, <1>3 DEF Carries, Refreshing, Signing, CleanLogout, Logout
<1>6. Known'
  BY <1>2, <1>4, <1>5 DEF TokensOK, Known
<1>7. AnswerIsNewest'
  <2>1. \A v \in Tabs : Refreshing(v, "answered") => tab[v].refresh.token.session \in Logins
    BY ClientSessionAssumption DEF Refreshing, TypeOK, Tab, Refresh, Token
  <2>. QED
    BY <1>2, <1>5, <2>1 DEF TokensOK, AnswerIsNewest
<1>8. LoginIsFirst'
  <2>1. \A v \in Tabs : Signing(v, "login", "answered") =>
          v # t /\ tab[v].sign # None /\ tab[v].sign.token.session \in Logins
    BY <1>5 DEF Signing, TypeOK, Tab, Login, Logout, Token
  <2>. QED
    BY <1>2, <1>5, <2>1 DEF TokensOK, LoginIsFirst
<1>9. JarIsNewest'
  BY <1>2, <1>5 DEF TokensOK, JarIsNewest
<1>10. NothingCrosses'
  <2>1. session'[tab[t].sign.token.session] # "absent"
    BY <1>1, <1>4 DEF TokensOK, Known
  <2>2. \A v \in Tabs : CleanLogout(v) => tab[v].sign # None /\ tab[v].sign.token.session \in Logins
    BY DEF CleanLogout, TypeOK, Tab, Login, Logout, Token
  <2>. QED
    BY <1>2, <1>4, <1>5, <2>1, <2>2 DEF LogoutsOK, NothingCrosses
<1>11. LogoutHolds' /\ Over'
  BY <1>2, <1>4, <1>5 DEF LogoutsOK, LogoutHolds, Over, TypeOK
<1>. QED
  BY <1>6, <1>7, <1>8, <1>9, <1>10, <1>11 DEF TokensOK, LogoutsOK

\* A logout is answered, or fails and the cookies are cleared all the same.
LEMMA ClearedStep ==
  ASSUME TypeOK, TypeOK', TokensOK, LogoutsOK, NEW t \in Tabs,
         HearLogout(t) \/ (LoseLogout(t) /\ jar' = Cleared)
  PROVE  TokensOK' /\ LogoutsOK'
<1>1. /\ jar' = Cleared /\ tab' = Signed(t, "anonymous") /\ UNCHANGED <<orphans, lost, session>>
      /\ out' = out
         \/ /\ CleanLogout(t) /\ tab[t].sign.step = "answered"
            /\ out' = tab[t].sign.token.session /\ out' \notin lost
  BY DEF HearLogout, LoseLogout, Signing, CleanLogout, service
<1>2. /\ \A u \in Tabs : tab'[u].refresh = tab[u].refresh
      /\ \A u \in Tabs : tab'[u].sign = IF u = t THEN None ELSE tab[u].sign
  BY <1>1, TabsSigned
<1>3. /\ \A u \in Tabs : /\ \A q \in Logins : Carries(u, q)' <=> Carries(u, q)
                         /\ \A step : Refreshing(u, step)' <=> Refreshing(u, step)
      /\ \A u \in Tabs : Signing(u, "login", "answered")' => u # t /\ Signing(u, "login", "answered")
      /\ \A u \in Tabs : CleanLogout(u)' => u # t /\ CleanLogout(u)
      /\ \A q \in Logins : ~Of(jar.token, q)'
  BY <1>1, <1>2 DEF Carries, Refreshing, Signing, CleanLogout, Cleared, Of
<1>4. Known'
  BY <1>1, <1>2, <1>3 DEF TokensOK, Known
<1>5. AnswerIsNewest'
  <2>1. \A v \in Tabs : Refreshing(v, "answered") => tab[v].refresh.token.session \in Logins
    BY ClientSessionAssumption DEF Refreshing, TypeOK, Tab, Refresh, Token
  <2>. QED
    BY <1>1, <1>2, <1>3, <2>1 DEF TokensOK, AnswerIsNewest
<1>6. LoginIsFirst'
  <2>1. \A v \in Tabs : Signing(v, "login", "answered") => tab[v].sign.token.session \in Logins
    BY DEF Signing, TypeOK, Tab, Login, Logout, Token
  <2>. QED
    BY <1>1, <1>2, <1>3, <2>1 DEF TokensOK, LoginIsFirst
<1>7. JarIsNewest'
  BY <1>3 DEF JarIsNewest
<1>8. NothingCrosses'
  BY <1>1, <1>2, <1>3 DEF LogoutsOK, NothingCrosses
<1>9. LogoutHolds'
  BY <1>1 DEF LogoutsOK, LogoutHolds, NothingCrosses, Cleared
<1>10. Over'
  BY <1>1, <1>3 DEF LogoutsOK, NothingCrosses, Over, Carries, Refreshing
<1>. QED
  BY <1>4, <1>5, <1>6, <1>7, <1>8, <1>9, <1>10 DEF TokensOK, LogoutsOK

-----------------------------------------------------------------------------
(* Sessions taken for stolen *)

\* Calls that end, or that a page leaves behind, make no crowd and no answer.
LEMMA CallsShrink ==
  ASSUME TypeOK, TypeOK',
         \A u \in Tabs : tab'[u].refresh \in {tab[u].refresh, None},
         \A o \in orphans' :
           o \in orphans \/ \E u \in Tabs : Refreshing(u, "sent") /\ o = tab[u].refresh.token
                                            /\ tab'[u].refresh = None
  PROVE  /\ \A s \in Logins : Crowded(s)' => Crowded(s)
         /\ \A x \in Token : Abroad(x)' => Abroad(x)
         /\ \A u \in Tabs : Refreshing(u, "answered")'
                              => Refreshing(u, "answered") /\ tab'[u].refresh = tab[u].refresh
<1>1. \A u \in Tabs, s \in Logins : Carries(u, s)' => Carries(u, s) /\ tab'[u].refresh # None
  BY DEF Carries
<1>2. \A u \in Tabs : \A step : Refreshing(u, step)' => Refreshing(u, step) /\ tab'[u].refresh = tab[u].refresh
  BY DEF Refreshing
<1>3. \A o \in orphans' :
        o \in orphans \/ \E u \in Tabs : /\ Refreshing(u, "sent") /\ o = tab[u].refresh.token
                                         /\ Carries(u, o.session) /\ tab'[u].refresh = None
  BY ClientSessionAssumption DEF Carries, Of, Refreshing, TypeOK
<1>4. ASSUME NEW s \in Logins, Crowded(s)' PROVE Crowded(s)
  <2>1. CASE \E t, u \in Tabs : t # u /\ Carries(t, s)' /\ Carries(u, s)'
    BY <1>1, <2>1 DEF Crowded
  <2>2. CASE \E t \in Tabs : \E o \in orphans' : Carries(t, s)' /\ o.session = s
    <3>1. PICK t \in Tabs, o \in orphans' : Carries(t, s)' /\ o.session = s
      BY <2>2
    <3>. QED
      BY <1>1, <1>3, <3>1 DEF Crowded
  <2>3. CASE \E o, p \in orphans' : o # p /\ o.session = s /\ p.session = s
    <3>1. PICK o, p \in orphans' : o # p /\ o.session = s /\ p.session = s
      BY <2>3
    <3>. QED
      BY <1>3, <3>1 DEF Crowded
  <2>. QED
    BY <1>4, <2>1, <2>2, <2>3 DEF Crowded
<1>5. \A x \in Token : Abroad(x)' => Abroad(x)
  BY <1>2, <1>3 DEF Abroad
<1>. QED
  BY <1>2, <1>4, <1>5

\* Steps that send no refresh, rotate nothing and let no grace end.
LEMMA ReuseQuiet ==
  ASSUME TypeOK, TypeOK', TokensOK, ReuseOK,
         lost \subseteq lost', raced \subseteq raced', overtaken \subseteq overtaken',
         \A s \in Logins : Of(jar.token, s)' => (Of(jar.token, s) /\ jar'.token = jar.token) \/ jar'.token.age = 0,
         \A s \in Logins : session'[s] = "live" /\ s \notin fresh'
                             => session[s] = "absent" \/ (session[s] = "live" /\ s \notin fresh),
         \A s \in Logins : session'[s] = "reused"
                             => session[s] = "reused" \/ s \in lost \cup (raced \cap overtaken),
         \A s \in Logins : Crowded(s)' => Crowded(s),
         \A x \in Token : Abroad(x)' => Abroad(x),
         \A u \in Tabs : Refreshing(u, "answered")'
                           => Refreshing(u, "answered") /\ tab'[u].refresh = tab[u].refresh
  PROVE  ReuseOK'
<1>1. CrowdIsRaced'
  BY DEF ReuseOK, CrowdIsRaced
<1>2. OldIsRaced'
  BY DEF ReuseOK, OldIsRaced
<1>3. LateIsOvertaken'
  <2>. SUFFICES ASSUME NEW x \in Token, Abroad(x), Late(x)' PROVE x.session \in overtaken \cup lost
    BY DEF LateIsOvertaken
  <2>1. x.session \in Logins /\ session[x.session] # "absent"
    <3>1. x.session \in Logins /\ x # None
      BY ClientSessionAssumption DEF Token
    <3>. QED
      BY <3>1 DEF Abroad, Refreshing, Carries, Of, TokensOK, Known
  <2>2. Late(x)
    BY <2>1 DEF Late
  <2>. QED
    BY <2>2 DEF ReuseOK, LateIsOvertaken
<1>4. AnswerIsFresh'
  <2>. SUFFICES ASSUME NEW t \in Tabs, NEW s \in Logins, Refreshing(t, "answered")', Carries(t, s)',
                       session'[s] = "live", s \notin fresh'
                PROVE  s \in overtaken \cup lost
    BY DEF AnswerIsFresh
  <2>1. Refreshing(t, "answered") /\ Carries(t, s)
    BY DEF Carries
  <2>2. session[s] # "absent"
    BY <2>1 DEF TokensOK, Known
  <2>. QED
    BY <2>1, <2>2 DEF ReuseOK, AnswerIsFresh
<1>5. CookieIsPrevious'
  BY DEF ReuseOK, CookieIsPrevious
<1>6. NoFalseReuse'
  BY DEF ReuseOK, NoFalseReuse
<1>. QED
  BY <1>1, <1>2, <1>3, <1>4, <1>5, <1>6 DEF ReuseOK

\* A session that a token ends as reused had two refreshes out, one of them for
\* too long, or lost an answer.
LEMMA RefusalIsJust ==
  ASSUME TypeOK, ReuseOK, NEW x \in Token, Abroad(x), Refused(x)
  PROVE  /\ UNCHANGED overtaken
         /\ \A s \in Logins : session'[s] = "live" /\ s \notin fresh' => session[s] = "live" /\ s \notin fresh
         /\ \A s \in Logins : session'[s] = "reused"
                                => session[s] = "reused" \/ s \in lost \cup (raced \cap overtaken)
<1>1. x.session \in Logins /\ x.age \in Ages
  BY DEF Token
<1>2. CASE IsReuse(x) /\ session[x.session] = "live"
  <2>1. x.age > 0 /\ Late(x)
    BY <1>2 DEF IsReuse, Late
  <2>2. x.session \in lost \cup (raced \cap overtaken)
    BY <2>1 DEF ReuseOK, OldIsRaced, LateIsOvertaken
  <2>3. /\ session' = [session EXCEPT ![x.session] = "reused"] /\ fresh' = fresh \ {x.session}
        /\ UNCHANGED overtaken
    BY <1>2 DEF Refused, End
  <2>. QED
    BY <1>1, <2>2, <2>3 DEF TypeOK
<1>3. CASE ~(IsReuse(x) /\ session[x.session] = "live")
  BY <1>3 DEF Refused
<1>. QED
  BY <1>2, <1>3

LEMMA ReuseQuietNext ==
  ASSUME TypeOK, TypeOK', TokensOK, ReuseOK,
         \/ \E t \in Tabs : Load(t) \/ Ask(t) \/ RefuseRefresh(t) \/ HearRefresh(t) \/ LoseRefresh(t)
         \/ \E t \in Tabs : SignIn(t) \/ HearLogin(t) \/ FailLogin(t)
         \/ \E t \in Tabs : SignOut(t) \/ EndSession(t) \/ HearLogout(t) \/ LoseLogout(t)
         \/ \E r \in Requests : Succeed(r) \/ Fail(r)
         \/ \E o \in orphans : LateRefusal(o)
         \/ \E s \in Logins : EndElsewhere(s)
         \/ Lapse \/ UNCHANGED vars
  PROVE  ReuseOK'
<1>1. ASSUME NEW t \in Tabs, Load(t) PROVE ReuseOK'
  <2>1. Unheard(t) \subseteq IF Refreshing(t, "sent") THEN {tab[t].refresh.token} ELSE {}
    BY DEF Unheard, Refreshing
  <2>2. \A u \in Tabs : tab'[u].refresh \in {tab[u].refresh, None}
    BY <1>1, LoadEffect
  <2>3. \A o \in orphans' :
          o \in orphans \/ \E u \in Tabs : Refreshing(u, "sent") /\ o = tab[u].refresh.token
                                           /\ tab'[u].refresh = None
    BY <1>1, <2>1, LoadEffect
  <2>4. UNCHANGED <<jar, session, fresh, overtaken, raced>> /\ lost \subseteq lost'
    BY <1>1 DEF Load, service
  <2>. QED
    BY <2>2, <2>3, <2>4, CallsShrink, ReuseQuiet
<1>2. ASSUME NEW t \in Tabs, RefuseRefresh(t) PROVE ReuseOK'
  <2>1. UNCHANGED <<jar, orphans, lost, raced>> /\ \A u \in Tabs : tab'[u].refresh \in {tab[u].refresh, None}
    BY <1>2, TabsWithoutRefresh DEF RefuseRefresh
  <2>2. CASE UNCHANGED service
    BY <2>1, <2>2, CallsShrink, ReuseQuiet DEF service
  <2>3. CASE tab[t].refresh.token # None /\ Refused(tab[t].refresh.token)
    <3>1. tab[t].refresh.token \in Token /\ Abroad(tab[t].refresh.token)
      BY <1>2, <2>3 DEF RefuseRefresh, Abroad, Refreshing, TypeOK, Tab, Refresh
    <3>. QED
      BY <2>1, <2>3, <3>1, RefusalIsJust, CallsShrink, ReuseQuiet
  <2>. QED
    BY <1>2, <2>2, <2>3 DEF RefuseRefresh
<1>3. ASSUME NEW t \in Tabs, HearRefresh(t) PROVE ReuseOK'
  <2>1. tab[t].refresh.token.age = 0
    BY <1>3 DEF HearRefresh, TokensOK, AnswerIsNewest
  <2>2. jar'.token = tab[t].refresh.token /\ UNCHANGED <<orphans, lost, raced, session, fresh, overtaken>>
    BY <1>3 DEF HearRefresh, service
  <2>3. \A u \in Tabs : tab'[u].refresh \in {tab[u].refresh, None}
    BY <1>3 DEF HearRefresh, TypeOK, Tab
  <2>. QED
    BY <2>1, <2>2, <2>3, CallsShrink, ReuseQuiet
<1>4. ASSUME NEW t \in Tabs, LoseRefresh(t) PROVE ReuseOK'
  <2>1. Unheard(t) \subseteq IF Refreshing(t, "sent") THEN {tab[t].refresh.token} ELSE {}
    BY DEF Unheard, Refreshing
  <2>2. /\ tab' = WithoutRefresh(t) /\ UNCHANGED <<jar, raced, session, fresh, overtaken>>
        /\ lost \subseteq lost' /\ orphans' \subseteq orphans \cup Unheard(t)
    BY <1>4 DEF LoseRefresh, service
  <2>3. \A u \in Tabs : tab'[u].refresh = IF u = t THEN None ELSE tab[u].refresh
    BY <2>2, TabsWithoutRefresh
  <2>4. \A o \in orphans' :
          o \in orphans \/ \E u \in Tabs : Refreshing(u, "sent") /\ o = tab[u].refresh.token
                                           /\ tab'[u].refresh = None
    BY <2>1, <2>2, <2>3
  <2>. QED
    BY <2>2, <2>3, <2>4, CallsShrink, ReuseQuiet
<1>5. ASSUME NEW t \in Tabs, SignIn(t) PROVE ReuseOK'
  <2>1. PICK s \in Logins :
          /\ session[s] = "absent" /\ session' = [session EXCEPT ![s] = "live"]
          /\ \A u \in Tabs : tab'[u].refresh = tab[u].refresh
    BY <1>5, SignInEffect
  <2>2. UNCHANGED <<jar, orphans, lost, raced, fresh, overtaken>>
    BY <1>5 DEF SignIn
  <2>3. \A q \in Logins : session'[q] = IF q = s THEN "live" ELSE session[q]
    BY <2>1 DEF TypeOK
  <2>. QED
    BY <2>1, <2>2, <2>3, CallsShrink, ReuseQuiet
<1>6. ASSUME NEW t \in Tabs, HearLogin(t) PROVE ReuseOK'
  <2>1. tab[t].sign.token.age = 0
    BY <1>6 DEF HearLogin, TokensOK, LoginIsFirst
  <2>2. /\ jar'.token = tab[t].sign.token /\ UNCHANGED <<orphans, lost, raced, session, fresh, overtaken>>
        /\ tab' = Signed(t, "authenticated")
    BY <1>6 DEF HearLogin, service
  <2>. QED
    BY <2>1, <2>2, TabsSigned, CallsShrink, ReuseQuiet
<1>7. ASSUME NEW t \in Tabs, FailLogin(t) \/ HearLogout(t) \/ LoseLogout(t) PROVE ReuseOK'
  <2>1. /\ jar' = jar \/ jar'.token = None
        /\ tab' = Signed(t, "anonymous") /\ lost \subseteq lost'
        /\ UNCHANGED <<orphans, raced, session, fresh, overtaken>>
    BY <1>7 DEF FailLogin, HearLogout, LoseLogout, Cleared, service
  <2>2. \A s \in Logins : Of(jar.token, s)' => Of(jar.token, s) /\ jar' = jar
    BY <2>1 DEF Of
  <2>. QED
    BY <2>1, <2>2, TabsSigned, CallsShrink, ReuseQuiet
<1>8. ASSUME NEW t \in Tabs, EndSession(t) PROVE ReuseOK'
  <2>1. /\ UNCHANGED <<jar, orphans, lost, raced, overtaken>>
        /\ \A u \in Tabs : tab'[u].refresh = tab[u].refresh
    BY <1>8 DEF EndSession, LoggedOut, TypeOK, Tab
  <2>2. \/ UNCHANGED <<session, fresh>>
        \/ \E s \in Logins : session' = [session EXCEPT ![s] = "revoked"] /\ fresh' = fresh \ {s}
    <3>1. tab[t].sign.token.session \in Logins
      BY <1>8 DEF EndSession, Signing, TypeOK, Tab, Login, Logout, Token
    <3>. QED
      BY <1>8, <3>1 DEF EndSession, LoggedOut, End
  <2>3. /\ \A s \in Logins : session'[s] = "live" /\ s \notin fresh' => session[s] = "live" /\ s \notin fresh
        /\ \A s \in Logins : session'[s] = "reused" => session[s] = "reused"
    BY <2>2 DEF TypeOK
  <2>. QED
    BY <2>1, <2>3, CallsShrink, ReuseQuiet
<1>9. ASSUME NEW s \in Logins, EndElsewhere(s) PROVE ReuseOK'
  <2>1. /\ \A q \in Logins : session'[q] = "live" /\ q \notin fresh' => session[q] = "live" /\ q \notin fresh
        /\ \A q \in Logins : session'[q] = "reused" => session[q] = "reused"
    BY <1>9 DEF EndElsewhere, End, TypeOK
  <2>. QED
    BY <1>9, <2>1, CallsShrink, ReuseQuiet DEF EndElsewhere
<1>10. ASSUME NEW o \in orphans, LateRefusal(o) PROVE ReuseOK'
  <2>1. /\ UNCHANGED <<jar, tab, lost, raced>> /\ orphans' \subseteq orphans /\ Refused(o)
        /\ o \in Token /\ Abroad(o)
    BY <1>10 DEF LateRefusal, Abroad, TypeOK
  <2>2. /\ UNCHANGED overtaken
        /\ \A s \in Logins : session'[s] = "live" /\ s \notin fresh' => session[s] = "live" /\ s \notin fresh
        /\ \A s \in Logins : session'[s] = "reused"
                               => session[s] = "reused" \/ s \in lost \cup (raced \cap overtaken)
    BY <2>1, RefusalIsJust
  <2>. QED
    BY <2>1, <2>2, CallsShrink, ReuseQuiet
<1>11. CASE \/ \E t \in Tabs : Ask(t) \/ SignOut(t)
            \/ \E r \in Requests : Succeed(r) \/ Fail(r)
            \/ Lapse \/ UNCHANGED vars
  <2>1. /\ jar'.token = jar.token /\ UNCHANGED <<orphans, lost, raced, session, fresh, overtaken>>
        /\ \A u \in Tabs : tab'[u].refresh = tab[u].refresh
    <3>1. CASE \E t \in Tabs : Ask(t)
      BY <3>1 DEF Ask, service
    <3>2. CASE \E t \in Tabs : SignOut(t)
      BY <3>2 DEF SignOut, service, TypeOK, Tab
    <3>3. CASE \E r \in Requests : Succeed(r) \/ Fail(r)
      BY <3>3 DEF Succeed, Fail, Ended, service, TypeOK, Tab
    <3>4. CASE Lapse
      BY <3>4 DEF Lapse, service, TypeOK
    <3>5. CASE UNCHANGED vars
      BY <3>5 DEF vars, service
    <3>. QED
      BY <1>11, <3>1, <3>2, <3>3, <3>4, <3>5
  <2>2. \A s \in Logins : Of(jar.token, s)' => Of(jar.token, s)
    BY <2>1 DEF Of
  <2>. QED
    BY <2>1, <2>2, CallsShrink, ReuseQuiet
<1>. QED
  BY <1>1, <1>2, <1>3, <1>4, <1>5, <1>6, <1>7, <1>8, <1>9, <1>10, <1>11

\* The session is no longer fresh: whatever is on its way was too slow.
LEMMA ReuseGraceEnds ==
  ASSUME TypeOK, ReuseOK, NEW s \in Logins, GraceEnds(s)
  PROVE  ReuseOK'
<1>1. /\ fresh' = fresh \ {s} /\ UNCHANGED <<jar, tab, orphans, lost, raced, session>>
      /\ overtaken \subseteq overtaken' /\ (Underway(s) => s \in overtaken')
  BY DEF GraceEnds
<1>2. /\ \A q \in Logins : Crowded(q)' <=> Crowded(q)
      /\ \A x \in Token : Abroad(x)' <=> Abroad(x)
      /\ \A u \in Tabs : Refreshing(u, "answered")' <=> Refreshing(u, "answered")
      /\ \A u \in Tabs : \A q \in Logins : Carries(u, q)' <=> Carries(u, q)
  BY <1>1 DEF Crowded, Abroad, Refreshing, Carries
<1>3. CrowdIsRaced' /\ OldIsRaced' /\ CookieIsPrevious' /\ NoFalseReuse'
  BY <1>1, <1>2 DEF ReuseOK, CrowdIsRaced, OldIsRaced, CookieIsPrevious, NoFalseReuse
<1>4. LateIsOvertaken'
  <2>. SUFFICES ASSUME NEW x \in Token, Abroad(x), Late(x)' PROVE x.session \in overtaken' \cup lost
    BY <1>1, <1>2 DEF LateIsOvertaken
  <2>1. CASE x.session = s
    <3>1. x # None /\ Of(x, s)
      BY <2>1, ClientSessionAssumption DEF Of
    <3>2. Underway(s)
      BY <3>1 DEF Underway, Abroad, Refreshing
    <3>. QED
      BY <1>1, <2>1, <3>2
  <2>2. CASE x.session # s
    BY <1>1, <2>2 DEF Late, ReuseOK, LateIsOvertaken
  <2>. QED
    BY <2>1, <2>2
<1>5. AnswerIsFresh'
  <2>. SUFFICES ASSUME NEW t \in Tabs, NEW q \in Logins, Refreshing(t, "answered"), Carries(t, q),
                       session[q] = "live", q \notin fresh'
                PROVE  q \in overtaken' \cup lost
    BY <1>1, <1>2 DEF AnswerIsFresh
  <2>1. q = s => Underway(s)
    BY DEF Underway, Carries
  <2>. QED
    BY <1>1, <2>1 DEF ReuseOK, AnswerIsFresh
<1>. QED
  BY <1>3, <1>4, <1>5 DEF ReuseOK

\* A rotation of session s, by a refresh of a tab or by one given up: what is
\* left abroad is older now, and raced with it.
LEMMA ReuseRotation ==
  ASSUME TypeOK, TypeOK', TokensOK, ReuseOK,
         NEW s \in Logins, Abroad([session |-> s, age |-> 0]), Rotated(s),
         jar'.token = Aged(jar.token, s), lost \subseteq lost', UNCHANGED raced,
         \A q \in Logins : Crowded(q)' => Crowded(q),
         \A x \in Token : Abroad(x)' => \E y \in Token : /\ Abroad(y) /\ x = Aged(y, s)
                                                         /\ y.session = s => s \in raced \cup lost',
         \A u \in Tabs : \A q \in Logins \ {s} :
           Refreshing(u, "answered")' /\ Carries(u, q)' => Refreshing(u, "answered") /\ Carries(u, q)
  PROVE  ReuseOK'
<1>1. /\ fresh' = fresh \cup {s} /\ overtaken \subseteq overtaken' /\ UNCHANGED session
      /\ Behind(s) => s \in overtaken'
  BY DEF Rotated
<1>2. CrowdIsRaced' /\ NoFalseReuse'
  BY <1>1 DEF ReuseOK, CrowdIsRaced, NoFalseReuse
<1>3. ASSUME NEW x \in Token, NEW y \in Token, x = Aged(y, s)
      PROVE  /\ x.session = y.session /\ x.session \in Logins
             /\ y.session # s => x = y
             /\ y.session = s => Of(y, s) /\ x.age = Older(y.age) /\ y.age \in Ages
  <2>1. y # None /\ y.session \in Logins /\ y.age \in Ages
    BY ClientSessionAssumption DEF Token
  <2>2. Of(y, s) => x = [y EXCEPT !.age = Older(@)]
    BY <1>3 DEF Aged
  <2>. QED
    BY <1>3, <2>1, <2>2, AgedToken DEF Of, Token
<1>4. OldIsRaced'
  <2>. SUFFICES ASSUME NEW x \in Token, Abroad(x)', x.age > 0 PROVE x.session \in raced \cup lost'
    BY DEF OldIsRaced
  <2>1. PICK y \in Token : Abroad(y) /\ x = Aged(y, s) /\ (y.session = s => s \in raced \cup lost')
    OBVIOUS
  <2>. QED
    BY <1>3, <2>1 DEF ReuseOK, OldIsRaced
<1>5. LateIsOvertaken'
  <2>. SUFFICES ASSUME NEW x \in Token, Abroad(x)', Late(x)' PROVE x.session \in overtaken' \cup lost'
    BY DEF LateIsOvertaken
  <2>1. PICK y \in Token : Abroad(y) /\ x = Aged(y, s)
    OBVIOUS
  <2>2. CASE y.session = s
    <3>1. y.age > 0
      BY <1>1, <1>3, <2>1, <2>2 DEF Late, Older, Ages
    <3>2. Behind(s)
      BY <1>3, <2>1, <2>2, <3>1 DEF Behind, Abroad, Refreshing
    <3>. QED
      BY <1>1, <1>3, <2>1, <2>2, <3>2
  <2>3. CASE y.session # s
    <3>1. x = y /\ Late(y)
      BY <1>1, <1>3, <2>1, <2>3 DEF Late
    <3>. QED
      BY <1>1, <2>1, <3>1 DEF ReuseOK, LateIsOvertaken
  <2>. QED
    BY <2>2, <2>3
<1>6. AnswerIsFresh'
  BY <1>1 DEF ReuseOK, AnswerIsFresh
<1>7. CookieIsPrevious'
  <2>. SUFFICES ASSUME NEW q \in Logins, Of(jar.token, q)', jar'.token.age = 2 PROVE q \in lost
    BY DEF CookieIsPrevious
  <2>1. jar.token \in Token /\ Of(jar.token, q) /\ (q # s => jar'.token = jar.token)
    BY AgedTokens DEF TypeOK, Of
  <2>2. CASE q = s
    <3>1. jar.token.age > 0
      BY <2>1, <2>2 DEF Aged, Older, Token, Ages
    <3>2. ASSUME NEW u \in Tabs, Refreshing(u, "answered"), Carries(u, s) PROVE FALSE
      <4>1. tab[u].refresh.token.session = s
        BY <3>2 DEF Carries, Of
      <4>2. /\ \A v \in Tabs \ {u} : Carries(v, s) => tab[v].refresh.token.age > 0
            /\ \A o \in orphans : o.session = s => o.age > 0
        BY <3>2, <4>1 DEF TokensOK, AnswerIsNewest
      <4>3. [session |-> s, age |-> 0] \notin orphans
        BY <4>2
      <4>4. PICK v \in Tabs : Refreshing(v, "sent") /\ tab[v].refresh.token = [session |-> s, age |-> 0]
        BY <4>3 DEF Abroad
      <4>5. v # u
        BY <3>2, <4>4 DEF Refreshing
      <4>6. [session |-> s, age |-> 0] \in Token
        BY DEF Token, Ages
      <4>7. Carries(v, s)
        BY <4>4, <4>6, ClientSessionAssumption DEF Carries, Of, Refreshing
      <4>. QED
        BY <4>2, <4>4, <4>5, <4>7
    <3>. QED
      BY <2>1, <2>2, <3>1, <3>2 DEF TokensOK, JarIsNewest
  <2>3. CASE q # s
    BY <2>1, <2>3 DEF ReuseOK, CookieIsPrevious
  <2>. QED
    BY <2>2, <2>3
<1>. QED
  BY <1>2, <1>4, <1>5, <1>6, <1>7 DEF ReuseOK

\* Tokens abroad after a rotation were there before it.
LEMMA AgedAbroad ==
  ASSUME TypeOK, NEW s \in Logins, NEW u \in Tabs,
         tab'[u].refresh = AgedCall(tab[u].refresh, s), Refreshing(u, "sent")', tab'[u].refresh.token # None
  PROVE  \E y \in Token : /\ Refreshing(u, "sent") /\ tab[u].refresh.token = y
                          /\ tab'[u].refresh.token = Aged(y, s)
                          /\ y.session = s => Carries(u, s)
<1>1. tab[u].refresh \in Refresh \cup {None}
  BY DEF TypeOK, Tab
<1>2. tab[u].refresh # None /\ tab[u].refresh.step = "sent"
      /\ tab'[u].refresh.token = Aged(tab[u].refresh.token, s)
  BY <1>1, AgedRefresh DEF Refreshing
<1>3. tab[u].refresh.token \in Token
  BY <1>1, <1>2, AgedToken DEF Refresh
<1>. QED
  BY <1>2, <1>3, ClientSessionAssumption DEF Refreshing, Carries, Of

LEMMA ReuseRotate ==
  ASSUME TypeOK, TypeOK', TokensOK, ReuseOK, NEW t \in Tabs, Rotate(t)
  PROVE  ReuseOK'
<1>1. PICK s \in Logins :
        /\ tab[t].refresh.step = "sent" /\ tab[t].refresh.token = [session |-> s, age |-> 0]
        /\ Carries(t, s)
        /\ jar'.token = Aged(jar.token, s)
        /\ tab'[t].refresh = [step |-> "answered", token |-> [session |-> s, age |-> 0]]
        /\ \A u \in Tabs : u # t => tab'[u].refresh = AgedCall(tab[u].refresh, s)
        /\ orphans' = {Aged(o, s) : o \in orphans}
  BY RotateEffect
<1>2. Rotated(s) /\ UNCHANGED <<lost, raced>>
  BY <1>1 DEF Rotate
<1>3. Refreshing(t, "sent") /\ Abroad([session |-> s, age |-> 0])
  BY <1>1 DEF Rotate, Abroad
<1>4. /\ ~Refreshing(t, "sent")'
      /\ \A q \in Logins : (Carries(t, q)' <=> q = s) /\ (Carries(t, q) <=> q = s)
  <2>1. [session |-> s, age |-> 0] \in Token /\ [session |-> s, age |-> 0] # None
    BY ClientSessionAssumption DEF Token, Ages
  <2>2. tab'[t].refresh # None /\ tab[t].refresh # None
    BY <1>1, <2>1, ClientSessionAssumption DEF Refresh, Carries
  <2>. QED
    BY <1>1, <2>1, <2>2 DEF Refreshing, Carries, Of
<1>5. \A u \in Tabs \ {t} : /\ \A q \in Logins : Carries(u, q)' <=> Carries(u, q)
                            /\ \A step : Refreshing(u, step)' <=> Refreshing(u, step)
  BY <1>1, AgedCalls
<1>6. \A o \in orphans' : \E p \in orphans : o = Aged(p, s) /\ p.session = o.session
  <2>1. \A p \in orphans : Aged(p, s).session = p.session
    BY AgedToken, ClientSessionAssumption DEF TypeOK
  <2>. QED
    BY <1>1, <2>1
<1>7. ASSUME NEW q \in Logins, Crowded(q)' PROVE Crowded(q)
  <2>1. \A u \in Tabs : Carries(u, q)' <=> Carries(u, q)
    BY <1>4, <1>5
  <2>2. CASE \E v, u \in Tabs : v # u /\ Carries(v, q)' /\ Carries(u, q)'
    BY <2>1, <2>2 DEF Crowded
  <2>3. CASE \E v \in Tabs : \E o \in orphans' : Carries(v, q)' /\ o.session = q
    BY <1>6, <2>1, <2>3 DEF Crowded
  <2>4. CASE \E o, p \in orphans' : o # p /\ o.session = q /\ p.session = q
    BY <1>6, <2>4 DEF Crowded
  <2>. QED
    BY <1>7, <2>2, <2>3, <2>4 DEF Crowded
<1>8. ASSUME NEW x \in Token, Abroad(x)'
      PROVE  \E y \in Token : Abroad(y) /\ x = Aged(y, s) /\ (y.session = s => Crowded(s))
  <2>1. CASE x \in orphans'
    <3>1. PICK p \in orphans : x = Aged(p, s)
      BY <1>1, <2>1
    <3>. QED
      BY <1>1, <3>1 DEF Abroad, Crowded, TypeOK
  <2>2. CASE x \notin orphans'
    <3>1. PICK u \in Tabs : Refreshing(u, "sent")' /\ tab'[u].refresh.token = x
      BY <1>8, <2>2 DEF Abroad
    <3>2. u # t /\ x # None
      BY <1>4, <3>1, ClientSessionAssumption
    <3>3. PICK y \in Token : /\ Refreshing(u, "sent") /\ tab[u].refresh.token = y
                             /\ x = Aged(y, s) /\ (y.session = s => Carries(u, s))
      BY <1>1, <3>1, <3>2, AgedAbroad
    <3>. QED
      BY <1>1, <3>2, <3>3 DEF Abroad, Crowded
  <2>. QED
    BY <2>1, <2>2
<1>9. Crowded(s) => s \in raced \cup lost
  BY DEF ReuseOK, CrowdIsRaced
<1>10. \A u \in Tabs : \A q \in Logins \ {s} :
         Refreshing(u, "answered")' /\ Carries(u, q)' => Refreshing(u, "answered") /\ Carries(u, q)
  BY <1>4, <1>5
<1>. QED
  BY <1>1, <1>2, <1>3, <1>7, <1>8, <1>9, <1>10, ReuseRotation

LEMMA ReuseLate ==
  ASSUME TypeOK, TypeOK', TokensOK, ReuseOK, NEW o \in orphans, LateRotation(o)
  PROVE  ReuseOK'
<1>1. PICK s \in Logins :
        /\ o.session = s /\ o.age = 0
        /\ jar'.token = Aged(jar.token, s)
        /\ \A u \in Tabs : tab'[u].refresh = AgedCall(tab[u].refresh, s)
        /\ orphans' = {Aged(p, s) : p \in orphans \ {o}}
        /\ lost' = lost \cup {s}
  BY LateEffect
<1>2. Rotated(s) /\ UNCHANGED raced
  BY <1>1 DEF LateRotation
<1>3. Abroad([session |-> s, age |-> 0])
  BY <1>1 DEF Abroad, TypeOK, Token
<1>4. \A u \in Tabs : /\ \A q \in Logins : Carries(u, q)' <=> Carries(u, q)
                      /\ \A step : Refreshing(u, step)' <=> Refreshing(u, step)
  BY <1>1, AgedCalls
<1>5. \A p \in orphans' : \E r \in orphans : p = Aged(r, s) /\ r.session = p.session
  <2>1. \A r \in orphans : Aged(r, s).session = r.session
    BY AgedToken, ClientSessionAssumption DEF TypeOK
  <2>. QED
    BY <1>1, <2>1
<1>6. ASSUME NEW q \in Logins, Crowded(q)' PROVE Crowded(q)
  <2>1. CASE \E v, u \in Tabs : v # u /\ Carries(v, q)' /\ Carries(u, q)'
    BY <1>4, <2>1 DEF Crowded
  <2>2. CASE \E v \in Tabs : \E p \in orphans' : Carries(v, q)' /\ p.session = q
    BY <1>4, <1>5, <2>2 DEF Crowded
  <2>3. CASE \E p, r \in orphans' : p # r /\ p.session = q /\ r.session = q
    BY <1>5, <2>3 DEF Crowded
  <2>. QED
    BY <1>6, <2>1, <2>2, <2>3 DEF Crowded
<1>7. ASSUME NEW x \in Token, Abroad(x)'
      PROVE  \E y \in Token : Abroad(y) /\ x = Aged(y, s)
  <2>1. CASE x \in orphans'
    BY <1>5, <2>1 DEF Abroad, TypeOK
  <2>2. CASE x \notin orphans'
    <3>1. PICK u \in Tabs : Refreshing(u, "sent")' /\ tab'[u].refresh.token = x
      BY <1>7, <2>2 DEF Abroad
    <3>2. x # None
      BY ClientSessionAssumption
    <3>3. PICK y \in Token : Refreshing(u, "sent") /\ tab[u].refresh.token = y /\ x = Aged(y, s)
      BY <1>1, <3>1, <3>2, AgedAbroad
    <3>. QED
      BY <3>3 DEF Abroad
  <2>. QED
    BY <2>1, <2>2
<1>. QED
  BY <1>1, <1>2, <1>3, <1>4, <1>6, <1>7, ReuseRotation

\* A refresh that begins while another is out races it; its token is old only
\* if the answer with the newest is on its way, or lost.
LEMMA ReuseReject ==
  ASSUME TypeOK, TypeOK', TokensOK, ReuseOK, NEW r \in Requests, Reject(r)
  PROVE  ReuseOK'
<1>1. PICK t \in Tabs :
        /\ t = request[r].tab
        /\ \/ tab[t].refresh # None /\ UNCHANGED tab
           \/ /\ tab[t].refresh = None
              /\ tab'[t].refresh = [step |-> "sent", token |-> jar.token]
              /\ \A u \in Tabs : u # t => tab'[u].refresh = tab[u].refresh
        /\ UNCHANGED <<jar, session, orphans, lost>>
  BY RejectEffect
<1>2. /\ UNCHANGED <<fresh, overtaken>> /\ raced \subseteq raced'
      /\ tab[t].refresh = None => \A s \in Logins : Of(jar.token, s) /\ Underway(s) => s \in raced'
  BY <1>1 DEF Reject, MustRefresh, service
<1>3. CASE UNCHANGED tab
  BY <1>1, <1>2, <1>3, CallsShrink, ReuseQuiet
<1>4. CASE /\ tab[t].refresh = None
           /\ tab'[t].refresh = [step |-> "sent", token |-> jar.token]
           /\ \A u \in Tabs : u # t => tab'[u].refresh = tab[u].refresh
  <2>1. /\ \A u \in Tabs \ {t} : /\ \A q \in Logins : Carries(u, q)' <=> Carries(u, q)
                                 /\ \A step : Refreshing(u, step)' <=> Refreshing(u, step)
        /\ \A q \in Logins : Carries(t, q)' => Of(jar.token, q)
        /\ ~Refreshing(t, "answered")' /\ ~Refreshing(t, "answered")
    BY <1>4 DEF Carries, Refreshing
  <2>2. ASSUME NEW s \in Logins,
               \/ \E u \in Tabs : Carries(u, s)
               \/ \E o \in orphans : o.session = s
        PROVE  Underway(s)
    BY <2>2, ClientSessionAssumption DEF Underway, Carries, Of, TypeOK
  <2>3. ASSUME NEW x \in Token, Abroad(x)', ~Abroad(x) PROVE x = jar.token /\ Of(jar.token, x.session)
    BY <1>1, <1>4, <2>1, <2>3, ClientSessionAssumption DEF Abroad, Of
  <2>4. ASSUME NEW s \in Logins, Of(jar.token, s), jar.token.age > 0
        PROVE  s \in lost \/ \E u \in Tabs : Refreshing(u, "answered") /\ Carries(u, s)
    BY <2>4 DEF TokensOK, JarIsNewest
  <2>5. CrowdIsRaced'
    <3>. SUFFICES ASSUME NEW s \in Logins, Crowded(s)' PROVE s \in raced' \cup lost
      BY <1>1 DEF CrowdIsRaced
    <3>1. CASE Crowded(s)
      BY <1>2, <3>1 DEF ReuseOK, CrowdIsRaced
    <3>2. CASE ~Crowded(s)
      <4>1. Carries(t, s)' /\ ((\E u \in Tabs : Carries(u, s)) \/ \E o \in orphans : o.session = s)
        BY <1>1, <2>1, <3>2 DEF Crowded
      <4>. QED
        BY <1>2, <1>4, <2>1, <2>2, <4>1
    <3>. QED
      BY <3>1, <3>2
  <2>6. OldIsRaced'
    <3>. SUFFICES ASSUME NEW x \in Token, Abroad(x)', x.age > 0 PROVE x.session \in raced' \cup lost
      BY <1>1 DEF OldIsRaced
    <3>1. CASE Abroad(x)
      BY <1>2, <3>1 DEF ReuseOK, OldIsRaced
    <3>2. CASE ~Abroad(x)
      <4>1. x = jar.token /\ Of(jar.token, x.session) /\ x.session \in Logins
        BY <2>3, <3>2 DEF Token
      <4>. QED
        BY <1>2, <1>4, <2>2, <2>4, <4>1
    <3>. QED
      BY <3>1, <3>2
  <2>7. LateIsOvertaken'
    <3>. SUFFICES ASSUME NEW x \in Token, Abroad(x)', Late(x) PROVE x.session \in overtaken \cup lost
      BY <1>1, <1>2 DEF LateIsOvertaken, Late
    <3>1. CASE Abroad(x)
      BY <3>1 DEF ReuseOK, LateIsOvertaken
    <3>2. CASE ~Abroad(x)
      <4>1. x = jar.token /\ Of(jar.token, x.session) /\ x.session \in Logins
        BY <2>3, <3>2 DEF Token
      <4>2. CASE x.age = 2
        BY <4>1, <4>2 DEF ReuseOK, CookieIsPrevious
      <4>3. CASE x.age = 1 /\ x.session \notin fresh /\ session[x.session] = "live"
        BY <2>4, <4>1, <4>3 DEF ReuseOK, AnswerIsFresh
      <4>. QED
        BY <4>2, <4>3 DEF Late
    <3>. QED
      BY <3>1, <3>2
  <2>8. AnswerIsFresh'
    BY <1>1, <1>2, <2>1 DEF ReuseOK, AnswerIsFresh
  <2>9. CookieIsPrevious' /\ NoFalseReuse'
    BY <1>1, <1>2 DEF ReuseOK, CookieIsPrevious, NoFalseReuse
  <2>. QED
    BY <2>5, <2>6, <2>7, <2>8, <2>9 DEF ReuseOK
<1>. QED
  BY <1>1, <1>3, <1>4

LEMMA ReuseNext ==
  ASSUME TypeOK, TypeOK', TokensOK, ReuseOK, [Next]_vars
  PROVE  ReuseOK'
<1>1. CASE \E s \in Logins : GraceEnds(s)
  BY <1>1, ReuseGraceEnds
<1>2. CASE \/ \E t \in Tabs : Rotate(t)
           \/ \E o \in orphans : LateRotation(o)
           \/ \E r \in Requests : Reject(r)
  BY <1>2, ReuseRotate, ReuseLate, ReuseReject
<1>. QED
  BY <1>1, <1>2, ReuseQuietNext DEF Next, Answer, Carried

-----------------------------------------------------------------------------
(* The browser keeps to AuthService *)

\* Both modules name tokens alike, and age them alike.
LEMMA SameTokens ==
  /\ Auth!Token = Token
  /\ \A y \in Token, s \in Logins : Auth!Aged(y, s) = Aged(y, s) /\ Aged(y, s) \in Token
<1>1. Auth!Token = Token
  BY DEF Auth!Token, Token, Ages
<1>2. ASSUME NEW y \in Token, NEW s \in Logins PROVE Auth!Aged(y, s) = Aged(y, s)
  BY ClientSessionAssumption DEF Auth!Aged, Aged, Of, Older, Token
<1>3. ASSUME NEW y \in Token, NEW s \in Logins PROVE Aged(y, s) \in Token
  BY <1>3, AgedToken, ClientSessionAssumption
<1>. QED
  BY <1>1, <1>2, <1>3

LEMMA SentToken ==
  ASSUME TypeOK, NEW t \in Tabs, Refreshing(t, "sent"), tab[t].refresh.token # None
  PROVE  tab[t].refresh.token \in Token /\ tab[t].refresh.token \in Presented
BY DEF TypeOK, Tab, Refreshing, Refresh, Presented, Abroad

\* At most the token y leaves, with the refreshes that end.
LEMMA OneLeaves ==
  ASSUME NEW y,
         \A u \in Tabs : \/ tab'[u].refresh = tab[u].refresh
                         \/ /\ tab'[u].refresh = None
                            /\ Refreshing(u, "sent") => tab[u].refresh.token = y,
         orphans' \subseteq orphans \cup {y}, orphans \subseteq orphans' \cup {y},
         y \in orphans' => Abroad(y)
  PROVE  Presented' = Presented \/ Presented' = Presented \ {y}
<1>1. \A x \in Token : Abroad(x)' => Abroad(x)
  BY DEF Abroad, Refreshing
<1>2. \A x \in Token \ {y} : Abroad(x) => Abroad(x)'
  BY DEF Abroad, Refreshing
<1>. QED
  BY <1>1, <1>2 DEF Presented

LEMMA NoneLeaves ==
  ASSUME TypeOK,
         \A u \in Tabs : \/ tab'[u].refresh = tab[u].refresh
                         \/ /\ tab'[u].refresh = None
                            /\ Refreshing(u, "sent") => tab[u].refresh.token = None,
         orphans' = orphans
  PROVE  Presented' = Presented
<1>1. None \notin orphans'
  BY ClientSessionAssumption DEF TypeOK
<1>2. None \notin Presented
  BY ClientSessionAssumption DEF Presented
<1>. QED
  BY <1>1, <1>2, OneLeaves

LEMMA NothingSeen ==
  ASSUME UNCHANGED <<session, fresh>>, Presented' = Presented
  PROVE  UNCHANGED (Auth!vars)
BY DEF Auth!vars, Seen, Accused

\* Refused(): the answer is an accusation, or nothing comes of it.
LEMMA RefusalKeeps ==
  ASSUME TypeOK, NEW x \in Token, x \in Presented, Refused(x),
         Presented' = Presented \/ Presented' = Presented \ {x}
  PROVE  Auth!Next
<1>. DEFINE s == x.session
<1>1. s \in Logins /\ x.age \in 0..2
  BY DEF Token, Ages
<1>2. CASE IsReuse(x) /\ session[s] = "live"
  <2>1. session' = [session EXCEPT ![s] = "reused"] /\ fresh' = fresh \ {s}
    BY <1>2 DEF Refused, End
  <2>2. \A q \in Logins : session'[q] = IF q = s THEN "reused" ELSE session[q]
    BY <2>1 DEF TypeOK
  <2>3. [q \in Logins |-> Seen(q)]' = [[q \in Logins |-> Seen(q)] EXCEPT ![s] = "over"]
    BY <1>1, <2>2 DEF Seen
  <2>4. Accused' = Accused \cup {s}
    BY <1>1, <2>2 DEF Accused
  <2>5. Auth!IsReuse(x)
    BY <1>2 DEF IsReuse, Auth!IsReuse
  <2>6. Auth!Accuse(x)
    BY <1>2, <2>1, <2>3, <2>4, <2>5 DEF Auth!Accuse, Auth!Without
  <2>. QED
    BY <2>6 DEF Auth!Next
<1>3. CASE ~(IsReuse(x) /\ session[s] = "live")
  <2>1. UNCHANGED <<session, fresh>>
    BY <1>3 DEF Refused
  <2>2. Auth!Refuse(x)
    BY <2>1 DEF Auth!Refuse, Auth!Without, Seen, Accused
  <2>. QED
    BY <2>2 DEF Auth!Next
<1>. QED
  BY <1>2, <1>3

\* Rotation: the token that was traded leaves, the others of its session age.
LEMMA RotationKeeps ==
  ASSUME TypeOK, NEW x \in Token, x \in Presented, Current(x), Rotated(x.session),
         NEW rest \in SUBSET Token, Presented = rest \cup {x},
         Presented' = {Aged(y, x.session) : y \in rest}
  PROVE  Auth!Next
<1>1. x.session \in Logins /\ x.age = 0 /\ session[x.session] = "live"
  BY DEF Current, Token
<1>2. rest \in Auth!Without(x)
  <2>1. rest = Presented \/ rest = Presented \ {x}
    OBVIOUS
  <2>. QED
    BY <2>1 DEF Auth!Without
<1>3. Presented' = {Auth!Aged(y, x.session) : y \in rest}
  BY <1>1, SameTokens
<1>4. fresh' = fresh \cup {x.session} /\ UNCHANGED session
  BY DEF Rotated
<1>5. Auth!Trade(x)
  BY <1>1, <1>2, <1>3, <1>4 DEF Auth!Trade, Seen, Accused
<1>. QED
  BY <1>5 DEF Auth!Next

LEMMA EndKeeps ==
  ASSUME TypeOK, NEW s \in Logins, End(s, "revoked"), session[s] = "live", Presented' = Presented
  PROVE  Auth!Next
<1>1. \A q \in Logins : session'[q] = IF q = s THEN "revoked" ELSE session[q]
  BY DEF End, TypeOK
<1>2. \A q \in Logins : Seen(q)' = IF q \in {s} /\ Seen(q) = "live" THEN "over" ELSE Seen(q)
  BY <1>1 DEF Seen
<1>3. Accused' = Accused
  BY <1>1 DEF Accused
<1>4. Auth!End({s})
  BY <1>2, <1>3 DEF Auth!End, End
<1>. QED
  BY <1>4 DEF Auth!Next

\* A page goes, or a refresh is given up: its token may still reach auth-service.
LEMMA GivenUp ==
  ASSUME TypeOK, NEW t \in Tabs, UNCHANGED <<session, fresh>>,
         \A u \in Tabs : tab'[u].refresh = IF u = t THEN None ELSE tab[u].refresh,
         orphans' \in {orphans, orphans \cup Unheard(t)}
  PROVE  [Auth!Next]_(Auth!vars)
<1>. DEFINE x == tab[t].refresh.token
<1>1. CASE Refreshing(t, "sent") /\ x # None
  <2>1. x \in Token /\ x \in Presented /\ Abroad(x)
    BY <1>1, SentToken DEF Presented
  <2>2. Unheard(t) \subseteq {x}
    BY <1>1 DEF Unheard, Refreshing
  <2>3. Presented' = Presented \/ Presented' = Presented \ {x}
    <3>1. \A u \in Tabs : \/ tab'[u].refresh = tab[u].refresh
                          \/ /\ tab'[u].refresh = None
                             /\ Refreshing(u, "sent") => tab[u].refresh.token = x
      OBVIOUS
    <3>2. orphans' \subseteq orphans \cup {x} /\ orphans \subseteq orphans' \cup {x}
      BY <2>2
    <3>. HIDE DEF x
    <3>. QED
      BY <2>1, <3>1, <3>2, OneLeaves
  <2>4. Auth!Refuse(x)
    BY <2>3 DEF Auth!Refuse, Auth!Without, Seen, Accused
  <2>. QED
    BY <2>1, <2>4 DEF Auth!Next
<1>2. CASE ~(Refreshing(t, "sent") /\ x # None)
  <2>1. Unheard(t) = {}
    BY <1>2 DEF Unheard, Refreshing
  <2>2. Presented' = Presented
    BY <1>2, <2>1, NoneLeaves
  <2>. QED
    BY <2>2, NothingSeen
<1>. QED
  BY <1>1, <1>2

\* RefuseRefresh: without cookies auth-service is not asked.
LEMMA RefuseKeeps ==
  ASSUME TypeOK, NEW t \in Tabs, RefuseRefresh(t)
  PROVE  [Auth!Next]_(Auth!vars)
<1>. DEFINE x == tab[t].refresh.token
<1>1. /\ Refreshing(t, "sent") /\ UNCHANGED orphans
      /\ \A u \in Tabs : tab'[u].refresh = IF u = t THEN None ELSE tab[u].refresh
  BY TabsWithoutRefresh DEF RefuseRefresh
<1>2. CASE x = None
  <2>1. Presented' = Presented
    BY <1>1, <1>2, NoneLeaves
  <2>2. UNCHANGED <<session, fresh>>
    BY <1>2 DEF RefuseRefresh, service
  <2>. QED
    BY <2>1, <2>2, NothingSeen
<1>3. CASE x # None
  <2>1. Refused(x)
    BY <1>3 DEF RefuseRefresh
  <2>2. x \in Token /\ x \in Presented /\ Abroad(x)
    BY <1>1, <1>3, SentToken DEF Presented
  <2>3. Presented' = Presented \/ Presented' = Presented \ {x}
    <3>1. \A u \in Tabs : \/ tab'[u].refresh = tab[u].refresh
                          \/ /\ tab'[u].refresh = None
                             /\ Refreshing(u, "sent") => tab[u].refresh.token = x
      BY <1>1
    <3>. HIDE DEF x
    <3>. QED
      BY <1>1, <2>2, <3>1, OneLeaves
  <2>. HIDE DEF x
  <2>. QED
    BY <2>1, <2>2, <2>3, RefusalKeeps
<1>. QED
  BY <1>2, <1>3

LEMMA LateRefusalKeeps ==
  ASSUME TypeOK, NEW o \in orphans, LateRefusal(o)
  PROVE  [Auth!Next]_(Auth!vars)
<1>1. o \in Token /\ Abroad(o) /\ o \in Presented
  BY DEF TypeOK, Abroad, Presented
<1>2. Presented' = Presented \/ Presented' = Presented \ {o}
  <2>1. UNCHANGED tab /\ orphans' = orphans \ {o}
    BY DEF LateRefusal
  <2>2. \A u \in Tabs : tab'[u].refresh = tab[u].refresh
    BY <2>1
  <2>. QED
    BY <1>1, <2>1, <2>2, OneLeaves
<1>. QED
  BY <1>1, <1>2, RefusalKeeps DEF LateRefusal

\* A refresh begins: its cookie is a token of a session that exists.
LEMMA RejectKeeps ==
  ASSUME TypeOK, Known, NEW r \in Requests, Reject(r)
  PROVE  [Auth!Next]_(Auth!vars)
<1>1. UNCHANGED <<session, fresh, orphans>>
  BY DEF Reject, service
<1>2. PICK t \in Tabs :
        \/ UNCHANGED tab
        \/ /\ tab[t].refresh = None
           /\ tab'[t].refresh = [step |-> "sent", token |-> jar.token]
           /\ \A u \in Tabs : u # t => tab'[u].refresh = tab[u].refresh
  BY RejectEffect
<1>3. CASE UNCHANGED tab
  BY <1>1, <1>3, NoneLeaves, NothingSeen
<1>4. CASE /\ tab[t].refresh = None
           /\ tab'[t].refresh = [step |-> "sent", token |-> jar.token]
           /\ \A u \in Tabs : u # t => tab'[u].refresh = tab[u].refresh
  <2>. DEFINE x == jar.token
  <2>1. x \in Token \cup {None}
    BY DEF TypeOK
  <2>2. Refreshing(t, "sent")' /\ ~Refreshing(t, "sent") /\ tab'[t].refresh.token = x
    <3>1. tab'[t].refresh \in Refresh
      BY <1>4, <2>1 DEF Refresh
    <3>. QED
      BY <1>4, <3>1, ClientSessionAssumption DEF Refreshing
  <2>3. \A y \in Token : Abroad(y)' <=> Abroad(y) \/ y = x
    BY <1>1, <1>4, <2>2 DEF Abroad, Refreshing
  <2>4. CASE x = None
    <3>1. \A y \in Token : Abroad(y)' <=> Abroad(y)
      BY <2>3, <2>4, ClientSessionAssumption
    <3>. QED
      BY <1>1, <3>1, NothingSeen DEF Presented
  <2>5. CASE x # None
    <3>1. x \in Token /\ x.session \in Logins
      BY <2>1, <2>5 DEF Token
    <3>2. Seen(x.session) # "absent"
      BY <2>5, <3>1 DEF Known, Of, Seen
    <3>3. Presented' = Presented \cup {x}
      BY <2>3, <3>1 DEF Presented
    <3>4. Auth!Present(x)
      BY <1>1, <3>1, <3>2, <3>3 DEF Auth!Present, Seen, Accused
    <3>. QED
      BY <3>1, <3>4, SameTokens DEF Auth!Next
  <2>. QED
    BY <2>4, <2>5
<1>. QED
  BY <1>2, <1>3, <1>4

\* The tokens abroad after a rotation, in all tabs but those of U and in orphans.
LEMMA AgedPresented ==
  ASSUME TypeOK, NEW s \in Logins, NEW U \in SUBSET Tabs, NEW left \in SUBSET orphans,
         orphans' = {Aged(o, s) : o \in left},
         \A u \in U : tab'[u].refresh = AgedCall(tab[u].refresh, s),
         \A u \in Tabs \ U : ~Refreshing(u, "sent")'
  PROVE  LET rest == {y \in Token : y \in left \/ \E u \in U : Refreshing(u, "sent") /\ tab[u].refresh.token = y}
         IN Presented' = {Aged(y, s) : y \in rest}
<1>. DEFINE rest == {y \in Token : y \in left \/ \E u \in U : Refreshing(u, "sent") /\ tab[u].refresh.token = y}
<1>1. ASSUME NEW x \in Token, Abroad(x)' PROVE \E y \in rest : x = Aged(y, s)
  <2>1. CASE x \in orphans'
    BY <2>1 DEF TypeOK
  <2>2. CASE x \notin orphans'
    <3>1. PICK u \in Tabs : Refreshing(u, "sent")' /\ tab'[u].refresh.token = x
      BY <1>1, <2>2 DEF Abroad
    <3>2. u \in U /\ x # None
      BY <3>1, ClientSessionAssumption
    <3>3. PICK y \in Token : /\ Refreshing(u, "sent") /\ tab[u].refresh.token = y
                             /\ x = Aged(y, s)
      BY <3>1, <3>2, AgedAbroad
    <3>. QED
      BY <3>2, <3>3
  <2>. QED
    BY <2>1, <2>2
<1>2. ASSUME NEW y \in rest PROVE Aged(y, s) \in Token /\ Abroad(Aged(y, s))'
  <2>1. Aged(y, s) \in Token
    BY SameTokens
  <2>2. CASE y \in left
    BY <2>1, <2>2 DEF Abroad
  <2>3. CASE y \notin left
    <3>1. PICK u \in U : Refreshing(u, "sent") /\ tab[u].refresh.token = y
      BY <2>3
    <3>2. tab[u].refresh \in Refresh \cup {None} /\ tab[u].refresh # None
      BY <3>1 DEF TypeOK, Tab, Refreshing
    <3>3. tab'[u].refresh.token = Aged(y, s) /\ tab'[u].refresh # None /\ tab'[u].refresh.step = "sent"
      BY <3>1, <3>2, AgedRefresh DEF Refreshing
    <3>. QED
      BY <2>1, <3>3 DEF Abroad, Refreshing
  <2>. QED
    BY <2>2, <2>3
<1>. QED
  BY <1>1, <1>2 DEF Presented

LEMMA RotateKeeps ==
  ASSUME TypeOK, NEW t \in Tabs, Rotate(t)
  PROVE  [Auth!Next]_(Auth!vars)
<1>1. PICK s \in Logins :
        /\ tab[t].refresh.token = [session |-> s, age |-> 0]
        /\ tab'[t].refresh = [step |-> "answered", token |-> [session |-> s, age |-> 0]]
        /\ \A u \in Tabs : u # t => tab'[u].refresh = AgedCall(tab[u].refresh, s)
        /\ orphans' = {Aged(o, s) : o \in orphans}
  BY RotateEffect
<1>. DEFINE x == [session |-> s, age |-> 0]
            rest == {y \in Token : y \in orphans \/ \E u \in Tabs \ {t} : Refreshing(u, "sent")
                                                                   /\ tab[u].refresh.token = y}
<1>2. x \in Token /\ x # None /\ x.session = s
  BY ClientSessionAssumption DEF Token, Ages
<1>3. Refreshing(t, "sent") /\ Current(x) /\ Rotated(x.session)
  BY <1>1 DEF Rotate
<1>4. ~Refreshing(t, "sent")'
  BY <1>1 DEF Refreshing
<1>5. Presented = rest \cup {x}
  <2>1. \A y \in Token : Abroad(y) <=> y \in rest \/ y = x
    BY <1>1, <1>3 DEF Abroad
  <2>. QED
    BY <1>2, <2>1 DEF Presented
<1>6. Presented' = {Aged(y, s) : y \in rest}
  BY <1>1, <1>4, AgedPresented
<1>. HIDE DEF x, rest
<1>7. rest \in SUBSET Token
  BY DEF rest
<1>. QED
  BY <1>2, <1>3, <1>5, <1>6, <1>7, RotationKeeps

LEMMA LateRotationKeeps ==
  ASSUME TypeOK, NEW o \in orphans, LateRotation(o)
  PROVE  [Auth!Next]_(Auth!vars)
<1>1. PICK s \in Logins :
        /\ o.session = s /\ o.age = 0
        /\ \A u \in Tabs : tab'[u].refresh = AgedCall(tab[u].refresh, s)
        /\ orphans' = {Aged(p, s) : p \in orphans \ {o}}
  BY LateEffect
<1>. DEFINE rest == {y \in Token : y \in orphans \ {o} \/ \E u \in Tabs : Refreshing(u, "sent")
                                                                   /\ tab[u].refresh.token = y}
<1>2. o \in Token /\ Current(o) /\ Rotated(o.session)
  BY DEF LateRotation, TypeOK
<1>3. Presented = rest \cup {o}
  BY <1>2 DEF Presented, Abroad
<1>4. Presented' = {Aged(y, s) : y \in rest}
  BY <1>1, AgedPresented
<1>. HIDE DEF rest
<1>5. rest \in SUBSET Token
  BY DEF rest
<1>. QED
  BY <1>1, <1>2, <1>3, <1>4, <1>5, RotationKeeps

LEMMA SignInKeeps ==
  ASSUME TypeOK, NEW t \in Tabs, SignIn(t)
  PROVE  [Auth!Next]_(Auth!vars)
<1>1. PICK s \in Logins :
        /\ session[s] = "absent" /\ session' = [session EXCEPT ![s] = "live"]
        /\ \A u \in Tabs : tab'[u].refresh = tab[u].refresh
  BY SignInEffect
<1>2. UNCHANGED <<orphans, fresh>>
  BY DEF SignIn
<1>3. Presented' = Presented
  BY <1>1, <1>2, NoneLeaves
<1>4. \A q \in Logins : session'[q] = IF q = s THEN "live" ELSE session[q]
  BY <1>1 DEF TypeOK
<1>5. Accused' = Accused
  BY <1>1, <1>4 DEF Accused
<1>6. [q \in Logins |-> Seen(q)]' = [[q \in Logins |-> Seen(q)] EXCEPT ![s] = "live"]
  BY <1>4 DEF Seen
<1>7. Auth!Login(s)
  BY <1>1, <1>2, <1>3, <1>5, <1>6 DEF Auth!Login, Seen
<1>. QED
  BY <1>7 DEF Auth!Next

LEMMA EndSessionKeeps ==
  ASSUME TypeOK, NEW t \in Tabs, EndSession(t)
  PROVE  [Auth!Next]_(Auth!vars)
<1>. DEFINE x == tab[t].sign.token
<1>1. UNCHANGED orphans /\ \A u \in Tabs : tab'[u].refresh = tab[u].refresh
  BY DEF EndSession, TypeOK, Tab
<1>2. Presented' = Presented
  BY <1>1, NoneLeaves
<1>3. x.session \in Logins
  BY DEF EndSession, Signing, TypeOK, Tab, Login, Logout, Token
<1>4. LoggedOut(x)
  BY DEF EndSession
<1>. HIDE DEF x
<1>5. CASE Current(x)
  BY <1>2, <1>3, <1>4, <1>5, EndKeeps DEF LoggedOut, Current
<1>6. CASE ~Current(x)
  BY <1>2, <1>4, <1>6, NothingSeen DEF LoggedOut
<1>. QED
  BY <1>5, <1>6

LEMMA TimeKeeps ==
  ASSUME TypeOK, NEW s \in Logins, GraceEnds(s) \/ EndElsewhere(s)
  PROVE  [Auth!Next]_(Auth!vars)
<1>1. UNCHANGED <<tab, orphans>>
  BY DEF GraceEnds, EndElsewhere
<1>2. Presented' = Presented
  BY <1>1, NoneLeaves
<1>3. CASE GraceEnds(s)
  <2>1. Auth!GraceEnds({s})
    BY <1>2, <1>3 DEF GraceEnds, Auth!GraceEnds, Seen, Accused
  <2>. QED
    BY <2>1 DEF Auth!Next
<1>4. CASE EndElsewhere(s)
  BY <1>2, <1>4, EndKeeps DEF EndElsewhere
<1>. QED
  BY <1>3, <1>4

\* The rest is between the browser and the gateway.
LEMMA QuietKeeps ==
  ASSUME TypeOK,
         \/ \E t \in Tabs : Ask(t) \/ HearRefresh(t) \/ HearLogin(t) \/ FailLogin(t)
         \/ \E t \in Tabs : SignOut(t) \/ HearLogout(t) \/ LoseLogout(t)
         \/ \E r \in Requests : Succeed(r) \/ Fail(r)
         \/ Lapse \/ UNCHANGED vars
  PROVE  [Auth!Next]_(Auth!vars)
<1>1. UNCHANGED <<session, fresh, orphans>>
  BY DEF Ask, HearRefresh, HearLogin, FailLogin, SignOut, HearLogout, LoseLogout, Succeed, Fail, Ended,
         Lapse, vars, service
<1>2. \A u \in Tabs : \/ tab'[u].refresh = tab[u].refresh
                      \/ tab'[u].refresh = None /\ ~Refreshing(u, "sent")
  <2>1. CASE \E t \in Tabs : HearRefresh(t)
    BY <2>1 DEF HearRefresh, Refreshing, TypeOK, Tab
  <2>2. CASE \E t \in Tabs : HearLogin(t) \/ FailLogin(t) \/ HearLogout(t) \/ LoseLogout(t)
    <3>1. PICK t \in Tabs : tab' = Signed(t, "authenticated") \/ tab' = Signed(t, "anonymous")
      BY <2>2 DEF HearLogin, FailLogin, HearLogout, LoseLogout
    <3>. QED
      BY <3>1, TabsSigned
  <2>3. CASE \E t \in Tabs : Ask(t) \/ SignOut(t)
    <3>1. CASE \E t \in Tabs : Ask(t)
      BY <3>1 DEF Ask
    <3>2. CASE \E t \in Tabs : SignOut(t)
      BY <3>2 DEF SignOut, TypeOK, Tab
    <3>. QED
      BY <2>3, <3>1, <3>2
  <2>4. CASE \E r \in Requests : Succeed(r) \/ Fail(r)
    BY <2>4 DEF Succeed, Fail, Ended, TypeOK, Tab
  <2>5. CASE Lapse \/ UNCHANGED vars
    BY <2>5 DEF Lapse, vars
  <2>. QED
    BY <2>1, <2>2, <2>3, <2>4, <2>5
<1>. QED
  BY <1>1, <1>2, NoneLeaves, NothingSeen

LEMMA NextKeeps == IInv /\ [Next]_vars => [Auth!Next]_(Auth!vars)
<1>. SUFFICES ASSUME IInv, [Next]_vars PROVE [Auth!Next]_(Auth!vars)
  OBVIOUS
<1>. USE DEF IInv
<1>1. ASSUME NEW t \in Tabs, Load(t) PROVE [Auth!Next]_(Auth!vars)
  <2>1. UNCHANGED <<session, fresh>>
    BY <1>1 DEF Load, service
  <2>2. /\ \A u \in Tabs : tab'[u].refresh = IF u = t THEN None ELSE tab[u].refresh
        /\ orphans' = orphans \cup Unheard(t)
    BY <1>1, LoadEffect
  <2>. QED
    BY <2>1, <2>2, GivenUp
<1>2. ASSUME NEW t \in Tabs, LoseRefresh(t) PROVE [Auth!Next]_(Auth!vars)
  <2>1. UNCHANGED <<session, fresh>> /\ orphans' \in {orphans, orphans \cup Unheard(t)}
    BY <1>2 DEF LoseRefresh, service
  <2>2. \A u \in Tabs : tab'[u].refresh = IF u = t THEN None ELSE tab[u].refresh
    BY <1>2, TabsWithoutRefresh DEF LoseRefresh
  <2>. QED
    BY <2>1, <2>2, GivenUp
<1>3. ASSUME NEW t \in Tabs, RefuseRefresh(t) \/ Rotate(t) \/ SignIn(t) \/ EndSession(t)
      PROVE  [Auth!Next]_(Auth!vars)
  BY <1>3, RefuseKeeps, RotateKeeps, SignInKeeps, EndSessionKeeps
<1>4. ASSUME NEW r \in Requests, Reject(r) PROVE [Auth!Next]_(Auth!vars)
  BY <1>4, RejectKeeps
<1>5. ASSUME NEW o \in orphans, LateRefusal(o) \/ LateRotation(o) PROVE [Auth!Next]_(Auth!vars)
  BY <1>5, LateRefusalKeeps, LateRotationKeeps
<1>6. ASSUME NEW s \in Logins, GraceEnds(s) \/ EndElsewhere(s) PROVE [Auth!Next]_(Auth!vars)
  BY <1>6, TimeKeeps
<1>. QED
  BY <1>1, <1>2, <1>3, <1>4, <1>5, <1>6, QuietKeeps DEF Next, Answer, Carried

LEMMA InitKeeps == Init => Auth!Init
BY ClientSessionAssumption
   DEF Init, Page, Auth!Init, Seen, Presented, Abroad, Refreshing, Accused

-----------------------------------------------------------------------------
(* The theorems *)

LEMMA InvInit == Init => IInv
BY ClientSessionAssumption
   DEF Init, Page, IInv, TypeOK, Tab, NoLostWaiter, Waiting, Mine, Known, AnswerIsNewest, LoginIsFirst,
       JarIsNewest, NothingCrosses, LogoutHolds, Over, CleanLogout, Refreshing, Signing, Carries, Of,
       ReuseOK, CrowdIsRaced, Crowded, OldIsRaced, LateIsOvertaken, Abroad, AnswerIsFresh,
       CookieIsPrevious, NoFalseReuse

LEMMA InvNext == IInv /\ [Next]_vars => IInv'
<1>. SUFFICES ASSUME IInv, [Next]_vars PROVE IInv'
  OBVIOUS
<1>1. TypeOK' /\ NoLostWaiter'
  BY TypesNext, WaitersNext DEF IInv
<1>2. TypeOK /\ TokensOK /\ LogoutsOK
  BY DEF IInv, TokensOK, LogoutsOK
<1>3. ASSUME NEW t \in Tabs, LoseLogout(t) PROVE TokensOK' /\ LogoutsOK'
  <2>1. jar' = jar \/ jar' = Cleared
    BY <1>3 DEF LoseLogout
  <2>. QED
    BY <1>1, <1>2, <1>3, <2>1, QuietNext, ClearedStep
<1>4. TokensOK' /\ LogoutsOK'
  BY <1>1, <1>2, <1>3, QuietNext, RotateStep, LateStep, HearRefreshStep, RejectStep, SignedIn,
     HearLoginStep, SignOutStep, EndSessionStep, ClearedStep DEF Next, Answer, Carried
<1>5. ReuseOK'
  BY <1>1, <1>2, ReuseNext DEF IInv
<1>. QED
  BY <1>1, <1>4, <1>5 DEF IInv, TokensOK, LogoutsOK

\* The invariant holds in every state the browser and the services reach.
THEOREM Invariance == Spec => []IInv
<1>. QED
  BY InvInit, InvNext, PTL DEF Spec

\* Types of the cookies, tabs, calls and sessions.
THEOREM TypeCorrect == Spec => []TypeOK
<1>1. IInv => TypeOK
  BY DEF IInv
<1>. QED
  BY <1>1, Invariance, PTL

\* refreshOnce(): for any number of tabs and requests, a request that waits for
\* a refresh waits for one that is in flight.
THEOREM WaitersAreServed == Spec => []NoLostWaiter
<1>1. IInv => NoLostWaiter
  BY DEF IInv
<1>. QED
  BY <1>1, Invariance, PTL

\* logout() of AuthProvider, gateway and auth-service: one that was answered
\* and that nothing crossed ends the session and keeps cookies out of every tab
\* until the next login.
THEOREM LogoutIsFinal == Spec => []LogoutHolds
<1>1. IInv => LogoutHolds
  BY DEF IInv
<1>. QED
  BY <1>1, Invariance, PTL

\* apiRequest(), its cookies and refresh() of auth-service: for any number of
\* tabs and requests, a session whose answers all arrive ends as reused only if
\* refreshes raced and one was overtaken.
THEOREM OwnTabsAreNoThief == Spec => []NoFalseReuse
<1>1. IInv => NoFalseReuse
  BY DEF IInv, ReuseOK
<1>. QED
  BY <1>1, Invariance, PTL

\* apiRequest(), refresh() and logout() over AuthService: for any number of tabs,
\* requests and logins, and whatever is lost or comes late, no more is assumed of
\* auth-service than Sessions is proved to keep, each refresh at one moment, and
\* every refresh of a browser is one that AuthService allows.
THEOREM BrowserKeepsToAuthService == Spec => KeepsToAuthService
<1>1. IInv /\ [Next]_vars => [Auth!Next]_(Auth!vars)
  BY NextKeeps
<1>. QED
  BY <1>1, InitKeeps, Invariance, PTL DEF Spec, KeepsToAuthService, Auth!Spec
=============================================================================
