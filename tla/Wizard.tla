-------------------------------- MODULE Wizard --------------------------------
(***************************************************************************)
(* The enrollment wizard of the web client (useEnrollmentWizard and the    *)
(* EnrollmentWizard dialog that drives it): the phase a submission is in,  *)
(* the calls it has in flight, the poll that waits for the agent, and what *)
(* React's effects do after every commit.  Nothing cancels a call when the *)
(* dialog is reset: its answer lands in whatever the wizard shows then.    *)
(* The dialog stays mounted on its page, so a closed wizard keeps state.   *)
(***************************************************************************)
EXTENDS Naturals, FiniteSets, NoValue

CONSTANTS
  Servers,     \* ids that POST /servers hands out
  PollLimit,   \* POLL_LIMIT
  Reports,     \* what a server may come to be read as once it exists
  MaxCalls     \* bound: calls in flight at once, the poll apart

VARIABLES
  ui,      \* the hook's useState and useRef values
  poll,    \* the getServer call of the polling effect, or None
  calls,   \* the other calls in flight
  view,    \* what GET /servers/:id answers of each server; None before it exists
  stale    \* history: the wizard was last reset with a call in flight

vars == <<ui, poll, calls, view, stale>>

Modes == {"auto", "manual", "none"}
Phases == {"form", "creating", "installing", "waiting", "success", "partial", "error"}
Outcomes == {"revoked", "error", "expired", "timeout", "connected", "waiting"}

\* "online": the status is ONLINE or DEGRADED; "agent": it is neither, but the
\* agent is connected; "metrics": it is not, but it has reported before.
Views == {"pending", "agent", "metrics", "online", "revoked"}
Connected(v) == v \in {"agent", "online"}

Slots == 1..MaxCalls
Actions == {"create", "issue", "retry"}
Call ==
       [kind : {"create"}, mode : Modes, keep : BOOLEAN]
  \cup [kind : {"issue", "retry"}, server : Servers, mode : Modes]
  \cup [kind : {"regenerate"}, server : Servers]
  \cup [kind : {"look"}, server : Servers, seen : Views]
\* The answer of a cancelled poll is thrown away, whatever it says.
CancelledPoll == [live |-> FALSE]
Poll == [live : {TRUE}, server : Servers, seen : Views] \cup {CancelledPoll}

ServerShown == [id : Servers, view : Views]
Secret == [server : Servers, lapsed : BOOLEAN]
Ui == [open : BOOLEAN, phase : Phases, mode : Modes,
       serverId : Servers \cup {None},
       server : ServerShown \cup {None}, secret : Secret \cup {None},
       timedOut : BOOLEAN, pollError : BOOLEAN, polls : Nat,
       busy : BOOLEAN, acting : BOOLEAN, regenerating : BOOLEAN,
       snapshot : BOOLEAN, notified : BOOLEAN, outcome : Outcomes]

ASSUME WizardAssumption ==
  /\ None \notin Servers \cup Views \cup Call \cup Poll \cup ServerShown \cup Secret
  /\ Reports \subseteq Views \ {"pending"}
  /\ PollLimit \in Nat \ {0}
  /\ MaxCalls \in Nat

TypeOK ==
  /\ ui \in Ui
  /\ poll \in Poll \cup {None}
  /\ calls \in [Slots -> Call \cup {None}]
  /\ view \in [Servers -> Views \cup {None}]
  /\ stale \in BOOLEAN

-----------------------------------------------------------------------------
(* What every commit runs *)

Expired(secret) == IF secret = None THEN TRUE ELSE secret.lapsed

\* deriveConnection(); the effects treat its outcomes connected and metrics alike.
Outcome(u) ==
  LET v == IF u.server = None THEN "pending" ELSE u.server.view
  IN CASE v = "revoked" -> "revoked"
       [] v # "revoked" /\ u.pollError -> "error"
       [] v # "revoked" /\ ~u.pollError ->
            IF Expired(u.secret) /\ ~Connected(v) THEN "expired"
            ELSE IF u.timedOut /\ ~Connected(v) THEN "timeout"
            ELSE IF v = "pending" THEN "waiting" ELSE "connected"

\* The two phase effects run in one commit: the timeout's setPhase is the last.
PhaseAfter(u, outcome) ==
  IF u.phase # "waiting" THEN u.phase
  ELSE IF u.timedOut THEN "partial"
  ELSE IF outcome = "connected" THEN "success" ELSE "waiting"

AfterEffects(u, outcome) ==
  [u EXCEPT !.outcome = outcome,
            !.phase = PhaseAfter(u, outcome),
            !.notified = u.notified \/ (u.serverId # None /\ outcome = "connected")]

\* The memo derives the outcome anew when one of its inputs is another; the
\* time is none of them, so a token that ran out goes unnoticed until then.
Inputs(u) == <<u.server, u.secret, u.timedOut, u.pollError>>
Memo(u) == IF Inputs(u) = Inputs(ui) THEN ui.outcome ELSE Outcome(u)
Committed(u) == AfterEffects(u, Memo(u))

\* A server that was read is a new object, whatever it says.
Reread(u) == AfterEffects(u, Outcome(u))

\* The polling effect: while Polling it asks, and any change of what it
\* depends on cancels the call it has in flight.
PollingUntilError(u) ==
  /\ u.open
  /\ u.serverId # None
  /\ u.phase = "waiting"
  /\ ~u.timedOut
  /\ u.outcome \notin {"revoked", "error"}

Polling(u) ==
  /\ u.open
  /\ u.serverId # None
  /\ u.phase = "waiting"
  /\ ~u.timedOut
  /\ u.outcome # "revoked"

DependsOn(u) == <<u.open, u.serverId, u.phase, u.timedOut, u.outcome>>

NotCancelled(p) == p

Cancelled(p) == IF p = None THEN None ELSE CancelledPoll

Shows(next) ==
  /\ ui' = next
  /\ poll' = IF DependsOn(next) = DependsOn(ui) THEN poll ELSE Cancelled(poll)

Commit(u) == Shows(Committed(u))

-----------------------------------------------------------------------------
(* Opening, closing and the form *)

Blank(open) ==
  [open |-> open, phase |-> "form", mode |-> "auto", serverId |-> None,
   server |-> None, secret |-> None, timedOut |-> FALSE, pollError |-> FALSE,
   polls |-> 0, busy |-> FALSE, acting |-> FALSE, regenerating |-> FALSE,
   snapshot |-> FALSE, notified |-> FALSE, outcome |-> "expired"]

Busy == {i \in Slots : calls[i] # None}

ResetKeepsSecret(open) ==
  /\ Commit([Blank(open) EXCEPT !.secret = ui.secret])
  /\ stale' = (Busy # {})
  /\ UNCHANGED <<calls, view>>

Reset(open) ==
  /\ Commit(Blank(open))
  /\ stale' = (Busy # {})
  /\ UNCHANGED <<calls, view>>

Open ==
  /\ ~ui.open
  /\ Commit([ui EXCEPT !.open = TRUE])
  /\ UNCHANGED <<calls, view, stale>>

\* finishClose(), skipAgent(), openServer(): reset, then onClose().
Close == ui.open /\ Reset(FALSE)

Result == ui.phase \in {"success", "partial", "error"}
AddAnother == ui.open /\ Result /\ Reset(TRUE)

ChooseMode(mode) ==
  /\ ui.open
  /\ ui.phase = "form"
  /\ mode # ui.mode
  /\ Commit([ui EXCEPT !.mode = mode])
  /\ UNCHANGED <<calls, view, stale>>

ReturnToForm ==
  /\ ui.open
  /\ ui.phase = "error"
  /\ ui.server = None
  /\ Commit([ui EXCEPT !.phase = "form", !.busy = FALSE, !.acting = FALSE])
  /\ UNCHANGED <<calls, view, stale>>

-----------------------------------------------------------------------------
(* The user's calls *)

Start(call) ==
  /\ Busy # Slots
  /\ calls' = [calls EXCEPT ![CHOOSE i \in Slots \ Busy : TRUE] = call]
  /\ UNCHANGED <<view, stale>>

Free == ~ui.busy /\ ~ui.acting

\* advance() at the review step: persistServer() has no serverId to update.
Submit ==
  /\ ui.open
  /\ ui.phase = "form"
  /\ Free
  /\ Start([kind |-> "create", mode |-> ui.mode, keep |-> ~Expired(ui.secret)])
  /\ Commit([ui EXCEPT !.phase = "creating", !.busy = TRUE, !.acting = TRUE])

SubmitOffline ==
  /\ ui.open
  /\ ui.phase = "form"
  /\ Free
  /\ Commit([ui EXCEPT !.phase = "error"])
  /\ UNCHANGED <<calls, view, stale>>

TokenPanel == ui.secret # None /\ (ui.mode = "manual" \/ ui.phase = "partial")

Regenerate ==
  /\ ui.open
  /\ TokenPanel
  /\ ui.serverId # None
  /\ ~ui.regenerating
  /\ Start([kind |-> "regenerate", server |-> ui.serverId])
  /\ Commit([ui EXCEPT !.regenerating = TRUE])

\* The panel offers "check again" only after a failed poll.
RetryPoll ==
  /\ ui.open
  /\ TokenPanel
  /\ ui.outcome = "error"
  /\ ~ui.regenerating
  /\ ui.serverId # None
  /\ Start([kind |-> "look", server |-> ui.serverId, seen |-> view[ui.serverId]])
  /\ Commit([ui EXCEPT !.timedOut = FALSE, !.pollError = FALSE, !.polls = 0,
                       !.phase = IF ui.mode = "auto" THEN "waiting" ELSE "success"])

RetryAgent ==
  /\ ui.open
  /\ ui.phase = "partial"
  /\ ui.mode # "none"
  /\ ui.serverId # None
  /\ Free
  /\ Start([kind |-> "retry", server |-> ui.serverId, mode |-> ui.mode])
  /\ Commit([ui EXCEPT !.phase = "installing", !.busy = TRUE, !.acting = TRUE])

-----------------------------------------------------------------------------
(* Their answers *)

Over(i) == calls' = [calls EXCEPT ![i] = None] /\ UNCHANGED stale
Answered(i, u) == Commit(u) /\ Over(i)

Is(i, kind) == i \in Busy /\ calls[i].kind = kind
Done(u) == [u EXCEPT !.busy = FALSE, !.acting = FALSE]
Issued(u, s) == [u EXCEPT !.secret = [server |-> s, lapsed |-> FALSE]]
AfterInstall(mode) == IF mode = "auto" THEN "waiting" ELSE "success"
Failed(u) == [Done(u) EXCEPT !.phase = IF u.snapshot THEN "partial" ELSE "error"]

Created(u, s) ==
  [u EXCEPT !.serverId = s, !.server = [id |-> s, view |-> "pending"], !.snapshot = TRUE]

\* Ids are opaque: which new one a server gets makes no difference.
New == {s \in Servers : view[s] = None}
NewServer == CHOOSE s \in New : TRUE

\* The rest of submitWizard() once the server exists: without an agent it is
\* over, with a token that the closure holds and that is still good it is too.
CreateOk(i) ==
  /\ Is(i, "create")
  /\ New # {}
  /\ view' = [view EXCEPT ![NewServer] = "pending"]
  /\ LET c == calls[i]
         s == NewServer
         u == Created(ui, s)
     IN \/ /\ c.mode = "none"
           /\ Answered(i, [Done(u) EXCEPT !.phase = "partial"])
        \/ /\ c.mode # "none" /\ c.keep
           /\ Answered(i, [Done(u) EXCEPT !.phase = AfterInstall(c.mode)])
        \/ /\ c.mode # "none"
           /\ Commit([u EXCEPT !.phase = "installing"])
           /\ calls' = [calls EXCEPT ![i] = [kind |-> "issue", server |-> s, mode |-> c.mode]]
           /\ UNCHANGED stale

\* The call fails, or it succeeded and its answer is lost.
CreateFail(i) ==
  /\ Is(i, "create")
  /\ \/ UNCHANGED view
     \/ New # {} /\ view' = [view EXCEPT ![NewServer] = "pending"]
  /\ Answered(i, Failed(ui))

IssueOk(i) ==
  /\ Is(i, "issue")
  /\ Answered(i, [Done(Issued(ui, calls[i].server)) EXCEPT !.phase = AfterInstall(calls[i].mode)])
  /\ UNCHANGED view

IssueFail(i) == Is(i, "issue") /\ Answered(i, Failed(ui)) /\ UNCHANGED view

RegenerateOk(i) ==
  /\ Is(i, "regenerate")
  /\ Answered(i, [Issued(ui, calls[i].server) EXCEPT !.regenerating = FALSE])
  /\ UNCHANGED view

RegenerateFail(i) ==
  /\ Is(i, "regenerate")
  /\ Answered(i, [ui EXCEPT !.regenerating = FALSE])
  /\ UNCHANGED view

RetryOk(i) ==
  /\ Is(i, "retry")
  /\ Answered(i, [Done(Issued(ui, calls[i].server)) EXCEPT !.timedOut = FALSE, !.polls = 0,
       !.phase = IF calls[i].mode = "manual" THEN "success" ELSE "waiting"])
  /\ UNCHANGED view

RetryFailSpins(i) ==
  /\ Is(i, "retry")
  /\ Answered(i, Done(ui))
  /\ UNCHANGED view

RetryFail(i) ==
  /\ Is(i, "retry")
  /\ Answered(i, [Done(ui) EXCEPT !.phase = "partial"])
  /\ UNCHANGED view

Applied(u, s, v) == [u EXCEPT !.server = [id |-> s, view |-> v], !.pollError = FALSE]

\* A read answers what the server was when it was asked, or is by now.
LookOk(i) ==
  /\ Is(i, "look")
  /\ \E v \in {calls[i].seen, view[calls[i].server]} : Shows(Reread(Applied(ui, calls[i].server, v)))
  /\ Over(i)
  /\ UNCHANGED view

LookFail(i) ==
  /\ Is(i, "look")
  /\ Answered(i, [ui EXCEPT !.pollError = TRUE])
  /\ UNCHANGED view

-----------------------------------------------------------------------------
(* The poll *)

PollSend ==
  /\ Polling(ui)
  /\ poll = None
  /\ poll' = [live |-> TRUE, server |-> ui.serverId, seen |-> view[ui.serverId]]
  /\ UNCHANGED <<ui, calls, view, stale>>

Counted(u, v) ==
  [u EXCEPT !.polls = @ + 1, !.timedOut = @ \/ (u.polls + 1 >= PollLimit /\ v # "online")]

PollOk ==
  /\ poll # None
  /\ \/ /\ poll.live
        /\ \E v \in {poll.seen, view[poll.server]} :
             ui' = Reread(Counted(Applied(ui, poll.server, v), v))
     \/ ~poll.live /\ UNCHANGED ui
  /\ poll' = None
  /\ UNCHANGED <<calls, view, stale>>

PollFail ==
  /\ poll # None
  /\ ui' = IF poll.live THEN Committed([ui EXCEPT !.pollError = TRUE]) ELSE ui
  /\ poll' = None
  /\ UNCHANGED <<calls, view, stale>>

-----------------------------------------------------------------------------
(* The world *)

\* A token runs out; nothing is rendered for it.
Lapse ==
  /\ ui.secret # None
  /\ ~ui.secret.lapsed
  /\ ui' = [ui EXCEPT !.secret.lapsed = TRUE]
  /\ UNCHANGED <<poll, calls, view, stale>>

Follows(v) ==
  IF v \in {None, "revoked"} THEN {} ELSE Reports \ {v}

Report(s) ==
  /\ \E v \in Follows(view[s]) : view' = [view EXCEPT ![s] = v]
  /\ UNCHANGED <<ui, poll, calls, stale>>

-----------------------------------------------------------------------------
Init ==
  /\ ui = Blank(FALSE)
  /\ poll = None
  /\ calls = [i \in Slots |-> None]
  /\ view = [s \in Servers |-> None]
  /\ stale = FALSE

User ==
  \/ Open \/ Close \/ AddAnother \/ ReturnToForm
  \/ \E mode \in Modes : ChooseMode(mode)
  \/ Submit \/ SubmitOffline \/ Regenerate \/ RetryPoll \/ RetryAgent

Answer(i) ==
  \/ CreateOk(i) \/ CreateFail(i) \/ IssueOk(i) \/ IssueFail(i) \/ RegenerateOk(i) \/ RegenerateFail(i)
  \/ RetryOk(i) \/ RetryFail(i) \/ LookOk(i) \/ LookFail(i)

Next ==
  \/ User
  \/ \E i \in Slots : Answer(i)
  \/ PollSend \/ PollOk \/ PollFail
  \/ Lapse
  \/ \E s \in Servers : Report(s)

\* The effect keeps asking; getServer() is not refused for ever.
Fairness == WF_vars(PollSend) /\ SF_vars(PollOk)

Spec == Init /\ [][Next]_vars /\ Fairness

-----------------------------------------------------------------------------
\* persistServer() updates the server it holds and creates one otherwise: in
\* the form it never holds one, whatever answers come late, so a submission
\* can never write the new form over a server of an earlier one.
FormIsNew == ui.phase = "form" => ui.serverId = None

\* Whatever the wizard shows, asks for or polls is one server's, unless it was
\* reset with a call in flight: then a late token is shown for the next server.
\* Even then the form is new.
CallsAreFor(s) == \A i \in Busy : calls[i].kind # "create" => calls[i].server = s
SameServer ==
  /\ ui.server # None => ui.server.id = ui.serverId
  /\ ui.secret # None => ui.secret.server = ui.serverId
  /\ poll # None => (poll.live => poll.server = ui.serverId)
  /\ CallsAreFor(ui.serverId)
OneServerShown == FormIsNew /\ (~stale => SameServer)

\* busy and actionRef admit one submission or retry at a time, and every
\* spinner has something that will stop it: a call, or the poll, unless the
\* agent was revoked (the poll ends and the phase stays).
Acting == {i \in Busy : calls[i].kind \in Actions}
NoDeadSpinner ==
  ~stale =>
    /\ Cardinality(Acting) <= 1
    /\ ui.acting <=> Acting # {}
    /\ ui.phase \in {"creating", "installing"} => Acting # {}
    /\ ui.phase = "waiting" => Polling(ui) \/ ui.outcome = "revoked"

\* The page is told that an agent connected, and the automatic install ends in
\* success, only for a server whose agent did connect: no answer of a poll
\* that was cancelled, or that was of an earlier server, counts.
TellsTheTruth ==
  [][ \/ ~ui.notified /\ ui'.notified
      \/ ui.phase = "waiting" /\ ui'.phase = "success"
      => stale' \/ (ui'.serverId # None /\ view'[ui'.serverId] # "pending") ]_vars

\* Waiting for the agent ends, in success or in the timeout, while polls are
\* answered infinitely often: a failed one does not end the polling.
Waiting == ui.phase = "waiting" /\ ~stale /\ ui.outcome # "revoked"
WaitingEnds == Waiting ~> ~Waiting
=============================================================================
