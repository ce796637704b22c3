----------------------------- MODULE WebProofs -----------------------------
(***************************************************************************)
(* Proofs about the pages of the web client.  Wizard: types, that a        *)
(* submission never writes over another server and shows one server's      *)
(* data, that no spinner is left behind, and that a connected agent is     *)
(* announced only of a server that has one.  WebPages: that no page is     *)
(* stuck, and that the dashboard implements LatestView.                    *)
(***************************************************************************)
EXTENDS Wizard, WebPages, FiniteSetTheorems, TLAPS

\* A server in hand is shown, and there is none in the form.
ServerInHand ==
  /\ FormIsNew
  /\ ui.serverId # None => ui.server # None

\* A poll that still counts is of the server in hand, while waiting for it.
PollCounts ==
  poll # None => (poll.live => poll.server = ui.serverId /\ ui.phase = "waiting")

\* A server in hand exists, and so does one that is looked at.
Exist ==
  /\ ui.serverId # None => view[ui.serverId] # None
  /\ \A i \in Busy : calls[i].kind = "look" => view[calls[i].server] # None

\* A wizard that was not reset under a call: what it shows and asks is of the
\* server in hand; one submission or retry is in flight while it says so, and
\* until its answer the wizard is neither in the form nor in the error phase;
\* a create has no server in hand; it is open unless it is blank.
OneAction == \A i, j \in Acting : i = j
Settled ==
  /\ ui.server # None => ui.server.id = ui.serverId
  /\ ui.secret # None => ui.secret.server = ui.serverId
  /\ CallsAreFor(ui.serverId)
  /\ OneAction
  /\ ui.acting <=> Acting # {}
  /\ Acting # {} => ui.phase \notin {"form", "error"}
  /\ ui.phase \in {"creating", "installing"} => Acting # {}
  /\ \A i \in Busy : calls[i].kind = "create" => ui.serverId = None
  /\ ui.phase = "waiting" => ui.serverId # None /\ ~ui.timedOut
  /\ ~ui.open => ui.phase = "form" /\ Busy = {}

\* The outcome that is shown is of the server that is shown.
Reported(server) == server # None /\ server.view # "pending"
OutcomeShown == ui.outcome = "connected" => Reported(ui.server)

IInv == TypeOK /\ ServerInHand /\ PollCounts /\ OutcomeShown /\ Exist /\ (~stale => Settled)

-----------------------------------------------------------------------------
(* Commits *)

\* A commit of u shows u after the effects, with an outcome that fits its server.
Landing(u) ==
  \E outcome \in Outcomes :
    /\ outcome = "connected" => Reported(u.server)
    /\ ui' = AfterEffects(u, outcome)

\* What the memo holds fits, since the server is among its inputs.
LEMMA CommitLands ==
  ASSUME TypeOK, OutcomeShown, NEW u \in Ui, ui' \in {Committed(u), Reread(u)}
  PROVE  Landing(u)
<1>1. Outcome(u) \in Outcomes /\ (Outcome(u) = "connected" => Reported(u.server))
  BY DEF Outcome, Outcomes, Reported, Connected
<1>2. CASE ui' = AfterEffects(u, Outcome(u))
  BY <1>1, <1>2 DEF Landing
<1>3. CASE Inputs(u) = Inputs(ui) /\ ui' = AfterEffects(u, ui.outcome)
  <2>1. u.server = ui.server /\ ui.outcome \in Outcomes
    BY <1>3 DEF Inputs, TypeOK, Ui
  <2>. QED
    BY <1>3, <2>1 DEF Landing, OutcomeShown
<1>. QED
  BY <1>2, <1>3 DEF Committed, Reread, Memo

\* The effects of a commit change the outcome, what was notified, and the phase
\* waiting; in that phase they leave nothing that has timed out, and they tell
\* of success only when the server has reported.
LEMMA LandedUi ==
  ASSUME NEW u \in Ui, Landing(u)
  PROVE  /\ ui' \in Ui
         /\ ui'.open = u.open /\ ui'.acting = u.acting /\ ui'.mode = u.mode
         /\ ui'.serverId = u.serverId /\ ui'.server = u.server
         /\ ui'.secret = u.secret /\ ui'.timedOut = u.timedOut
         /\ u.phase # "waiting" => ui'.phase = u.phase
         /\ u.phase = "waiting" => ui'.phase \in {"waiting", "partial", "success"}
         /\ ui'.phase = "waiting" => ~u.timedOut
         /\ ui'.outcome = "connected" => Reported(u.server)
         /\ ui'.notified => u.notified \/ Reported(u.server)
         /\ ui'.phase = "success" => u.phase = "success" \/ Reported(u.server)
<1>1. PICK outcome \in Outcomes :
        /\ outcome = "connected" => Reported(u.server)
        /\ ui' = AfterEffects(u, outcome)
  BY DEF Landing
<1>2. PICK told \in BOOLEAN : told = (u.notified \/ (u.serverId # None /\ outcome = "connected"))
  BY DEF Ui
<1>3. PICK phase \in Phases : phase = PhaseAfter(u, outcome)
  BY DEF PhaseAfter, Phases, Ui
<1>4. ui' = [u EXCEPT !.outcome = outcome, !.phase = phase, !.notified = told]
  BY <1>1, <1>2, <1>3 DEF AfterEffects
<1>5. ui' \in Ui
  BY <1>4 DEF Ui
<1>6. /\ ui'.open = u.open /\ ui'.acting = u.acting /\ ui'.mode = u.mode
      /\ ui'.serverId = u.serverId /\ ui'.server = u.server
      /\ ui'.secret = u.secret /\ ui'.timedOut = u.timedOut
      /\ ui'.phase = phase /\ ui'.outcome = outcome /\ ui'.notified = told
  BY <1>4 DEF Ui
<1>7. /\ u.phase # "waiting" => phase = u.phase
      /\ u.phase = "waiting" => phase \in {"waiting", "partial", "success"}
      /\ phase = "waiting" => ~u.timedOut
      /\ phase = "success" => u.phase = "success" \/ outcome = "connected"
  BY <1>3 DEF PhaseAfter
<1>. QED
  BY <1>1, <1>2, <1>5, <1>6, <1>7

LEMMA CommitStep ==
  ASSUME TypeOK, PollCounts, OutcomeShown, NEW u \in Ui, Commit(u) \/ Shows(Reread(u))
  PROVE  /\ Landing(u) /\ ui' \in Ui
         /\ poll' \in Poll \cup {None}
         /\ PollCounts'
<1>1. Landing(u) /\ ui' \in Ui
  BY CommitLands, LandedUi DEF Commit, Shows
<1>2. CASE poll' = poll /\ DependsOn(ui') = DependsOn(ui)
  BY <1>1, <1>2 DEF DependsOn, PollCounts, TypeOK
<1>3. CASE poll' = Cancelled(poll)
  BY <1>1, <1>3 DEF Cancelled, CancelledPoll, Poll, PollCounts
<1>. QED
  BY <1>1, <1>2, <1>3 DEF Commit, Shows

\* IInv holds of a commit of u, if it would hold with u shown as it is.
LEMMA Landed ==
  ASSUME NEW u \in Ui, Landing(u), poll' \in Poll \cup {None}, PollCounts',
         calls' \in [Slots -> Call \cup {None}], view' \in [Servers -> Views \cup {None}],
         stale' \in BOOLEAN,
         u.phase = "form" => u.serverId = None,
         u.serverId # None => u.server # None /\ view'[u.serverId] # None,
         \A i \in Busy' : calls'[i].kind = "look" => view'[calls'[i].server] # None,
         ~stale' =>
           /\ u.server # None => u.server.id = u.serverId
           /\ u.secret # None => u.secret.server = u.serverId
           /\ \A i \in Busy' : calls'[i].kind # "create" => calls'[i].server = u.serverId
           /\ \A i, j \in Acting' : i = j
           /\ u.acting <=> Acting' # {}
           /\ Acting' # {} => u.phase \notin {"form", "error"}
           /\ u.phase \in {"creating", "installing"} => Acting' # {}
           /\ \A i \in Busy' : calls'[i].kind = "create" => u.serverId = None
           /\ u.phase = "waiting" => u.serverId # None
           /\ ~u.open => u.phase = "form" /\ Busy' = {}
  PROVE  IInv'
<1>1. /\ ui' \in Ui
      /\ ui'.open = u.open /\ ui'.acting = u.acting
      /\ ui'.serverId = u.serverId /\ ui'.server = u.server
      /\ ui'.secret = u.secret /\ ui'.timedOut = u.timedOut
      /\ u.phase # "waiting" => ui'.phase = u.phase
      /\ u.phase = "waiting" => ui'.phase \in {"waiting", "partial", "success"}
      /\ ui'.phase = "waiting" => ~ui'.timedOut
      /\ ui'.outcome = "connected" => Reported(ui'.server)
  BY LandedUi
<1>2. TypeOK' /\ OutcomeShown'
  BY <1>1 DEF TypeOK, OutcomeShown
<1>3. ServerInHand' /\ Exist'
  BY <1>1 DEF ServerInHand, FormIsNew, Exist
<1>4. ~stale' => Settled'
  BY <1>1 DEF Settled, CallsAreFor, OneAction
<1>. QED
  BY <1>2, <1>3, <1>4 DEF IInv

-----------------------------------------------------------------------------
(* Calls *)

LEMMA CallsStarted ==
  ASSUME TypeOK, NEW call \in Call, Start(call)
  PROVE  /\ calls' \in [Slots -> Call \cup {None}]
         /\ UNCHANGED <<view, stale>>
         /\ \E i \in Slots \ Busy :
              /\ Busy' = Busy \cup {i}
              /\ calls'[i] = call /\ \A j \in Busy : calls'[j] = calls[j]
              /\ Acting' = IF call.kind \in Actions THEN Acting \cup {i} ELSE Acting
<1>. DEFINE i == CHOOSE i \in Slots \ Busy : TRUE
<1>1. i \in Slots \ Busy
  BY DEF Start, Busy
<1>2. calls' = [calls EXCEPT ![i] = call] /\ UNCHANGED <<view, stale>>
  BY DEF Start
<1>. HIDE DEF i
<1>3. calls' \in [Slots -> Call \cup {None}] /\ calls'[i] = call /\ \A j \in Slots : j # i => calls'[j] = calls[j]
  BY <1>1, <1>2 DEF TypeOK
<1>4. Busy' = Busy \cup {i}
  BY <1>1, <1>3, WizardAssumption DEF Busy
<1>5. Acting' = IF call.kind \in Actions THEN Acting \cup {i} ELSE Acting
  BY <1>1, <1>3, <1>4 DEF Acting, Busy
<1>. QED
  BY <1>1, <1>2, <1>3, <1>4, <1>5 DEF Busy

LEMMA CallsAnswered ==
  ASSUME TypeOK, NEW i \in Slots, Over(i)
  PROVE  /\ calls' \in [Slots -> Call \cup {None}]
         /\ Busy' = Busy \ {i} /\ Acting' = Acting \ {i}
         /\ \A j \in Busy' : calls'[j] = calls[j]
         /\ UNCHANGED stale
<1>1. calls' = [calls EXCEPT ![i] = None] /\ UNCHANGED stale
  BY DEF Over
<1>2. /\ calls' \in [Slots -> Call \cup {None}]
      /\ calls'[i] = None /\ \A j \in Slots : j # i => calls'[j] = calls[j]
  BY <1>1 DEF TypeOK
<1>3. Busy' = Busy \ {i}
  BY <1>2 DEF Busy
<1>. QED
  BY <1>1, <1>2, <1>3 DEF Acting, Busy

-----------------------------------------------------------------------------
(* The user *)

LEMMA BlankUi ==
  ASSUME NEW open \in BOOLEAN
  PROVE  /\ Blank(open) \in Ui
         /\ Blank(open).open = open /\ Blank(open).phase = "form" /\ ~Blank(open).acting
         /\ Blank(open).serverId = None /\ Blank(open).server = None /\ Blank(open).secret = None
BY DEF Blank, Ui, Phases, Modes, Outcomes

LEMMA ResetStep ==
  ASSUME IInv, NEW open \in BOOLEAN, Reset(open)
  PROVE  IInv'
<1>1. /\ Landing(Blank(open)) /\ poll' \in Poll \cup {None} /\ PollCounts'
  BY BlankUi, CommitStep DEF Reset, IInv
<1>2. UNCHANGED <<calls, view>> /\ stale' = (Busy # {}) /\ Busy' = Busy /\ stale' \in BOOLEAN
  BY DEF Reset, Busy
<1>3. ~stale' => Busy' = {} /\ Acting' = {}
  BY <1>2 DEF Acting
<1>4. TypeOK /\ Exist
  BY DEF IInv
<1>5. \A i \in Busy' : calls'[i].kind = "look" => view'[calls'[i].server] # None
  BY <1>2, <1>4 DEF Exist
<1>. QED
  BY <1>1, <1>2, <1>3, <1>4, <1>5, BlankUi, Landed DEF TypeOK

\* Steps of the user that make no call.
LEMMA FormStep ==
  ASSUME IInv, NEW u \in Ui, Commit(u), UNCHANGED <<calls, view, stale>>,
         u.serverId = ui.serverId, u.server = ui.server, u.secret = ui.secret,
         ui.open => u.open,
         \/ u.phase = ui.phase /\ u.acting = ui.acting
         \/ ui.phase = "error" /\ ui.server = None /\ u.phase = "form" /\ ~u.acting
         \/ ui.phase = "form" /\ ~ui.acting /\ ~u.acting /\ u.phase = "error" /\ ui.open
  PROVE  IInv'
<1>1. Busy' = Busy /\ Acting' = Acting
  BY DEF Busy, Acting
<1>2. TypeOK /\ ServerInHand /\ PollCounts /\ OutcomeShown /\ Exist /\ (~stale => Settled)
  BY DEF IInv
<1>3. Landing(u) /\ poll' \in Poll \cup {None} /\ PollCounts'
  BY <1>2, CommitStep
<1>4. /\ u.phase = "form" => u.serverId = None
      /\ u.serverId # None => u.server # None /\ view'[u.serverId] # None
      /\ \A i \in Busy' : calls'[i].kind = "look" => view'[calls'[i].server] # None
  BY <1>1, <1>2 DEF ServerInHand, FormIsNew, Exist
<1>5. ~stale' =>
        /\ u.server # None => u.server.id = u.serverId
        /\ u.secret # None => u.secret.server = u.serverId
        /\ \A i \in Busy' : calls'[i].kind # "create" => calls'[i].server = u.serverId
        /\ \A i, j \in Acting' : i = j
        /\ u.acting <=> Acting' # {}
        /\ Acting' # {} => u.phase \notin {"form", "error"}
        /\ u.phase \in {"creating", "installing"} => Acting' # {}
        /\ \A i \in Busy' : calls'[i].kind = "create" => u.serverId = None
        /\ u.phase = "waiting" => u.serverId # None
        /\ ~u.open => u.phase = "form" /\ Busy' = {}
  BY <1>1, <1>2 DEF Settled, CallsAreFor, OneAction
<1>. QED
  BY <1>2, <1>3, <1>4, <1>5, Landed DEF TypeOK

LEMMA FormSteps ==
  ASSUME IInv, Open \/ ReturnToForm \/ SubmitOffline \/ \E mode \in Modes : ChooseMode(mode)
  PROVE  IInv'
<1>1. ui \in Ui
  BY DEF IInv, TypeOK
<1>2. CASE Open
  <2>. PICK u \in Ui : u = [ui EXCEPT !.open = TRUE]
    BY <1>1 DEF Ui
  <2>1. /\ u.serverId = ui.serverId /\ u.server = ui.server /\ u.secret = ui.secret
        /\ u.open /\ u.phase = ui.phase /\ u.acting = ui.acting
    BY <1>1 DEF Ui
  <2>. QED
    BY <1>2, <2>1, FormStep DEF Open
<1>3. CASE ReturnToForm
  <2>. PICK u \in Ui : u = [ui EXCEPT !.phase = "form", !.busy = FALSE, !.acting = FALSE]
    BY <1>1 DEF Ui, Phases
  <2>1. /\ u.serverId = ui.serverId /\ u.server = ui.server /\ u.secret = ui.secret
        /\ u.open = ui.open /\ u.phase = "form" /\ ~u.acting
    BY <1>1 DEF Ui
  <2>. QED
    BY <1>3, <2>1, FormStep DEF ReturnToForm
<1>4. CASE SubmitOffline
  <2>. PICK u \in Ui : u = [ui EXCEPT !.phase = "error"]
    BY <1>1 DEF Ui, Phases
  <2>1. /\ u.serverId = ui.serverId /\ u.server = ui.server /\ u.secret = ui.secret
        /\ u.open = ui.open /\ u.phase = "error" /\ u.acting = ui.acting
    BY <1>1 DEF Ui
  <2>. QED
    BY <1>4, <2>1, FormStep DEF SubmitOffline, Free
<1>5. ASSUME NEW mode \in Modes, ChooseMode(mode)
      PROVE  IInv'
  <2>. PICK u \in Ui : u = [ui EXCEPT !.mode = mode]
    BY <1>1 DEF Ui
  <2>1. /\ u.serverId = ui.serverId /\ u.server = ui.server /\ u.secret = ui.secret
        /\ u.open = ui.open /\ u.phase = ui.phase /\ u.acting = ui.acting
    BY <1>1 DEF Ui
  <2>. QED
    BY <1>5, <2>1, FormStep DEF ChooseMode
<1>. QED
  BY <1>2, <1>3, <1>4, <1>5

-----------------------------------------------------------------------------
(* The user's calls *)

LEMMA StartStep ==
  ASSUME IInv, NEW u \in Ui, NEW call \in Call, Start(call), Commit(u),
         u.open, u.serverId = ui.serverId, u.server = ui.server, u.secret = ui.secret,
         call.kind # "create" => call.server = ui.serverId /\ ui.serverId # None,
         call.kind = "create" => ui.serverId = None,
         \/ /\ call.kind \in Actions /\ ~ui.acting
            /\ u.acting /\ u.phase \in {"creating", "installing"}
         \/ /\ call.kind \notin Actions /\ u.acting = ui.acting
            /\ \/ u.phase = ui.phase
               \/ ui.serverId # None /\ u.phase \in {"waiting", "success"}
  PROVE  IInv'
<1>1. TypeOK /\ ServerInHand /\ PollCounts /\ OutcomeShown /\ Exist /\ (~stale => Settled)
  BY DEF IInv
<1>2. Landing(u) /\ poll' \in Poll \cup {None} /\ PollCounts'
  BY <1>1, CommitStep
<1>3. calls' \in [Slots -> Call \cup {None}] /\ UNCHANGED <<view, stale>>
  BY <1>1, CallsStarted
<1>4. PICK i \in Slots \ Busy :
        /\ Busy' = Busy \cup {i}
        /\ calls'[i] = call /\ \A j \in Busy : calls'[j] = calls[j]
        /\ Acting' = IF call.kind \in Actions THEN Acting \cup {i} ELSE Acting
  BY <1>1, CallsStarted
<1>5. /\ u.phase = "form" => u.serverId = None
      /\ u.serverId # None => u.server # None /\ view'[u.serverId] # None
      /\ \A j \in Busy' : calls'[j].kind = "look" => view'[calls'[j].server] # None
  BY <1>1, <1>3, <1>4 DEF ServerInHand, FormIsNew, Exist
<1>6. ASSUME ~stale'
      PROVE  /\ u.server # None => u.server.id = u.serverId
             /\ u.secret # None => u.secret.server = u.serverId
             /\ \A j \in Busy' : calls'[j].kind # "create" => calls'[j].server = u.serverId
             /\ \A j, k \in Acting' : j = k
             /\ u.acting <=> Acting' # {}
             /\ Acting' # {} => u.phase \notin {"form", "error"}
             /\ u.phase \in {"creating", "installing"} => Acting' # {}
             /\ \A j \in Busy' : calls'[j].kind = "create" => u.serverId = None
             /\ u.phase = "waiting" => u.serverId # None
             /\ ~u.open => u.phase = "form" /\ Busy' = {}
  <2>1. Settled
    BY <1>1, <1>3, <1>6
  <2>. QED
    BY <1>4, <2>1 DEF Settled, CallsAreFor, OneAction
<1>. QED
  BY <1>1, <1>2, <1>3, <1>5, <1>6, Landed DEF TypeOK

LEMMA CallSteps ==
  ASSUME IInv, Submit \/ Regenerate \/ RetryPoll \/ RetryAgent
  PROVE  IInv'
<1>1. ui \in Ui /\ ServerInHand /\ Exist /\ view \in [Servers -> Views \cup {None}]
  BY DEF IInv, TypeOK
<1>2. CASE Submit
  <2>. PICK u \in Ui : u = [ui EXCEPT !.phase = "creating", !.busy = TRUE, !.acting = TRUE]
    BY <1>1 DEF Ui, Phases
  <2>1. /\ u.serverId = ui.serverId /\ u.server = ui.server /\ u.secret = ui.secret
        /\ u.open = ui.open /\ u.phase = "creating" /\ u.acting
    BY <1>1 DEF Ui
  <2>2. PICK call : /\ call = [kind |-> "create", mode |-> ui.mode, keep |-> ~Expired(ui.secret)]
                    /\ Start(call)
    BY <1>2 DEF Submit
  <2>3. Expired(ui.secret) \in BOOLEAN
    BY <1>1 DEF Ui, Secret, Expired
  <2>4. call \in Call /\ call.kind = "create"
    BY <1>1, <2>2, <2>3 DEF Call, Ui
  <2>. QED
    BY <1>1, <1>2, <2>1, <2>2, <2>4, StartStep DEF Submit, Free, Actions, ServerInHand, FormIsNew
<1>3. CASE Regenerate
  <2>. PICK u \in Ui : u = [ui EXCEPT !.regenerating = TRUE]
    BY <1>1 DEF Ui
  <2>1. /\ u.serverId = ui.serverId /\ u.server = ui.server /\ u.secret = ui.secret
        /\ u.open = ui.open /\ u.phase = ui.phase /\ u.acting = ui.acting
    BY <1>1 DEF Ui
  <2>2. PICK call : call = [kind |-> "regenerate", server |-> ui.serverId] /\ Start(call)
    BY <1>3 DEF Regenerate
  <2>3. call \in Call /\ call.kind = "regenerate" /\ call.server = ui.serverId
    BY <1>1, <1>3, <2>2 DEF Call, Ui, Regenerate
  <2>4. ui.open /\ ui.serverId # None /\ Commit(u)
    BY <1>3 DEF Regenerate
  <2>5. u.open /\ call.kind # "create" /\ call.kind \notin Actions
    BY <2>1, <2>3, <2>4 DEF Actions
  <2>. QED
    BY <2>1, <2>2, <2>3, <2>4, <2>5, StartStep
<1>4. CASE RetryPoll
  <2>. PICK phase : phase = IF ui.mode = "auto" THEN "waiting" ELSE "success"
    OBVIOUS
  <2>. PICK u \in Ui : u = [ui EXCEPT !.timedOut = FALSE, !.pollError = FALSE, !.polls = 0, !.phase = phase]
    BY <1>1 DEF Ui, Phases
  <2>1. /\ u.serverId = ui.serverId /\ u.server = ui.server /\ u.secret = ui.secret
        /\ u.open = ui.open /\ u.phase = phase /\ u.acting = ui.acting
    BY <1>1 DEF Ui
  <2>2. PICK call : /\ call = [kind |-> "look", server |-> ui.serverId, seen |-> view[ui.serverId]]
                    /\ Start(call)
    BY <1>4 DEF RetryPoll
  <2>3. ui.serverId \in Servers /\ view[ui.serverId] \in Views
    BY <1>1, <1>4 DEF RetryPoll, Ui, Exist
  <2>4. call \in Call /\ call.kind = "look" /\ call.server = ui.serverId
    BY <2>2, <2>3 DEF Call
  <2>. QED
    BY <1>4, <2>1, <2>2, <2>4, StartStep DEF RetryPoll, Actions
<1>5. CASE RetryAgent
  <2>. PICK u \in Ui : u = [ui EXCEPT !.phase = "installing", !.busy = TRUE, !.acting = TRUE]
    BY <1>1 DEF Ui, Phases
  <2>1. /\ u.serverId = ui.serverId /\ u.server = ui.server /\ u.secret = ui.secret
        /\ u.open = ui.open /\ u.phase = "installing" /\ u.acting
    BY <1>1 DEF Ui
  <2>2. PICK call : call = [kind |-> "retry", server |-> ui.serverId, mode |-> ui.mode] /\ Start(call)
    BY <1>5 DEF RetryAgent
  <2>3. call \in Call /\ call.kind = "retry" /\ call.server = ui.serverId
    BY <1>1, <1>5, <2>2 DEF Call, Ui, RetryAgent
  <2>. QED
    BY <1>5, <2>1, <2>2, <2>3, StartStep DEF RetryAgent, Free, Actions
<1>. QED
  BY <1>2, <1>3, <1>4, <1>5

-----------------------------------------------------------------------------
(* Their answers *)

\* An answer that leaves the server in hand: it may bring news of the server
\* it was asked for, and it ends the submission or retry if it was of one.
LEMMA AnswerStep ==
  ASSUME IInv, NEW u \in Ui, NEW i \in Busy, Answered(i, u) \/ (Shows(Reread(u)) /\ Over(i)),
         view' \in [Servers -> Views \cup {None}],
         \A s \in Servers : view[s] # None => view'[s] # None,
         u.open = ui.open, u.serverId = ui.serverId,
         \/ u.server = ui.server
         \/ calls[i].kind # "create" /\ u.server # None /\ u.server.id = calls[i].server,
         \/ u.secret = ui.secret
         \/ calls[i].kind # "create" /\ u.secret # None /\ u.secret.server = calls[i].server,
         \/ /\ calls[i].kind \in Actions /\ ~u.acting
            /\ \/ u.phase \in {"partial", "success", "error"}
               \/ u.phase = "waiting" /\ calls[i].kind # "create"
         \/ calls[i].kind \notin Actions /\ u.acting = ui.acting /\ u.phase = ui.phase
  PROVE  IInv'
<1>1. TypeOK /\ ServerInHand /\ PollCounts /\ OutcomeShown /\ Exist /\ (~stale => Settled) /\ i \in Slots
  BY DEF IInv, Busy
<1>2. /\ calls' \in [Slots -> Call \cup {None}]
      /\ Busy' = Busy \ {i} /\ Acting' = Acting \ {i}
      /\ \A j \in Busy' : calls'[j] = calls[j]
      /\ UNCHANGED stale
  BY <1>1, CallsAnswered DEF Answered
<1>3. Landing(u) /\ poll' \in Poll \cup {None} /\ PollCounts'
  BY <1>1, CommitStep DEF Answered
<1>4. \A j \in Busy : calls[j] \in Call /\ (calls[j].kind # "create" => calls[j].server \in Servers)
  BY <1>1 DEF TypeOK, Busy, Call
<1>5. \A j \in Busy' : calls'[j].kind = "look" => view'[calls'[j].server] # None
  BY <1>1, <1>2, <1>4 DEF Exist
<1>6. /\ u.phase = "form" => u.serverId = None
      /\ u.serverId # None => u.server # None /\ view'[u.serverId] # None
  BY <1>1 DEF ServerInHand, FormIsNew, Exist, TypeOK, Ui
<1>7. ASSUME ~stale'
      PROVE  /\ u.server # None => u.server.id = u.serverId
             /\ u.secret # None => u.secret.server = u.serverId
             /\ \A j \in Busy' : calls'[j].kind # "create" => calls'[j].server = u.serverId
             /\ \A j, k \in Acting' : j = k
             /\ u.acting <=> Acting' # {}
             /\ Acting' # {} => u.phase \notin {"form", "error"}
             /\ u.phase \in {"creating", "installing"} => Acting' # {}
             /\ \A j \in Busy' : calls'[j].kind = "create" => u.serverId = None
             /\ u.phase = "waiting" => u.serverId # None
             /\ ~u.open => u.phase = "form" /\ Busy' = {}
  <2>1. Settled
    BY <1>1, <1>2, <1>7
  <2>2. calls[i].kind # "create" => calls[i].server = ui.serverId /\ ui.serverId # None
    BY <1>4, <2>1, WizardAssumption DEF Settled, CallsAreFor
  <2>3. u.open
    BY <2>1 DEF Settled
  <2>4. /\ u.server # None => u.server.id = u.serverId
        /\ u.secret # None => u.secret.server = u.serverId
    BY <2>1, <2>2 DEF Settled
  <2>5. \A j \in Busy' : /\ calls'[j].kind # "create" => calls'[j].server = u.serverId
                         /\ calls'[j].kind = "create" => u.serverId = None
    BY <1>2, <2>1 DEF Settled, CallsAreFor
  <2>6. CASE calls[i].kind \in Actions
    <3>1. Acting' = {}
      BY <1>2, <2>1, <2>6 DEF Settled, OneAction, Acting
    <3>. QED
      BY <2>2, <2>3, <2>4, <2>5, <2>6, <3>1
  <2>7. CASE calls[i].kind \notin Actions
    <3>1. Acting' = Acting
      BY <1>2, <2>7 DEF Acting
    <3>. QED
      BY <2>1, <2>3, <2>4, <2>5, <2>7, <3>1 DEF Settled, OneAction
  <2>. QED
    BY <2>6, <2>7
<1>. QED
  BY <1>1, <1>2, <1>3, <1>5, <1>6, <1>7, Landed DEF TypeOK

\* A create that is answered while its wizard is still shown is the only call,
\* and nothing is in hand yet.
LEMMA CreateAlone ==
  ASSUME TypeOK, Settled, NEW i \in Busy, calls[i].kind = "create"
  PROVE  /\ Busy = {i} /\ Acting = {i} /\ ui.open
         /\ ui.serverId = None /\ ui.secret = None
<1>1. ui.serverId = None /\ ui.open
  BY DEF Settled
<1>2. \A j \in Busy : calls[j] \in Call /\ (calls[j].kind # "create" => calls[j].server \in Servers)
  BY DEF TypeOK, Busy, Call
<1>3. \A j \in Busy : calls[j].kind = "create"
  BY <1>1, <1>2, WizardAssumption DEF Settled, CallsAreFor
<1>4. Acting = Busy
  BY <1>3 DEF Acting, Actions
<1>5. ui.secret = None
  BY <1>1, WizardAssumption DEF Settled, TypeOK, Ui, Secret
<1>. QED
  BY <1>1, <1>4, <1>5 DEF Settled, OneAction

LEMMA CreateOkStep ==
  ASSUME IInv, NEW i \in Slots, CreateOk(i)
  PROVE  IInv'
<1>1. TypeOK /\ PollCounts /\ OutcomeShown /\ Exist /\ (~stale => Settled) /\ i \in Busy /\ calls[i].kind = "create"
  BY DEF IInv, CreateOk, Is
<1>2. PICK s : s = NewServer /\ s \in New /\ view' = [view EXCEPT ![s] = "pending"]
  BY DEF CreateOk, NewServer
<1>3. /\ s \in Servers /\ view' \in [Servers -> Views \cup {None}] /\ view'[s] = "pending" /\ view'[s] # None
      /\ \A t \in Servers : view[t] # None => view'[t] # None
  <2>1. s \in Servers /\ "pending" \in Views /\ view \in [Servers -> Views \cup {None}] /\ view[s] = None
    BY <1>1, <1>2 DEF New, Views, TypeOK
  <2>2. "pending" # None
    BY <2>1, WizardAssumption
  <2>. QED
    BY <1>2, <2>1, <2>2
<1>4. PICK u0 \in Ui : u0 = Created(ui, s)
  <2>1. [id |-> s, view |-> "pending"] \in ServerShown
    BY <1>3 DEF ServerShown, Views
  <2>. QED
    BY <1>1, <1>3, <2>1 DEF Created, TypeOK, Ui
<1>5. /\ u0.open = ui.open /\ u0.serverId = s /\ u0.secret = ui.secret
      /\ u0.server # None /\ u0.server.id = s
  <2>1. [id |-> s, view |-> "pending"] \in ServerShown
    BY <1>3 DEF ServerShown, Views
  <2>2. [id |-> s, view |-> "pending"] # None
    BY <2>1, WizardAssumption
  <2>. QED
    BY <1>1, <1>4, <2>2 DEF Created, TypeOK, Ui
<1>6. calls[i] \in Call /\ s # None /\ calls[i].mode \in Modes
  BY <1>1, <1>3, WizardAssumption DEF TypeOK, Busy, Call
<1>7. ASSUME NEW phase \in {"partial", "waiting", "success"},
             Answered(i, [Done(u0) EXCEPT !.phase = phase])
      PROVE  IInv'
  <2>. PICK u \in Ui : u = [Done(u0) EXCEPT !.phase = phase]
    BY <1>4 DEF Done, Ui, Phases
  <2>1. /\ u.open = ui.open /\ u.serverId = s /\ u.secret = ui.secret
        /\ u.server # None /\ u.server.id = s /\ u.phase = phase /\ ~u.acting
    BY <1>4, <1>5 DEF Done, Ui
  <2>2. /\ calls' \in [Slots -> Call \cup {None}]
        /\ Busy' = Busy \ {i} /\ Acting' = Acting \ {i}
        /\ \A j \in Busy' : calls'[j] = calls[j]
        /\ Commit(u) /\ UNCHANGED stale
    BY <1>1, <1>7, CallsAnswered DEF Answered
  <2>3. Landing(u) /\ poll' \in Poll \cup {None} /\ PollCounts'
    BY <1>1, <2>2, CommitStep
  <2>4. \A j \in Busy' : calls'[j].kind = "look" => view'[calls'[j].server] # None
    <3>1. \A j \in Busy : calls[j].kind = "look" => calls[j].server \in Servers
      BY <1>1 DEF TypeOK, Busy, Call
    <3>. QED
      BY <1>1, <1>3, <2>2, <3>1 DEF Exist
  <2>5. ~stale' => Busy' = {} /\ Acting' = {} /\ ui.open /\ u.secret = None
    BY <1>1, <2>1, <2>2, CreateAlone
  <2>. QED
    BY <1>1, <1>3, <1>6, <2>1, <2>2, <2>3, <2>4, <2>5, Landed DEF TypeOK
<1>8. ASSUME Commit([u0 EXCEPT !.phase = "installing"]), UNCHANGED stale,
             calls' = [calls EXCEPT ![i] = [kind |-> "issue", server |-> s, mode |-> calls[i].mode]]
      PROVE  IInv'
  <2>. PICK u \in Ui : u = [u0 EXCEPT !.phase = "installing"]
    BY <1>4 DEF Ui, Phases
  <2>1. /\ u.open = ui.open /\ u.serverId = s /\ u.secret = ui.secret
        /\ u.server # None /\ u.server.id = s /\ u.phase = "installing" /\ u.acting = ui.acting
    BY <1>4, <1>5 DEF Created, Ui
  <2>2. PICK call \in Call : call = [kind |-> "issue", server |-> s, mode |-> calls[i].mode]
    BY <1>3, <1>6 DEF Call
  <2>3. /\ calls' \in [Slots -> Call \cup {None}]
        /\ calls'[i] = call /\ \A j \in Slots : j # i => calls'[j] = calls[j]
    BY <1>1, <1>8, <2>2 DEF TypeOK
  <2>4. call.kind = "issue" /\ call.server = s /\ call # None
    BY <2>2, WizardAssumption
  <2>5. Busy' = Busy /\ Acting' = Acting
    BY <1>1, <2>3, <2>4 DEF Busy, Acting, Actions
  <2>6. Commit(u)
    BY <1>8
  <2>7. Landing(u) /\ poll' \in Poll \cup {None} /\ PollCounts'
    BY <1>1, <2>6, CommitStep
  <2>8. \A j \in Busy' : calls'[j].kind = "look" => view'[calls'[j].server] # None
    <3>1. \A j \in Busy : j \in Slots /\ (calls[j].kind = "look" => calls[j].server \in Servers)
      BY <1>1 DEF TypeOK, Busy, Call
    <3>. QED
      BY <1>1, <1>3, <2>3, <2>4, <2>5, <3>1 DEF Exist
  <2>9. ~stale' => /\ Busy' = {i} /\ Acting' = {i} /\ ui.open /\ u.secret = None /\ u.acting
    BY <1>1, <1>8, <2>1, <2>5, CreateAlone DEF Settled
  <2>. QED
    BY <1>1, <1>3, <1>6, <1>8, <2>1, <2>3, <2>4, <2>7, <2>8, <2>9, Landed DEF TypeOK
<1>. QED
  <2>1. AfterInstall(calls[i].mode) \in {"waiting", "success"}
    BY DEF AfterInstall
  <2>. QED
    BY <1>2, <1>4, <1>7, <1>8, <2>1 DEF CreateOk

LEMMA CreateFailStep ==
  ASSUME IInv, NEW i \in Slots, CreateFail(i)
  PROVE  IInv'
<1>1. TypeOK /\ i \in Busy /\ calls[i].kind = "create"
  BY DEF IInv, CreateFail, Is
<1>. PICK u \in Ui : u = Failed(ui)
  BY <1>1 DEF TypeOK, Failed, Done, Ui, Phases
<1>2. /\ u.open = ui.open /\ u.serverId = ui.serverId /\ u.server = ui.server
      /\ u.secret = ui.secret /\ u.phase \in {"partial", "error"} /\ ~u.acting
  BY <1>1 DEF TypeOK, Failed, Done, Ui
<1>3. /\ view' \in [Servers -> Views \cup {None}]
      /\ \A s \in Servers : view[s] # None => view'[s] # None
  <2>1. CASE UNCHANGED view
    BY <1>1, <2>1 DEF TypeOK
  <2>2. CASE New # {} /\ view' = [view EXCEPT ![NewServer] = "pending"]
    <3>1. NewServer \in Servers /\ view[NewServer] = None
      BY <2>2 DEF New, NewServer
    <3>. QED
      BY <1>1, <2>2, <3>1 DEF TypeOK, Views
  <2>. QED
    BY <2>1, <2>2 DEF CreateFail
<1>4. Answered(i, u) /\ calls[i].kind \in Actions
  BY <1>1 DEF CreateFail, Actions
<1>. QED
  BY <1>1, <1>2, <1>3, <1>4, AnswerStep

\* An answered issue or retry ends the installation.
LEMMA InstallSteps ==
  ASSUME IInv, NEW i \in Slots, IssueOk(i) \/ IssueFail(i) \/ RetryOk(i) \/ RetryFail(i)
  PROVE  IInv'
<1>1. TypeOK /\ i \in Busy /\ calls[i].kind \in {"issue", "retry"} /\ view' = view
  BY DEF IInv, IssueOk, IssueFail, RetryOk, RetryFail, Is
<1>2. /\ calls[i].server \in Servers /\ calls[i].kind \in Actions /\ calls[i].kind # "create"
      /\ view' \in [Servers -> Views \cup {None}]
      /\ \A s \in Servers : view[s] # None => view'[s] # None
  BY <1>1 DEF TypeOK, Busy, Call, Actions
<1>3. PICK token \in Secret : token = [server |-> calls[i].server, lapsed |-> FALSE]
  BY <1>2 DEF Secret
<1>4. token # None /\ token.server = calls[i].server
  BY <1>3, WizardAssumption
<1>5. PICK u0 \in Ui : u0 = Done(Issued(ui, calls[i].server))
  BY <1>1, <1>3 DEF TypeOK, Done, Issued, Ui
<1>6. /\ u0.open = ui.open /\ u0.serverId = ui.serverId /\ u0.server = ui.server
      /\ u0.secret = token /\ ~u0.acting
  BY <1>1, <1>3, <1>5 DEF TypeOK, Done, Issued, Ui
<1>7. ASSUME NEW phase \in {"waiting", "success"}, Answered(i, [u0 EXCEPT !.phase = phase])
      PROVE  IInv'
  <2>. PICK u \in Ui : u = [u0 EXCEPT !.phase = phase]
    BY <1>5 DEF Ui, Phases
  <2>1. /\ u.open = ui.open /\ u.serverId = ui.serverId /\ u.server = ui.server
        /\ u.secret = token /\ ~u.acting /\ u.phase = phase
    BY <1>6 DEF Ui
  <2>. QED
    BY <1>1, <1>2, <1>4, <1>7, <2>1, AnswerStep
<1>8. ASSUME NEW phase \in {"waiting", "success"},
             Answered(i, [u0 EXCEPT !.timedOut = FALSE, !.polls = 0, !.phase = phase])
      PROVE  IInv'
  <2>. PICK u \in Ui : u = [u0 EXCEPT !.timedOut = FALSE, !.polls = 0, !.phase = phase]
    BY <1>5 DEF Ui, Phases
  <2>1. /\ u.open = ui.open /\ u.serverId = ui.serverId /\ u.server = ui.server
        /\ u.secret = token /\ ~u.acting /\ u.phase = phase
    BY <1>6 DEF Ui
  <2>. QED
    BY <1>1, <1>2, <1>4, <1>8, <2>1, AnswerStep
<1>9. ASSUME NEW phase \in {"partial", "error"}, Answered(i, [Done(ui) EXCEPT !.phase = phase])
      PROVE  IInv'
  <2>. PICK u \in Ui : u = [Done(ui) EXCEPT !.phase = phase]
    BY <1>1 DEF TypeOK, Done, Ui, Phases
  <2>1. /\ u.open = ui.open /\ u.serverId = ui.serverId /\ u.server = ui.server
        /\ u.secret = ui.secret /\ ~u.acting /\ u.phase = phase
    BY <1>1 DEF TypeOK, Done, Ui
  <2>. QED
    BY <1>1, <1>2, <1>9, <2>1, AnswerStep
<1>10. CASE IssueOk(i)
  <2>1. AfterInstall(calls[i].mode) \in {"waiting", "success"}
    BY DEF AfterInstall
  <2>. QED
    BY <1>5, <1>7, <1>10, <2>1 DEF IssueOk
<1>11. CASE IssueFail(i)
  <2>1. PICK phase \in {"partial", "error"} : phase = IF ui.snapshot THEN "partial" ELSE "error"
    OBVIOUS
  <2>. QED
    BY <1>9, <1>11, <2>1 DEF IssueFail, Failed
<1>12. CASE RetryOk(i)
  <2>1. PICK phase \in {"waiting", "success"} :
          phase = IF calls[i].mode = "manual" THEN "success" ELSE "waiting"
    OBVIOUS
  <2>. QED
    BY <1>5, <1>8, <1>12, <2>1 DEF RetryOk
<1>13. CASE RetryFail(i)
  BY <1>9, <1>13 DEF RetryFail
<1>. QED
  BY <1>10, <1>11, <1>12, <1>13

\* A regenerated token and a second look leave the phase alone.
LEMMA PanelSteps ==
  ASSUME IInv, NEW i \in Slots, RegenerateOk(i) \/ RegenerateFail(i) \/ LookOk(i) \/ LookFail(i)
  PROVE  IInv'
<1>1. TypeOK /\ Exist /\ i \in Busy /\ calls[i].kind \in {"regenerate", "look"} /\ view' = view
  BY DEF IInv, RegenerateOk, RegenerateFail, LookOk, LookFail, Is
<1>2. /\ calls[i] \in Call /\ calls[i].server \in Servers
      /\ calls[i].kind \notin Actions /\ calls[i].kind # "create"
      /\ view' \in [Servers -> Views \cup {None}]
      /\ \A s \in Servers : view[s] # None => view'[s] # None
  BY <1>1 DEF TypeOK, Busy, Call, Actions
<1>3. CASE RegenerateOk(i)
  <2>1. PICK token \in Secret : token = [server |-> calls[i].server, lapsed |-> FALSE]
    BY <1>2 DEF Secret
  <2>2. token # None /\ token.server = calls[i].server
    BY <2>1, WizardAssumption
  <2>. PICK u \in Ui : u = [Issued(ui, calls[i].server) EXCEPT !.regenerating = FALSE]
    BY <1>1, <2>1 DEF TypeOK, Issued, Ui
  <2>3. /\ u.open = ui.open /\ u.serverId = ui.serverId /\ u.server = ui.server
        /\ u.secret = token /\ u.acting = ui.acting /\ u.phase = ui.phase
    BY <1>1, <2>1 DEF TypeOK, Issued, Ui
  <2>4. Answered(i, u)
    BY <1>3 DEF RegenerateOk
  <2>. QED
    BY <1>1, <1>2, <2>2, <2>3, <2>4, AnswerStep
<1>4. CASE RegenerateFail(i)
  <2>. PICK u \in Ui : u = [ui EXCEPT !.regenerating = FALSE]
    BY <1>1 DEF TypeOK, Ui
  <2>1. /\ u.open = ui.open /\ u.serverId = ui.serverId /\ u.server = ui.server
        /\ u.secret = ui.secret /\ u.acting = ui.acting /\ u.phase = ui.phase
    BY <1>1 DEF TypeOK, Ui
  <2>2. Answered(i, u)
    BY <1>4 DEF RegenerateFail
  <2>. QED
    BY <1>1, <1>2, <2>1, <2>2, AnswerStep
<1>5. CASE LookOk(i)
  <2>1. calls[i].kind = "look"
    BY <1>5 DEF LookOk, Is
  <2>2. PICK v \in {calls[i].seen, view[calls[i].server]} :
          Shows(Reread(Applied(ui, calls[i].server, v))) /\ Over(i)
    BY <1>5 DEF LookOk
  <2>3. v \in Views
    BY <1>1, <1>2, <2>1, <2>2 DEF Exist, TypeOK, Call
  <2>4. PICK shown \in ServerShown : shown = [id |-> calls[i].server, view |-> v]
    BY <1>2, <2>3 DEF ServerShown
  <2>5. shown # None /\ shown.id = calls[i].server
    BY <2>4, WizardAssumption
  <2>. PICK u \in Ui : u = Applied(ui, calls[i].server, v)
    BY <1>1, <2>4 DEF TypeOK, Applied, Ui
  <2>6. /\ u.open = ui.open /\ u.serverId = ui.serverId /\ u.server = shown
        /\ u.secret = ui.secret /\ u.acting = ui.acting /\ u.phase = ui.phase
    BY <1>1, <2>4 DEF TypeOK, Applied, Ui
  <2>. QED
    BY <1>1, <1>2, <2>2, <2>5, <2>6, AnswerStep
<1>6. CASE LookFail(i)
  <2>. PICK u \in Ui : u = [ui EXCEPT !.pollError = TRUE]
    BY <1>1 DEF TypeOK, Ui
  <2>1. /\ u.open = ui.open /\ u.serverId = ui.serverId /\ u.server = ui.server
        /\ u.secret = ui.secret /\ u.acting = ui.acting /\ u.phase = ui.phase
    BY <1>1 DEF TypeOK, Ui
  <2>2. Answered(i, u)
    BY <1>6 DEF LookFail
  <2>. QED
    BY <1>1, <1>2, <2>1, <2>2, AnswerStep
<1>. QED
  BY <1>3, <1>4, <1>5, <1>6

-----------------------------------------------------------------------------
(* The poll and the world *)

\* A step that commits u, makes and answers no call, and shows at most news of
\* the server in hand.
LEMMA PolledStep ==
  ASSUME IInv, NEW u \in Ui, ui' \in {Committed(u), Reread(u)}, poll' = None,
         UNCHANGED <<calls, view, stale>>,
         u.open = ui.open, u.serverId = ui.serverId, u.secret = ui.secret,
         u.acting = ui.acting, u.phase = ui.phase,
         \/ u.server = ui.server
         \/ u.server # None /\ u.server.id = ui.serverId
  PROVE  IInv'
<1>1. Busy' = Busy /\ Acting' = Acting /\ PollCounts' /\ Landing(u)
  BY CommitLands DEF IInv, Busy, Acting, PollCounts
<1>2. TypeOK /\ ServerInHand /\ Exist /\ (~stale => Settled)
  BY DEF IInv
<1>3. /\ u.phase = "form" => u.serverId = None
      /\ u.serverId # None => u.server # None /\ view'[u.serverId] # None
      /\ \A i \in Busy' : calls'[i].kind = "look" => view'[calls'[i].server] # None
  BY <1>1, <1>2 DEF ServerInHand, FormIsNew, Exist
<1>4. ~stale' =>
        /\ u.server # None => u.server.id = u.serverId
        /\ u.secret # None => u.secret.server = u.serverId
        /\ \A i \in Busy' : calls'[i].kind # "create" => calls'[i].server = u.serverId
        /\ \A i, j \in Acting' : i = j
        /\ u.acting <=> Acting' # {}
        /\ Acting' # {} => u.phase \notin {"form", "error"}
        /\ u.phase \in {"creating", "installing"} => Acting' # {}
        /\ \A i \in Busy' : calls'[i].kind = "create" => u.serverId = None
        /\ u.phase = "waiting" => u.serverId # None
        /\ ~u.open => u.phase = "form" /\ Busy' = {}
  BY <1>1, <1>2 DEF Settled, CallsAreFor, OneAction
<1>. QED
  BY <1>1, <1>2, <1>3, <1>4, Landed DEF TypeOK

LEMMA PollSteps ==
  ASSUME IInv, PollSend \/ PollOk \/ PollFail
  PROVE  IInv'
<1>1. TypeOK /\ PollCounts /\ Exist
  BY DEF IInv
<1>2. CASE UNCHANGED ui /\ poll' = None /\ UNCHANGED <<calls, view, stale>>
  BY <1>1, <1>2 DEF IInv, TypeOK, ServerInHand, FormIsNew, PollCounts, OutcomeShown, Exist, Settled,
                    CallsAreFor, OneAction, Acting, Busy
<1>3. CASE PollSend
  <2>1. ui.serverId \in Servers /\ view[ui.serverId] \in Views
    BY <1>1, <1>3 DEF PollSend, Polling, TypeOK, Ui, Exist
  <2>2. poll' \in Poll /\ PollCounts'
    BY <1>3, <2>1 DEF PollSend, Polling, Poll, PollCounts
  <2>. QED
    BY <1>3, <2>2 DEF IInv, TypeOK, ServerInHand, FormIsNew, OutcomeShown, Exist, Settled,
                      CallsAreFor, OneAction, Acting, Busy, PollSend
<1>4. ASSUME poll # None, poll.live, poll' = None, UNCHANGED <<calls, view, stale>>,
             NEW v \in {poll.seen, view[poll.server]},
             ui' = Reread(Counted(Applied(ui, poll.server, v), v))
      PROVE  IInv'
  <2>1. poll.server = ui.serverId /\ poll.server \in Servers /\ poll.seen \in Views
    <3>1. poll # CancelledPoll
      BY <1>4 DEF CancelledPoll
    <3>2. poll \in [live : {TRUE}, server : Servers, seen : Views]
      BY <1>1, <1>4, <3>1 DEF TypeOK, Poll
    <3>. QED
      BY <1>1, <1>4, <3>2 DEF PollCounts
  <2>2. v \in Views
    BY <1>1, <1>4, <2>1, WizardAssumption DEF Exist, TypeOK
  <2>3. PICK shown \in ServerShown : shown = [id |-> poll.server, view |-> v]
    BY <2>1, <2>2 DEF ServerShown
  <2>4. shown # None /\ shown.id = ui.serverId
    BY <2>1, <2>3, WizardAssumption
  <2>. PICK u0 \in Ui : u0 = Applied(ui, poll.server, v)
    BY <1>1, <2>3 DEF TypeOK, Applied, Ui
  <2>5. /\ u0.open = ui.open /\ u0.serverId = ui.serverId /\ u0.server = shown
        /\ u0.secret = ui.secret /\ u0.acting = ui.acting /\ u0.phase = ui.phase
    BY <1>1, <2>3 DEF TypeOK, Applied, Ui
  <2>6. PICK late \in BOOLEAN : late <=> u0.timedOut \/ (u0.polls + 1 >= PollLimit /\ v # "online")
    OBVIOUS
  <2>. PICK polls \in Nat : polls = u0.polls + 1
    BY DEF Ui
  <2>. PICK u \in Ui : u = [u0 EXCEPT !.polls = polls, !.timedOut = late]
    BY DEF Ui
  <2>7. /\ u.open = ui.open /\ u.serverId = ui.serverId /\ u.server = shown
        /\ u.secret = ui.secret /\ u.acting = ui.acting /\ u.phase = ui.phase
    BY <2>5 DEF Ui
  <2>8. Counted(u0, v) = u
    BY <2>6 DEF Counted, Ui
  <2>. QED
    BY <1>4, <2>4, <2>7, <2>8, PolledStep
<1>5. CASE poll # None /\ poll.live /\ PollFail
  <2>. PICK u \in Ui : u = [ui EXCEPT !.pollError = TRUE]
    BY <1>1 DEF TypeOK, Ui
  <2>1. /\ u.open = ui.open /\ u.serverId = ui.serverId /\ u.server = ui.server
        /\ u.secret = ui.secret /\ u.acting = ui.acting /\ u.phase = ui.phase
    BY <1>1 DEF TypeOK, Ui
  <2>2. ui' = Committed(u) /\ poll' = None /\ UNCHANGED <<calls, view, stale>>
    BY <1>5 DEF PollFail
  <2>. QED
    BY <2>1, <2>2, PolledStep
<1>6. CASE PollOk
  <2>1. /\ poll # None /\ poll' = None /\ UNCHANGED <<calls, view, stale>>
        /\ \/ /\ poll.live
              /\ \E v \in {poll.seen, view[poll.server]} :
                   ui' = Reread(Counted(Applied(ui, poll.server, v), v))
           \/ ~poll.live /\ UNCHANGED ui
    BY <1>6 DEF PollOk
  <2>2. CASE ~poll.live /\ UNCHANGED ui
    BY <1>2, <2>1, <2>2
  <2>3. CASE poll.live /\ \E v \in {poll.seen, view[poll.server]} :
                            ui' = Reread(Counted(Applied(ui, poll.server, v), v))
    <3>. PICK v \in {poll.seen, view[poll.server]} :
                ui' = Reread(Counted(Applied(ui, poll.server, v), v))
      BY <2>3
    <3>. QED
      BY <1>4, <2>1, <2>3
  <2>. QED
    BY <2>1, <2>2, <2>3
<1>7. CASE PollFail /\ ~poll.live
  BY <1>2, <1>7 DEF PollFail
<1>8. CASE PollFail /\ poll.live
  BY <1>5, <1>8 DEF PollFail
<1>. QED
  BY <1>3, <1>6, <1>7, <1>8

LEMMA LapseStep ==
  ASSUME IInv, Lapse
  PROVE  IInv'
<1>1. TypeOK
  BY DEF IInv
<1>2. PICK token \in Secret : token = [ui.secret EXCEPT !.lapsed = TRUE]
  BY <1>1 DEF Lapse, TypeOK, Ui, Secret
<1>3. token # None /\ token.server = ui.secret.server /\ ui.secret # None
  BY <1>1, <1>2, WizardAssumption DEF Lapse, TypeOK, Ui, Secret
<1>4. PICK u \in Ui : u = [ui EXCEPT !.secret = token]
  BY <1>1 DEF TypeOK, Ui
<1>5. ui' = u /\ UNCHANGED <<poll, calls, view, stale>>
  BY <1>1, <1>2, <1>4 DEF Lapse
<1>6. /\ u.open = ui.open /\ u.serverId = ui.serverId /\ u.server = ui.server
      /\ u.secret = token /\ u.acting = ui.acting /\ u.phase = ui.phase
      /\ u.timedOut = ui.timedOut /\ u.outcome = ui.outcome
  BY <1>1, <1>4 DEF TypeOK, Ui
<1>7. Busy' = Busy /\ Acting' = Acting
  BY <1>5 DEF Busy, Acting
<1>8. TypeOK'
  BY <1>1, <1>5 DEF TypeOK
<1>9. ServerInHand' /\ PollCounts' /\ OutcomeShown' /\ Exist'
  BY <1>5, <1>6, <1>7 DEF IInv, ServerInHand, FormIsNew, PollCounts, OutcomeShown, Exist
<1>10. ~stale' => Settled'
  BY <1>3, <1>5, <1>6, <1>7 DEF IInv, Settled, CallsAreFor, OneAction
<1>. QED
  BY <1>8, <1>9, <1>10 DEF IInv

LEMMA ReportStep ==
  ASSUME IInv, NEW s \in Servers, Report(s)
  PROVE  IInv'
<1>1. TypeOK
  BY DEF IInv
<1>2. PICK v \in Views : view' = [view EXCEPT ![s] = v]
  BY WizardAssumption DEF Report, Follows
<1>3. /\ UNCHANGED <<ui, poll, calls, stale>>
      /\ view' \in [Servers -> Views \cup {None}]
      /\ \A t \in Servers : view[t] # None => view'[t] # None
  BY <1>1, <1>2, WizardAssumption DEF Report, TypeOK
<1>4. Busy' = Busy /\ Acting' = Acting
  BY <1>3 DEF Busy, Acting
<1>5. \A i \in Busy : calls[i].kind = "look" => calls[i].server \in Servers
  BY <1>1 DEF TypeOK, Busy, Call
<1>6. TypeOK' /\ Exist'
  BY <1>1, <1>3, <1>4, <1>5 DEF IInv, TypeOK, Ui, Exist
<1>7. ServerInHand' /\ PollCounts' /\ OutcomeShown'
  BY <1>3 DEF IInv, ServerInHand, FormIsNew, PollCounts, OutcomeShown
<1>8. ~stale' => Settled'
  BY <1>3, <1>4 DEF IInv, Settled, CallsAreFor, OneAction
<1>. QED
  BY <1>6, <1>7, <1>8 DEF IInv

-----------------------------------------------------------------------------
(* News of a server *)

\* The server exists and its agent has connected: it is never pending again.
Met(v) == v \notin {None, "pending"}

\* What is shown of a server, and what a read in flight has seen of it, is not
\* ahead of the server.
NewsIsPast ==
  /\ ui.server # None => (ui.server.view # "pending" => Met(view[ui.server.id]))
  /\ poll # None => (poll.live => (poll.seen # "pending" => Met(view[poll.server])))
  /\ \A i \in Busy : calls[i].kind = "look" => (calls[i].seen # "pending" => Met(view[calls[i].server]))

\* A wizard that was not reset under a call waits in the automatic mode alone,
\* and its submission is of the mode it shows.
ModeFits ==
  ~stale => /\ ui.phase = "waiting" => ui.mode = "auto"
            /\ \A i \in Acting : /\ calls[i].mode = ui.mode
                                 /\ calls[i].kind # "create" => calls[i].mode # "none"

NewsInv == NewsIsPast /\ ModeFits

Truth ==
  \/ ~ui.notified /\ ui'.notified
  \/ ui.phase = "waiting" /\ ui'.phase = "success"
  => stale' \/ (ui'.serverId # None /\ view'[ui'.serverId] # "pending")

LEMMA LivePoll ==
  ASSUME TypeOK, poll # None, poll.live
  PROVE  poll.server \in Servers /\ poll.seen \in Views
<1>1. poll # CancelledPoll
  BY DEF CancelledPoll
<1>2. poll \in [live : {TRUE}, server : Servers, seen : Views]
  BY <1>1 DEF TypeOK, Poll
<1>. QED
  BY <1>2

\* A commit of u tells nothing but the news in u.
LEMMA NewsLanded ==
  ASSUME IInv, IInv', NewsInv, NEW u \in Ui, Landing(u),
         poll' \in {poll, None, CancelledPoll},
         \A s \in Servers : Met(view[s]) => Met(view'[s]),
         \/ u.server = ui.server
         \/ u.server # None => (u.server.view # "pending" => Met(view'[u.server.id])),
         \A i \in Busy' :
           \/ i \in Busy /\ calls'[i] = calls[i]
           \/ calls'[i].kind = "look" => (calls'[i].seen # "pending" => Met(view'[calls'[i].server])),
         ~stale' =>
           /\ u.phase = "waiting" => u.mode = "auto"
           /\ \A i \in Acting' : /\ calls'[i].mode = u.mode
                                 /\ calls'[i].kind # "create" => calls'[i].mode # "none"
           /\ ui.phase = "waiting" => u.phase # "success",
         u.notified => ui.notified
  PROVE  NewsInv' /\ Truth
<1>1. /\ ui'.serverId = u.serverId /\ ui'.server = u.server
      /\ ui'.phase = "waiting" => u.phase = "waiting"
  BY LandedUi
<1>2. /\ ui'.mode = u.mode
      /\ ui'.notified => u.notified \/ Reported(u.server)
      /\ ui'.phase = "success" => u.phase = "success" \/ Reported(u.server)
  BY LandedUi
<1>3. NewsIsPast'
  <2>1. u.server # None => (u.server.view # "pending" => Met(view'[u.server.id]))
    <3>1. ui.server # None => ui.server.id \in Servers
      BY DEF IInv, TypeOK, Ui, ServerShown
    <3>. QED
      BY <3>1 DEF NewsInv, NewsIsPast
  <2>2. poll' # None => (poll'.live => (poll'.seen # "pending" => Met(view'[poll'.server])))
    <3>1. CASE poll' = poll
      <4>1. poll # None /\ poll.live => poll.server \in Servers
        BY LivePoll DEF IInv
      <4>. QED
        BY <3>1, <4>1 DEF NewsInv, NewsIsPast
    <3>2. CASE poll' \in {None, CancelledPoll}
      BY <3>2 DEF CancelledPoll
    <3>. QED
      BY <3>1, <3>2
  <2>3. \A i \in Busy' : calls'[i].kind = "look" => (calls'[i].seen # "pending" => Met(view'[calls'[i].server]))
    <3>1. \A i \in Busy : calls[i].kind = "look" => calls[i].server \in Servers
      BY DEF IInv, TypeOK, Busy, Call
    <3>. QED
      BY <3>1 DEF NewsInv, NewsIsPast
  <2>. QED
    BY <1>1, <2>1, <2>2, <2>3 DEF NewsIsPast
<1>4. ModeFits'
  BY <1>1, <1>2 DEF ModeFits
<1>5. ASSUME ~stale', Reported(u.server)
      PROVE  ui'.serverId # None /\ view'[ui'.serverId] # "pending"
  <2>1. ui'.server # None /\ ui'.server.view # "pending"
    BY <1>1, <1>5 DEF Reported
  <2>2. ui'.server.id = ui'.serverId /\ ui'.serverId # None
    BY <1>5, <2>1, WizardAssumption DEF IInv, Settled, TypeOK, Ui, ServerShown
  <2>. QED
    BY <1>3, <2>1, <2>2 DEF NewsIsPast, Met
<1>6. Truth
  BY <1>2, <1>5 DEF Truth
<1>. QED
  BY <1>3, <1>4, <1>6 DEF NewsInv

\* A commit that shows no news, and asks for none.
LEMMA NoNews ==
  ASSUME IInv, IInv', NewsInv, NEW u \in Ui, Commit(u),
         \A s \in Servers : view'[s] = view[s] \/ (view[s] = None /\ view'[s] = "pending"),
         u.server = ui.server \/ u.server = None \/ (u.server # None /\ u.server.view = "pending"),
         u.notified => ui.notified,
         \A i \in Busy' : (i \in Busy /\ calls'[i] = calls[i]) \/ calls'[i].kind # "look",
         ~stale' =>
           /\ u.phase = "waiting" => u.mode = "auto"
           /\ \A i \in Acting' : /\ calls'[i].mode = u.mode
                                 /\ calls'[i].kind # "create" => calls'[i].mode # "none"
           /\ ui.phase = "waiting" => u.phase # "success"
  PROVE  NewsInv' /\ Truth
<1>1. Landing(u) /\ poll' \in {poll, None, CancelledPoll}
  BY CommitLands DEF IInv, Commit, Shows, Cancelled
<1>2. \A s \in Servers : Met(view[s]) => Met(view'[s])
  BY DEF Met
<1>. QED
  BY <1>1, <1>2, NewsLanded

\* An answer that shows no news.
LEMMA AnswerWithoutNews ==
  ASSUME IInv, IInv', NewsInv, NEW u \in Ui, NEW i \in Busy, Answered(i, u),
         \A s \in Servers : view'[s] = view[s] \/ (view[s] = None /\ view'[s] = "pending"),
         u.server = ui.server \/ (u.server # None /\ u.server.view = "pending"),
         u.notified = ui.notified, u.mode = ui.mode,
         ~stale =>
           /\ u.phase = "waiting" => u.mode = "auto"
           /\ ui.phase = "waiting" => u.phase # "success"
  PROVE  NewsInv' /\ Truth
<1>1. TypeOK /\ i \in Slots
  BY DEF IInv, Busy
<1>2. /\ Busy' = Busy \ {i} /\ Acting' = Acting \ {i}
      /\ \A j \in Busy' : calls'[j] = calls[j]
      /\ Commit(u) /\ UNCHANGED stale
  BY <1>1, CallsAnswered DEF Answered
<1>3. \A j \in Acting' : j \in Acting /\ calls'[j] = calls[j]
  BY <1>2 DEF Acting
<1>4. ~stale' => \A j \in Acting' : /\ calls'[j].mode = u.mode
                                    /\ calls'[j].kind # "create" => calls'[j].mode # "none"
  BY <1>2, <1>3 DEF NewsInv, ModeFits
<1>. QED
  BY <1>2, <1>4, NoNews

LEMMA NewsOfUser ==
  ASSUME IInv, IInv', NewsInv,
         Open \/ Close \/ AddAnother \/ ReturnToForm \/ SubmitOffline \/ \E mode \in Modes : ChooseMode(mode)
  PROVE  NewsInv' /\ Truth
<1>1. /\ ui \in Ui /\ Busy' = Busy /\ UNCHANGED <<calls, view>> /\ Acting' = Acting
      /\ ~stale /\ Acting # {} => ui.phase # "form"
  BY DEF IInv, TypeOK, Open, Close, AddAnother, Reset, ReturnToForm, SubmitOffline, ChooseMode, Busy, Acting, Settled
<1>2. ASSUME NEW open \in BOOLEAN, Reset(open) PROVE NewsInv' /\ Truth
  <2>1. /\ Blank(open) \in Ui /\ Blank(open).phase = "form" /\ Blank(open).server = None
        /\ ~Blank(open).notified
    BY BlankUi DEF Blank
  <2>2. Commit(Blank(open)) /\ (~stale' => Acting' = {})
    BY <1>1, <1>2 DEF Reset, Acting
  <2>. QED
    BY <1>1, <2>1, <2>2, NoNews
<1>3. ASSUME NEW u \in Ui, Commit(u), UNCHANGED stale,
             u.server = ui.server, u.notified = ui.notified,
             \/ u.phase = ui.phase /\ u.mode = ui.mode
             \/ u.phase \in {"form", "error"} /\ u.mode = ui.mode
             \/ u.phase = "form" /\ ui.phase = "form"
      PROVE  NewsInv' /\ Truth
  <2>1. ~stale' => /\ u.phase = "waiting" => u.mode = "auto"
                   /\ \A i \in Acting' : /\ calls'[i].mode = u.mode
                                         /\ calls'[i].kind # "create" => calls'[i].mode # "none"
                   /\ ui.phase = "waiting" => u.phase # "success"
    BY <1>1, <1>3 DEF NewsInv, ModeFits
  <2>. QED
    BY <1>1, <1>3, <2>1, NoNews
<1>4. CASE Open
  <2>. PICK u \in Ui : u = [ui EXCEPT !.open = TRUE]
    BY <1>1 DEF Ui
  <2>1. u.server = ui.server /\ u.notified = ui.notified /\ u.phase = ui.phase /\ u.mode = ui.mode
    BY <1>1 DEF Ui
  <2>. QED
    BY <1>3, <1>4, <2>1 DEF Open
<1>5. CASE ReturnToForm
  <2>. PICK u \in Ui : u = [ui EXCEPT !.phase = "form", !.busy = FALSE, !.acting = FALSE]
    BY <1>1 DEF Ui, Phases
  <2>1. u.server = ui.server /\ u.notified = ui.notified /\ u.phase = "form" /\ u.mode = ui.mode
    BY <1>1 DEF Ui
  <2>. QED
    BY <1>3, <1>5, <2>1 DEF ReturnToForm
<1>6. CASE SubmitOffline
  <2>. PICK u \in Ui : u = [ui EXCEPT !.phase = "error"]
    BY <1>1 DEF Ui, Phases
  <2>1. u.server = ui.server /\ u.notified = ui.notified /\ u.phase = "error" /\ u.mode = ui.mode
    BY <1>1 DEF Ui
  <2>. QED
    BY <1>3, <1>6, <2>1 DEF SubmitOffline
<1>7. ASSUME NEW mode \in Modes, ChooseMode(mode) PROVE NewsInv' /\ Truth
  <2>. PICK u \in Ui : u = [ui EXCEPT !.mode = mode]
    BY <1>1 DEF Ui
  <2>1. u.server = ui.server /\ u.notified = ui.notified /\ u.phase = ui.phase
    BY <1>1 DEF Ui
  <2>. QED
    BY <1>3, <1>7, <2>1 DEF ChooseMode
<1>. QED
  BY <1>2, <1>4, <1>5, <1>6, <1>7 DEF Close, AddAnother

LEMMA NewsOfCalls ==
  ASSUME IInv, IInv', NewsInv, Submit \/ Regenerate \/ RetryPoll \/ RetryAgent
  PROVE  NewsInv' /\ Truth
<1>1. ui \in Ui /\ TypeOK /\ Exist
  BY DEF IInv, TypeOK
<1>2. ASSUME NEW u \in Ui, NEW call \in Call, Start(call), Commit(u),
             u.server = ui.server, u.notified = ui.notified, u.mode = ui.mode,
             call.kind \in Actions => call.mode = ui.mode /\ (call.kind # "create" => call.mode # "none"),
             call.kind = "look" => (call.seen # "pending" => Met(view[call.server])),
             u.phase = "waiting" => u.phase = ui.phase \/ u.mode = "auto",
             ~stale /\ ui.phase = "waiting" => u.phase # "success"
      PROVE  NewsInv' /\ Truth
  <2>1. /\ UNCHANGED <<view, stale>>
        /\ \E i \in Slots \ Busy :
             /\ Busy' = Busy \cup {i}
             /\ calls'[i] = call /\ \A j \in Busy : calls'[j] = calls[j]
             /\ Acting' = IF call.kind \in Actions THEN Acting \cup {i} ELSE Acting
    BY <1>1, <1>2, CallsStarted
  <2>2. \A j \in Busy' :
          \/ j \in Busy /\ calls'[j] = calls[j]
          \/ calls'[j].kind = "look" => (calls'[j].seen # "pending" => Met(view'[calls'[j].server]))
    BY <1>2, <2>1 DEF Met
  <2>3. ~stale' => \A j \in Acting' : /\ calls'[j].mode = u.mode
                                      /\ calls'[j].kind # "create" => calls'[j].mode # "none"
    <3>1. Acting \subseteq Busy
      BY DEF Acting
    <3>. QED
      BY <1>2, <2>1, <3>1 DEF NewsInv, ModeFits
  <2>4. ~stale' => (u.phase = "waiting" => u.mode = "auto")
    BY <1>2, <2>1 DEF NewsInv, ModeFits
  <2>5. Landing(u) /\ poll' \in {poll, None, CancelledPoll}
    BY <1>2, CommitLands DEF IInv, Commit, Shows, Cancelled
  <2>6. \A s \in Servers : Met(view[s]) => Met(view'[s])
    BY <2>1 DEF Met
  <2>. QED
    BY <1>2, <2>1, <2>2, <2>3, <2>4, <2>5, <2>6, NewsLanded
<1>3. CASE Submit
  <2>. PICK u \in Ui : u = [ui EXCEPT !.phase = "creating", !.busy = TRUE, !.acting = TRUE]
    BY <1>1 DEF Ui, Phases
  <2>1. u.server = ui.server /\ u.notified = ui.notified /\ u.mode = ui.mode /\ u.phase = "creating"
    BY <1>1 DEF Ui
  <2>2. PICK call : /\ call = [kind |-> "create", mode |-> ui.mode, keep |-> ~Expired(ui.secret)]
                    /\ Start(call) /\ Commit(u)
    BY <1>3 DEF Submit
  <2>3. Expired(ui.secret) \in BOOLEAN
    BY <1>1 DEF Ui, Secret, Expired
  <2>4. call \in Call /\ call.kind = "create" /\ call.mode = ui.mode
    BY <1>1, <2>2, <2>3 DEF Call, Ui
  <2>. QED
    BY <1>2, <2>1, <2>2, <2>4
<1>4. CASE Regenerate
  <2>. PICK u \in Ui : u = [ui EXCEPT !.regenerating = TRUE]
    BY <1>1 DEF Ui
  <2>1. u.server = ui.server /\ u.notified = ui.notified /\ u.mode = ui.mode /\ u.phase = ui.phase
    BY <1>1 DEF Ui
  <2>2. PICK call : call = [kind |-> "regenerate", server |-> ui.serverId] /\ Start(call) /\ Commit(u)
    BY <1>4 DEF Regenerate
  <2>3. call \in Call /\ call.kind = "regenerate" /\ call.kind \notin Actions
    BY <1>1, <1>4, <2>2 DEF Call, Ui, Regenerate, Actions
  <2>. QED
    BY <1>2, <2>1, <2>2, <2>3
<1>5. CASE RetryPoll
  <2>. PICK phase : phase = IF ui.mode = "auto" THEN "waiting" ELSE "success"
    OBVIOUS
  <2>. PICK u \in Ui : u = [ui EXCEPT !.timedOut = FALSE, !.pollError = FALSE, !.polls = 0, !.phase = phase]
    BY <1>1 DEF Ui, Phases
  <2>1. u.server = ui.server /\ u.notified = ui.notified /\ u.mode = ui.mode /\ u.phase = phase
    BY <1>1 DEF Ui
  <2>2. PICK call : /\ call = [kind |-> "look", server |-> ui.serverId, seen |-> view[ui.serverId]]
                    /\ Start(call) /\ Commit(u)
    BY <1>5 DEF RetryPoll
  <2>3. ui.serverId \in Servers /\ view[ui.serverId] \in Views /\ view[ui.serverId] # None
    BY <1>1, <1>5 DEF RetryPoll, TypeOK, Ui, Exist
  <2>4. /\ call \in Call /\ call.kind = "look" /\ call.kind \notin Actions
        /\ call.seen # "pending" => Met(view[call.server])
    BY <2>2, <2>3 DEF Call, Actions, Met
  <2>5. ~stale /\ ui.phase = "waiting" => u.phase # "success"
    BY <2>1 DEF NewsInv, ModeFits
  <2>6. u.phase = "waiting" => u.mode = "auto"
    BY <2>1
  <2>7. Start(call) /\ Commit(u)
    BY <2>2
  <2>. QED
    BY <1>2, <2>1, <2>4, <2>5, <2>6, <2>7
<1>6. CASE RetryAgent
  <2>. PICK u \in Ui : u = [ui EXCEPT !.phase = "installing", !.busy = TRUE, !.acting = TRUE]
    BY <1>1 DEF Ui, Phases
  <2>1. u.server = ui.server /\ u.notified = ui.notified /\ u.mode = ui.mode /\ u.phase = "installing"
    BY <1>1 DEF Ui
  <2>2. PICK call : /\ call = [kind |-> "retry", server |-> ui.serverId, mode |-> ui.mode]
                    /\ Start(call) /\ Commit(u)
    BY <1>6 DEF RetryAgent
  <2>3. call \in Call /\ call.kind = "retry" /\ call.mode = ui.mode /\ ui.mode # "none"
    BY <1>1, <1>6, <2>2 DEF Call, Ui, RetryAgent
  <2>. QED
    BY <1>2, <2>1, <2>2, <2>3
<1>. QED
  BY <1>3, <1>4, <1>5, <1>6

LEMMA NewsOfCreate ==
  ASSUME IInv, IInv', NewsInv, NEW i \in Slots, CreateOk(i) \/ CreateFail(i)
  PROVE  NewsInv' /\ Truth
<1>1. TypeOK /\ i \in Busy /\ i \in Acting /\ calls[i].kind = "create" /\ ui \in Ui
  BY DEF IInv, TypeOK, CreateOk, CreateFail, Is, Acting, Actions
<1>2. ~stale => ui.phase # "waiting" /\ calls[i].mode = ui.mode
  BY <1>1 DEF IInv, Settled, NewsInv, ModeFits
<1>3. \A s \in Servers : view'[s] = view[s] \/ (view[s] = None /\ view'[s] = "pending")
  <2>1. New # {} => NewServer \in Servers /\ view[NewServer] = None
    BY DEF New, NewServer
  <2>. QED
    BY <1>1, <2>1 DEF CreateOk, CreateFail, TypeOK
<1>4. CASE CreateFail(i)
  <2>. PICK u \in Ui : u = Failed(ui)
    BY <1>1 DEF Failed, Done, Ui, Phases
  <2>1. /\ u.server = ui.server /\ u.notified = ui.notified /\ u.mode = ui.mode
        /\ u.phase \in {"partial", "error"}
    BY <1>1 DEF Failed, Done, Ui
  <2>2. Answered(i, u)
    BY <1>4 DEF CreateFail
  <2>. QED
    BY <1>1, <1>3, <2>1, <2>2, AnswerWithoutNews
<1>5. CASE CreateOk(i)
  <2>1. PICK s \in Servers : s = NewServer
    BY <1>5 DEF CreateOk, New, NewServer
  <2>2. PICK shown \in ServerShown : shown = [id |-> s, view |-> "pending"]
    BY DEF ServerShown, Views
  <2>3. shown # None /\ shown.view = "pending"
    BY <2>2, WizardAssumption
  <2>4. PICK u0 \in Ui : u0 = Created(ui, s)
    BY <1>1, <2>2 DEF Created, Ui
  <2>5. u0.server = shown /\ u0.notified = ui.notified /\ u0.mode = ui.mode
    BY <1>1, <2>2, <2>4 DEF Created, Ui
  <2>6. ASSUME NEW phase \in {"partial", "waiting", "success"},
               phase = "waiting" => calls[i].mode = "auto",
               Answered(i, [Done(u0) EXCEPT !.phase = phase])
        PROVE  NewsInv' /\ Truth
    <3>. PICK u \in Ui : u = [Done(u0) EXCEPT !.phase = phase]
      BY DEF Done, Ui, Phases
    <3>1. u.server = shown /\ u.notified = ui.notified /\ u.mode = ui.mode /\ u.phase = phase
      BY <2>5 DEF Done, Ui
    <3>. QED
      BY <1>1, <1>2, <1>3, <2>3, <2>6, <3>1, AnswerWithoutNews
  <2>7. ASSUME Commit([u0 EXCEPT !.phase = "installing"]), UNCHANGED stale, calls[i].mode # "none",
               calls' = [calls EXCEPT ![i] = [kind |-> "issue", server |-> s, mode |-> calls[i].mode]]
        PROVE  NewsInv' /\ Truth
    <3>. PICK u \in Ui : u = [u0 EXCEPT !.phase = "installing"]
      BY DEF Ui, Phases
    <3>1. u.server = shown /\ u.notified = ui.notified /\ u.mode = ui.mode /\ u.phase = "installing"
      BY <2>5 DEF Ui
    <3>2. /\ calls'[i].kind = "issue" /\ calls'[i].mode = calls[i].mode
          /\ \A j \in Slots : j # i => calls'[j] = calls[j]
      BY <1>1, <2>7 DEF TypeOK
    <3>3. \A j \in Busy' : j # i => j \in Busy /\ calls'[j] = calls[j]
      BY <3>2 DEF Busy
    <3>4. \A j \in Acting' : j # i => j \in Acting /\ calls'[j] = calls[j]
      BY <3>3 DEF Acting
    <3>5. ~stale' => \A j \in Acting' : /\ calls'[j].mode = u.mode
                                        /\ calls'[j].kind # "create" => calls'[j].mode # "none"
      BY <1>2, <2>7, <3>1, <3>2, <3>4 DEF NewsInv, ModeFits
    <3>6. \A j \in Busy' : (j \in Busy /\ calls'[j] = calls[j]) \/ calls'[j].kind # "look"
      BY <3>2, <3>3
    <3>7. Commit(u)
      BY <2>7
    <3>. QED
      BY <1>3, <2>3, <3>1, <3>5, <3>6, <3>7, NoNews
  <2>8. /\ AfterInstall(calls[i].mode) \in {"waiting", "success"}
        /\ AfterInstall(calls[i].mode) = "waiting" => calls[i].mode = "auto"
    BY DEF AfterInstall
  <2>. QED
    BY <1>5, <2>1, <2>4, <2>6, <2>7, <2>8 DEF CreateOk
<1>. QED
  BY <1>4, <1>5

LEMMA NewsOfInstall ==
  ASSUME IInv, IInv', NewsInv, NEW i \in Slots, IssueOk(i) \/ IssueFail(i) \/ RetryOk(i) \/ RetryFail(i)
  PROVE  NewsInv' /\ Truth
<1>1. TypeOK /\ i \in Busy /\ i \in Acting /\ calls[i].kind \in {"issue", "retry"} /\ view' = view /\ ui \in Ui
  BY DEF IInv, TypeOK, IssueOk, IssueFail, RetryOk, RetryFail, Is, Acting, Actions
<1>2. /\ calls[i].server \in Servers /\ calls[i].mode \in Modes
      /\ ~stale => /\ calls[i].mode = ui.mode /\ calls[i].mode # "none"
                   /\ ui.phase = "waiting" => ui.mode = "auto"
  BY <1>1 DEF TypeOK, Busy, Call, NewsInv, ModeFits
<1>3. PICK u0 \in Ui : u0 = Done(Issued(ui, calls[i].server))
  <2>1. [server |-> calls[i].server, lapsed |-> FALSE] \in Secret
    BY <1>2 DEF Secret
  <2>. QED
    BY <1>1, <2>1 DEF Done, Issued, Ui
<1>4. u0.server = ui.server /\ u0.notified = ui.notified /\ u0.mode = ui.mode
  BY <1>1, <1>3 DEF Done, Issued, Ui
<1>5. CASE IssueOk(i)
  <2>. PICK phase \in {"waiting", "success"} : phase = AfterInstall(calls[i].mode)
    BY DEF AfterInstall
  <2>. PICK u \in Ui : u = [u0 EXCEPT !.phase = phase]
    BY <1>3 DEF Ui, Phases
  <2>1. u.server = ui.server /\ u.notified = ui.notified /\ u.mode = ui.mode /\ u.phase = phase
    BY <1>4 DEF Ui
  <2>2. Answered(i, u)
    BY <1>3, <1>5 DEF IssueOk
  <2>3. phase = "waiting" <=> calls[i].mode = "auto"
    BY DEF AfterInstall
  <2>. QED
    BY <1>1, <1>2, <2>1, <2>2, <2>3, AnswerWithoutNews
<1>6. CASE RetryOk(i)
  <2>. PICK phase \in {"waiting", "success"} :
         phase = IF calls[i].mode = "manual" THEN "success" ELSE "waiting"
    OBVIOUS
  <2>. PICK u \in Ui : u = [u0 EXCEPT !.timedOut = FALSE, !.polls = 0, !.phase = phase]
    BY <1>3 DEF Ui, Phases
  <2>1. u.server = ui.server /\ u.notified = ui.notified /\ u.mode = ui.mode /\ u.phase = phase
    BY <1>4 DEF Ui
  <2>2. Answered(i, u)
    BY <1>3, <1>6 DEF RetryOk
  <2>3. /\ phase = "waiting" => calls[i].mode \in {"auto", "none"}
        /\ phase = "success" => calls[i].mode = "manual"
    BY <1>2 DEF Modes
  <2>. QED
    BY <1>1, <1>2, <2>1, <2>2, <2>3, AnswerWithoutNews
<1>7. ASSUME NEW phase \in {"partial", "error"}, Answered(i, [Done(ui) EXCEPT !.phase = phase])
      PROVE  NewsInv' /\ Truth
  <2>. PICK u \in Ui : u = [Done(ui) EXCEPT !.phase = phase]
    BY <1>1 DEF Done, Ui, Phases
  <2>1. u.server = ui.server /\ u.notified = ui.notified /\ u.mode = ui.mode /\ u.phase = phase
    BY <1>1 DEF Done, Ui
  <2>. QED
    BY <1>1, <1>7, <2>1, AnswerWithoutNews
<1>8. CASE IssueFail(i)
  <2>1. PICK phase \in {"partial", "error"} : phase = IF ui.snapshot THEN "partial" ELSE "error"
    OBVIOUS
  <2>. QED
    BY <1>7, <1>8, <2>1 DEF IssueFail, Failed
<1>9. CASE RetryFail(i)
  BY <1>7, <1>9 DEF RetryFail
<1>. QED
  BY <1>5, <1>6, <1>8, <1>9

LEMMA NewsOfPanel ==
  ASSUME IInv, IInv', NewsInv, NEW i \in Slots,
         RegenerateOk(i) \/ RegenerateFail(i) \/ LookOk(i) \/ LookFail(i)
  PROVE  NewsInv' /\ Truth
<1>1. TypeOK /\ Exist /\ i \in Busy /\ view' = view /\ ui \in Ui
  BY DEF IInv, TypeOK, RegenerateOk, RegenerateFail, LookOk, LookFail, Is
<1>2. /\ calls[i] \in Call
      /\ calls[i].kind \in {"regenerate", "look"} /\ calls[i].server \in Servers
  BY <1>1 DEF RegenerateOk, RegenerateFail, LookOk, LookFail, Is, TypeOK, Busy, Call
<1>3. ~stale => (ui.phase = "waiting" => ui.mode = "auto")
  BY DEF NewsInv, ModeFits
<1>4. CASE RegenerateOk(i)
  <2>1. [server |-> calls[i].server, lapsed |-> FALSE] \in Secret
    BY <1>2 DEF Secret
  <2>. PICK u \in Ui : u = [Issued(ui, calls[i].server) EXCEPT !.regenerating = FALSE]
    BY <1>1, <2>1 DEF Issued, Ui
  <2>2. u.server = ui.server /\ u.notified = ui.notified /\ u.mode = ui.mode /\ u.phase = ui.phase
    BY <1>1 DEF Issued, Ui
  <2>3. Answered(i, u)
    BY <1>4 DEF RegenerateOk
  <2>. QED
    BY <1>1, <1>3, <2>2, <2>3, AnswerWithoutNews
<1>5. CASE RegenerateFail(i)
  <2>. PICK u \in Ui : u = [ui EXCEPT !.regenerating = FALSE]
    BY <1>1 DEF Ui
  <2>1. u.server = ui.server /\ u.notified = ui.notified /\ u.mode = ui.mode /\ u.phase = ui.phase
    BY <1>1 DEF Ui
  <2>2. Answered(i, u)
    BY <1>5 DEF RegenerateFail
  <2>. QED
    BY <1>1, <1>3, <2>1, <2>2, AnswerWithoutNews
<1>6. CASE LookFail(i)
  <2>. PICK u \in Ui : u = [ui EXCEPT !.pollError = TRUE]
    BY <1>1 DEF Ui
  <2>1. u.server = ui.server /\ u.notified = ui.notified /\ u.mode = ui.mode /\ u.phase = ui.phase
    BY <1>1 DEF Ui
  <2>2. Answered(i, u)
    BY <1>6 DEF LookFail
  <2>. QED
    BY <1>1, <1>3, <2>1, <2>2, AnswerWithoutNews
<1>7. CASE LookOk(i)
  <2>1. calls[i].kind = "look"
    BY <1>7 DEF LookOk, Is
  <2>2. PICK v \in {calls[i].seen, view[calls[i].server]} :
          Shows(Reread(Applied(ui, calls[i].server, v))) /\ Over(i)
    BY <1>7 DEF LookOk
  <2>3. v \in Views /\ (v # "pending" => Met(view[calls[i].server]))
    <3>2. view[calls[i].server] # None
      BY <1>1, <2>1 DEF Exist
    <3>4. view[calls[i].server] \in Views
      BY <1>1, <1>2, <3>2 DEF TypeOK
    <3>5. calls[i].seen \in Views
      BY <1>2, <2>1 DEF Call
    <3>1. v \in Views
      BY <2>2, <3>4, <3>5
    <3>3. calls[i].seen # "pending" => Met(view[calls[i].server])
      BY <1>1, <2>1 DEF NewsInv, NewsIsPast
    <3>. QED
      BY <2>2, <3>1, <3>2, <3>3 DEF Met
  <2>4. PICK shown \in ServerShown : shown = [id |-> calls[i].server, view |-> v]
    BY <1>2, <2>3 DEF ServerShown
  <2>. PICK u \in Ui : u = Applied(ui, calls[i].server, v)
    BY <1>1, <2>4 DEF Applied, Ui
  <2>5. u.server = shown /\ u.notified = ui.notified /\ u.mode = ui.mode /\ u.phase = ui.phase
    BY <1>1, <2>4 DEF Applied, Ui
  <2>6. /\ Busy' = Busy \ {i} /\ Acting' = Acting \ {i}
        /\ \A j \in Busy' : calls'[j] = calls[j]
        /\ UNCHANGED stale
    BY <1>1, <2>2, CallsAnswered
  <2>7. Landing(u) /\ poll' \in {poll, None, CancelledPoll}
    BY <2>2, CommitLands DEF IInv, Shows, Cancelled
  <2>8. \A s \in Servers : Met(view'[s]) <=> Met(view[s])
    BY <1>1 DEF Met
  <2>9. ~stale' => \A j \in Acting' : /\ calls'[j].mode = u.mode
                                      /\ calls'[j].kind # "create" => calls'[j].mode # "none"
    BY <2>5, <2>6 DEF NewsInv, ModeFits, Acting
  <2>. QED
    BY <1>2, <1>3, <2>3, <2>4, <2>5, <2>6, <2>7, <2>8, <2>9, NewsLanded
<1>. QED
  BY <1>4, <1>5, <1>6, <1>7

\* Steps that commit nothing.
LEMMA NewsUnseen ==
  ASSUME IInv, NewsInv, UNCHANGED <<calls, stale>>, ui'.server = ui.server,
         ui'.phase = ui.phase, ui'.mode = ui.mode, ui'.notified = ui.notified,
         \A s \in Servers : Met(view[s]) => Met(view'[s]),
         poll' = poll \/ (poll' # None => (poll'.live => (poll'.seen # "pending" => Met(view'[poll'.server]))))
  PROVE  NewsInv' /\ Truth
<1>1. /\ ui.server # None => ui.server.id \in Servers
      /\ poll # None /\ poll.live => poll.server \in Servers
      /\ \A i \in Busy : calls[i].kind = "look" => calls[i].server \in Servers
  BY LivePoll DEF IInv, TypeOK, Ui, ServerShown, Busy, Call
<1>2. Busy' = Busy /\ Acting' = Acting
  BY DEF Busy, Acting
<1>3. NewsIsPast'
  BY <1>1, <1>2 DEF NewsInv, NewsIsPast
<1>4. ModeFits'
  BY <1>2 DEF NewsInv, ModeFits
<1>5. Truth
  BY DEF IInv, TypeOK, Ui, Truth
<1>. QED
  BY <1>3, <1>4, <1>5 DEF NewsInv

LEMMA NewsOfPoll ==
  ASSUME IInv, IInv', NewsInv, PollSend \/ PollOk \/ PollFail
  PROVE  NewsInv' /\ Truth
<1>1. TypeOK /\ PollCounts /\ Exist /\ ui \in Ui /\ UNCHANGED <<calls, view, stale>>
  BY DEF IInv, TypeOK, PollSend, PollOk, PollFail
<1>2. \A s \in Servers : Met(view'[s]) <=> Met(view[s])
  BY <1>1 DEF Met
<1>3. CASE PollSend
  <2>1. /\ UNCHANGED ui
        /\ poll'.seen # "pending" => Met(view'[poll'.server])
    BY <1>1, <1>3 DEF PollSend, Polling, Exist, Met
  <2>. QED
    BY <1>1, <1>2, <2>1, NewsUnseen
<1>4. CASE UNCHANGED ui /\ poll' = None
  BY <1>1, <1>2, <1>4, NewsUnseen
<1>5. ASSUME NEW u \in Ui, ui' \in {Committed(u), Reread(u)}, poll' = None,
             u.notified = ui.notified, u.mode = ui.mode, u.phase = ui.phase,
             u.server = ui.server \/ (u.server.view # "pending" => Met(view[u.server.id]))
      PROVE  NewsInv' /\ Truth
  <2>1. Busy' = Busy /\ Acting' = Acting
    BY <1>1 DEF Busy, Acting
  <2>2. u.server = ui.server \/ (u.server.view # "pending" => Met(view'[u.server.id]))
    BY <1>1, <1>5 DEF Met
  <2>3. ~stale' => /\ u.phase = "waiting" => u.mode = "auto"
                   /\ \A j \in Acting' : /\ calls'[j].mode = u.mode
                                         /\ calls'[j].kind # "create" => calls'[j].mode # "none"
    BY <1>1, <1>5, <2>1 DEF NewsInv, ModeFits
  <2>. QED
    BY <1>1, <1>2, <1>5, <2>1, <2>2, <2>3, CommitLands, NewsLanded DEF IInv
<1>6. ASSUME poll # None, poll.live, poll' = None,
             NEW v \in {poll.seen, view[poll.server]},
             ui' = Reread(Counted(Applied(ui, poll.server, v), v))
      PROVE  NewsInv' /\ Truth
  <2>1. poll.server = ui.serverId /\ poll.server \in Servers /\ poll.seen \in Views
    BY <1>1, <1>6, LivePoll DEF PollCounts
  <2>2. v \in Views /\ (v # "pending" => Met(view[poll.server]))
    BY <1>1, <1>6, <2>1, WizardAssumption DEF Exist, TypeOK, NewsInv, NewsIsPast, Met
  <2>3. PICK shown \in ServerShown : shown = [id |-> poll.server, view |-> v]
    BY <2>1, <2>2 DEF ServerShown
  <2>. PICK u0 \in Ui : u0 = Applied(ui, poll.server, v)
    BY <1>1, <2>3 DEF Applied, Ui
  <2>4. u0.server = shown /\ u0.notified = ui.notified /\ u0.mode = ui.mode /\ u0.phase = ui.phase
    BY <1>1, <2>3 DEF Applied, Ui
  <2>5. PICK late \in BOOLEAN : late <=> u0.timedOut \/ (u0.polls + 1 >= PollLimit /\ v # "online")
    OBVIOUS
  <2>. PICK polls \in Nat : polls = u0.polls + 1
    BY DEF Ui
  <2>. PICK u \in Ui : u = [u0 EXCEPT !.polls = polls, !.timedOut = late]
    BY DEF Ui
  <2>6. u.server = shown /\ u.notified = ui.notified /\ u.mode = ui.mode /\ u.phase = ui.phase
    BY <2>4 DEF Ui
  <2>7. Counted(u0, v) = u
    BY <2>5 DEF Counted, Ui
  <2>8. u.server.view # "pending" => Met(view[u.server.id])
    BY <2>2, <2>3, <2>6
  <2>. QED
    BY <1>5, <1>6, <2>6, <2>7, <2>8
<1>7. CASE PollOk
  <2>1. /\ poll # None /\ poll' = None
        /\ \/ /\ poll.live
              /\ \E v \in {poll.seen, view[poll.server]} :
                   ui' = Reread(Counted(Applied(ui, poll.server, v), v))
           \/ ~poll.live /\ UNCHANGED ui
    BY <1>7 DEF PollOk
  <2>2. CASE ~poll.live /\ UNCHANGED ui
    BY <1>4, <2>1, <2>2
  <2>3. CASE poll.live /\ \E v \in {poll.seen, view[poll.server]} :
                            ui' = Reread(Counted(Applied(ui, poll.server, v), v))
    <3>. PICK v \in {poll.seen, view[poll.server]} :
                ui' = Reread(Counted(Applied(ui, poll.server, v), v))
      BY <2>3
    <3>. QED
      BY <1>6, <2>1, <2>3
  <2>. QED
    BY <2>1, <2>2, <2>3
<1>8. CASE PollFail
  <2>1. CASE poll.live
    <3>. PICK u \in Ui : u = [ui EXCEPT !.pollError = TRUE]
      BY <1>1 DEF Ui
    <3>1. u.server = ui.server /\ u.notified = ui.notified /\ u.mode = ui.mode /\ u.phase = ui.phase
      BY <1>1 DEF Ui
    <3>2. ui' = Committed(u) /\ poll' = None
      BY <1>8, <2>1 DEF PollFail
    <3>. QED
      BY <1>5, <3>1, <3>2
  <2>2. CASE ~poll.live
    BY <1>4, <1>8, <2>2 DEF PollFail
  <2>. QED
    BY <2>1, <2>2
<1>. QED
  BY <1>3, <1>7, <1>8

LEMMA NewsNext ==
  ASSUME IInv, IInv', NewsInv, [Next]_vars
  PROVE  NewsInv' /\ [Truth]_vars
<1>1. CASE UNCHANGED vars
  BY <1>1, NewsUnseen DEF vars, Met
<1>2. CASE Lapse
  <2>1. /\ UNCHANGED <<poll, calls, view, stale>> /\ ui'.server = ui.server
        /\ ui'.phase = ui.phase /\ ui'.mode = ui.mode /\ ui'.notified = ui.notified
    BY <1>2 DEF Lapse, IInv, TypeOK, Ui
  <2>. QED
    BY <2>1, NewsUnseen DEF Met
<1>3. ASSUME NEW s \in Servers, Report(s) PROVE NewsInv' /\ Truth
  <2>1. UNCHANGED <<ui, poll, calls, stale>>
    BY <1>3 DEF Report
  <2>2. \A q \in Servers : Met(view[q]) => Met(view'[q])
    <3>1. PICK v \in Follows(view[s]) : view' = [view EXCEPT ![s] = v]
      BY <1>3 DEF Report
    <3>2. v \in Views \ {"pending"} /\ v # None
      BY <3>1, WizardAssumption DEF Follows, Views
    <3>. QED
      BY <3>1, <3>2 DEF Met, IInv, TypeOK
  <2>. QED
    BY <2>1, <2>2, NewsUnseen
<1>. QED
  BY <1>1, <1>2, <1>3, NewsOfUser, NewsOfCalls, NewsOfCreate, NewsOfInstall, NewsOfPanel, NewsOfPoll
     DEF Next, User, Answer

-----------------------------------------------------------------------------
(* The theorems *)

LEMMA InitInv == Init => IInv
<1>. SUFFICES ASSUME Init PROVE IInv
  OBVIOUS
<1>1. Busy = {} /\ Acting = {}
  BY DEF Init, Busy, Acting
<1>2. TypeOK
  BY BlankUi DEF Init, TypeOK
<1>3. ServerInHand /\ PollCounts /\ OutcomeShown /\ Exist
  BY <1>1, BlankUi DEF Init, ServerInHand, FormIsNew, PollCounts, OutcomeShown, Blank, Exist
<1>4. Settled
  BY <1>1, BlankUi DEF Init, Settled, CallsAreFor, OneAction
<1>. QED
  BY <1>2, <1>3, <1>4 DEF IInv

LEMMA NextInv == IInv /\ [Next]_vars => IInv'
<1>. SUFFICES ASSUME IInv, [Next]_vars PROVE IInv'
  OBVIOUS
<1>1. CASE UNCHANGED vars
  BY <1>1 DEF vars, IInv, TypeOK, ServerInHand, FormIsNew, PollCounts, OutcomeShown, Exist, Settled,
              CallsAreFor, OneAction, Acting, Busy
<1>2. CASE Close \/ AddAnother
  BY <1>2, ResetStep DEF Close, AddAnother
<1>3. CASE Open \/ ReturnToForm \/ SubmitOffline \/ \E mode \in Modes : ChooseMode(mode)
  BY <1>3, FormSteps
<1>4. CASE Submit \/ Regenerate \/ RetryPoll \/ RetryAgent
  BY <1>4, CallSteps
<1>5. ASSUME NEW i \in Slots, Answer(i)
      PROVE  IInv'
  BY <1>5, CreateOkStep, CreateFailStep, InstallSteps, PanelSteps DEF Answer
<1>6. CASE PollSend \/ PollOk \/ PollFail
  BY <1>6, PollSteps
<1>7. CASE Lapse
  BY <1>7, LapseStep
<1>8. ASSUME NEW s \in Servers, Report(s)
      PROVE  IInv'
  BY <1>8, ReportStep
<1>. QED
  BY <1>1, <1>2, <1>3, <1>4, <1>5, <1>6, <1>7, <1>8 DEF Next, User

\* The inductive invariant holds, for any number of servers and of calls.
THEOREM Invariance == Spec => []IInv
<1>1. Init => IInv
  BY InitInv
<1>2. IInv /\ [Next]_vars => IInv'
  BY NextInv
<1>. QED
  BY <1>1, <1>2, PTL DEF Spec

\* Every variable keeps its type.
THEOREM TypeCorrect == Spec => []TypeOK
<1>1. IInv => TypeOK
  BY DEF IInv
<1>. QED
  BY <1>1, Invariance, PTL

\* A submission never writes over a server of an earlier one, and unless the
\* wizard was reset under a call, what it shows, asks and polls is one server's.
THEOREM OneServer == Spec => []OneServerShown
<1>1. IInv => OneServerShown
  BY DEF IInv, ServerInHand, PollCounts, Settled, OneServerShown, SameServer
<1>. QED
  BY <1>1, Invariance, PTL

\* One submission or retry at a time, and every spinner has what stops it.
THEOREM SpinnersStop == Spec => []NoDeadSpinner
<1>1. IInv => NoDeadSpinner
  <2>. SUFFICES ASSUME IInv, ~stale PROVE NoDeadSpinner
    BY DEF NoDeadSpinner
  <2>1. Settled
    BY DEF IInv
  <2>2. Cardinality(Acting) <= 1
    <3>1. CASE Acting = {}
      <4>1. Cardinality({}) = 0
        BY FS_EmptySet
      <4>. QED
        BY <3>1, <4>1
    <3>2. CASE Acting # {}
      <4>1. PICK i : Acting = {i}
        BY <2>1, <3>2 DEF Settled, OneAction
      <4>2. Cardinality({i}) = 1
        BY FS_Singleton
      <4>. QED
        BY <4>1, <4>2
    <3>. QED
      BY <3>1, <3>2
  <2>3. ui.phase = "waiting" => Polling(ui) \/ ui.outcome = "revoked"
    BY <2>1 DEF Settled, Polling
  <2>. QED
    BY <2>1, <2>2, <2>3 DEF Settled, NoDeadSpinner
<1>. QED
  BY <1>1, Invariance, PTL

\* The page is told of a connected agent, and an automatic install ends in
\* success, only for a server whose agent has connected.
THEOREM OnlyConnectedCount == Spec => TellsTheTruth
<1>1. Init => NewsInv
  <2>. SUFFICES ASSUME Init PROVE NewsInv
    OBVIOUS
  <2>1. Busy = {} /\ Acting = {}
    BY DEF Init, Busy, Acting
  <2>. QED
    BY <2>1, BlankUi DEF Init, NewsInv, NewsIsPast, ModeFits
<1>2. IInv /\ IInv' /\ NewsInv /\ [Next]_vars => NewsInv' /\ [Truth]_vars
  BY NewsNext
<1>. QED
  BY <1>1, <1>2, Invariance, PTL DEF Spec, TellsTheTruth, Truth

-----------------------------------------------------------------------------
(* Pages: lists *)

\* A request of the effect is for the query of the list, and so is one that
\* nobody owns unless the query changed under it.
OwnQuery ==
  list # None => \A f \in InFlight(fetches) :
    /\ fetches[f].by = "effect" => fetches[f].query = list.query
    /\ fetches[f].by = "nobody" /\ ~crossed => fetches[f].query = list.query

ListOK == ListTypeOK /\ OwnQuery /\ ListAnswersQuery

\* A new request for query q is in flight, next to those of fs.
Sends(q, fs, by) ==
  /\ list' \in List /\ list'.query = q /\ list'.status \in {"loading", "refreshing"}
  /\ fetches' \in [Fetches -> Fetch \cup {None}]
  /\ \E f \in Fetches : /\ fetches'[f] = [query |-> q, by |-> by] /\ fetches'[f] # None
                        /\ \A g \in Fetches \ {f} : fetches'[g] = fs[g]

\* load(): either the request there is taken for this one, or a new one is sent.
LEMMA ListLoadEffect ==
  ASSUME NEW l \in List, NEW fs \in [Fetches -> Fetch \cup {None}], NEW mode, NEW by \in {"effect", "nobody"},
         ListLoad(l, fs, mode, by)
  PROVE  \/ mode = "refresh" /\ l.inFlight # None /\ list' = l /\ fetches' = fs
         \/ ~(mode = "refresh" /\ l.inFlight # None) /\ Sends(l.query, fs, by)
<1>1. CASE mode = "refresh" /\ l.inFlight # None
  BY <1>1 DEF ListLoad
<1>2. CASE ~(mode = "refresh" /\ l.inFlight # None)
  <2>. DEFINE f == NextFetch(fs)
  <2>1. f \in Fetches
    <3>1. \E g : g \in Fetches \ InFlight(fs)
      BY <1>2 DEF ListLoad, InFlight
    <3>. QED
      BY <3>1 DEF NextFetch
  <2>2. /\ list' = [l EXCEPT !.status = IF l.loaded THEN "refreshing" ELSE "loading", !.inFlight = f]
        /\ fetches' = [fs EXCEPT ![f] = [query |-> l.query, by |-> by]]
    BY <1>2 DEF ListLoad
  <2>. HIDE DEF f
  <2>3. list' \in List /\ list'.query = l.query /\ list'.status \in {"loading", "refreshing"}
    BY <2>1, <2>2 DEF List
  <2>4. [query |-> l.query, by |-> by] \in Fetch /\ [query |-> l.query, by |-> by] # None
    BY NoneIsNoList DEF Fetch, List
  <2>5. /\ fetches' \in [Fetches -> Fetch \cup {None}] /\ fetches'[f] = [query |-> l.query, by |-> by]
        /\ \A g \in Fetches \ {f} : fetches'[g] = fs[g]
    BY <2>1, <2>2, <2>4
  <2>. QED
    BY <1>2, <2>1, <2>3, <2>4, <2>5 DEF Sends
<1>. QED
  BY <1>1, <1>2

LEMMA SendKeeps ==
  ASSUME NEW q \in Queries, NEW fs, NEW by \in {"effect", "nobody"}, Sends(q, fs, by), crossed' \in BOOLEAN,
         \A g \in Fetches : fs[g] # None /\ (fs[g].by = "effect" \/ (fs[g].by = "nobody" /\ ~crossed'))
                              => fs[g].query = q
  PROVE  ListOK'
<1>1. PICK f \in Fetches : /\ fetches'[f] = [query |-> q, by |-> by] /\ fetches'[f] # None
                           /\ \A g \in Fetches \ {f} : fetches'[g] = fs[g]
  BY DEF Sends
<1>2. list' \in List /\ list'.query = q /\ list'.status \in {"loading", "refreshing"}
      /\ fetches' \in [Fetches -> Fetch \cup {None}]
  BY DEF Sends
<1>3. f \in InFlight(fetches)' /\ fetches'[f].query = q /\ fetches'[f].by # "cancelled"
  BY <1>1 DEF InFlight
<1>4. OwnQuery'
  BY <1>1, <1>2, <1>3 DEF OwnQuery, InFlight
<1>5. ListAnswersQuery'
  BY <1>2, <1>3 DEF ListAnswersQuery
<1>. QED
  BY <1>2, <1>4, <1>5 DEF ListOK, ListTypeOK

LEMMA MountKeeps ==
  ASSUME NEW q \in Queries, ListMount(q)
  PROVE  ListOK'
<1>. DEFINE l == [query |-> q, shown |-> None, loaded |-> FALSE, status |-> "loading", inFlight |-> None]
<1>1. l \in List /\ NoFetch \in [Fetches -> Fetch \cup {None}] /\ l.query = q
  BY DEF List, NoFetch
<1>2. ListLoad(l, NoFetch, "initial", "effect") /\ crossed' = FALSE
  BY DEF ListMount
<1>. HIDE DEF l
<1>3. Sends(q, NoFetch, "effect")
  BY <1>1, <1>2, ListLoadEffect
<1>4. \A g \in Fetches : NoFetch[g] = None
  BY DEF NoFetch
<1>5. crossed' \in BOOLEAN
  BY <1>2
<1>. QED
  BY <1>3, <1>4, <1>5, SendKeeps

\* The query changed: what was of the effect is cancelled; what is shared, or of
\* nobody and for another query, crosses.
LEMMA ChangeKeeps ==
  ASSUME ListOK, NEW q \in Queries, ChangeQuery(q)
  PROVE  ListOK'
<1>. DEFINE l == [list EXCEPT !.query = q]
            fs == CancelEffect(fetches)
<1>1. list \in List /\ l \in List /\ l.query = q /\ l.inFlight = list.inFlight
  BY DEF ChangeQuery, ListOK, ListTypeOK, List
<1>2. /\ fs \in [Fetches -> Fetch \cup {None}]
      /\ \A g \in Fetches : fs[g] # None =>
           /\ fetches[g] # None /\ fs[g].by # "effect"
           /\ fs[g].by = "nobody" => fs[g] = fetches[g]
  <2>1. \A g \in Fetches : /\ fs[g] \in Fetch \cup {None}
                           /\ fs[g] # None => /\ fetches[g] # None /\ fs[g].by # "effect"
                                              /\ fs[g].by = "nobody" => fs[g] = fetches[g]
    BY NoneIsNoList DEF CancelEffect, ListOK, ListTypeOK, Fetch
  <2>2. fs \in [Fetches -> Fetch \cup {None}]
    BY <2>1 DEF CancelEffect
  <2>. QED
    BY <2>1, <2>2
<1>3. /\ ListLoad(l, fs, IF list.loaded THEN "refresh" ELSE "initial", "effect")
      /\ crossed' = (Unowned(q) \/ (list.loaded /\ list.inFlight # None))
  BY DEF ChangeQuery
<1>. HIDE DEF l, fs
<1>4. crossed' \in BOOLEAN
  BY <1>3
<1>5. \A g \in Fetches : fs[g] # None /\ (fs[g].by = "effect" \/ (fs[g].by = "nobody" /\ ~crossed'))
                           => fs[g].query = q
  BY <1>2, <1>3 DEF Unowned, InFlight
<1>6. CASE list' = l /\ fetches' = fs /\ crossed'
  BY <1>1, <1>2, <1>5, <1>6 DEF ListOK, ListTypeOK, OwnQuery, ListAnswersQuery, InFlight
<1>7. CASE Sends(q, fs, "effect")
  BY <1>4, <1>5, <1>7, SendKeeps
<1>. QED
  <2>1. \/ list.loaded /\ l.inFlight # None /\ list' = l /\ fetches' = fs
        \/ Sends(q, fs, "effect")
    BY <1>1, <1>2, <1>3, ListLoadEffect
  <2>. QED
    BY <1>1, <1>3, <1>6, <1>7, <2>1

LEMMA RefreshKeeps ==
  ASSUME ListOK, ListRefresh
  PROVE  ListOK'
<1>1. /\ list \in List /\ list # None /\ fetches \in [Fetches -> Fetch \cup {None}] /\ crossed \in BOOLEAN
      /\ ListLoad(list, fetches, "refresh", "nobody")
      /\ crossed' = (crossed /\ (list.inFlight # None \/ Unowned(list.query)))
  BY DEF ListRefresh, ListOK, ListTypeOK
<1>2. CASE list.inFlight # None /\ list' = list /\ fetches' = fetches
  BY <1>1, <1>2 DEF ListOK, ListTypeOK, OwnQuery, ListAnswersQuery, InFlight
<1>3. CASE list.inFlight = None /\ Sends(list.query, fetches, "nobody")
  <2>1. list.query \in Queries /\ crossed' \in BOOLEAN
    BY <1>1 DEF List
  <2>2. \A g \in Fetches : fetches[g] # None /\ (fetches[g].by = "effect" \/ (fetches[g].by = "nobody" /\ ~crossed'))
                             => fetches[g].query = list.query
    BY <1>1, <1>3 DEF Unowned, ListOK, OwnQuery, InFlight
  <2>. QED
    BY <1>3, <2>1, <2>2, SendKeeps
<1>. QED
  BY <1>1, <1>2, <1>3, ListLoadEffect

\* An answer to what was cancelled leaves what is shown and asked; any other one
\* is for the query of the list unless that changed under it.
LEMMA AnswerKeeps ==
  ASSUME ListOK, NEW f \in Fetches, ListAnswer(f) \/ ListError(f)
  PROVE  ListOK'
<1>1. /\ list \in List /\ list # None /\ fetches[f] \in Fetch /\ UNCHANGED crossed /\ crossed \in BOOLEAN
      /\ fetches \in [Fetches -> Fetch \cup {None}]
      /\ fetches' = [fetches EXCEPT ![f] = None]
  BY DEF ListAnswer, ListError, ListOK, ListTypeOK
<1>2. /\ fetches' \in [Fetches -> Fetch \cup {None}]
      /\ InFlight(fetches)' = InFlight(fetches) \ {f} /\ f \in InFlight(fetches)
      /\ \A g \in Fetches \ {f} : fetches'[g] = fetches[g]
  BY <1>1, NoneIsNoList DEF InFlight
<1>3. \/ /\ fetches[f].by = "cancelled"
         /\ list' = [list EXCEPT !.inFlight = None]
      \/ /\ fetches[f].by # "cancelled"
         /\ \/ list' = [list EXCEPT !.inFlight = None, !.loaded = TRUE, !.shown = fetches[f].query, !.status = "shown"]
            \/ list' = [list EXCEPT !.inFlight = None, !.status = "error"]
  <2>1. End(f) = [list EXCEPT !.inFlight = None] /\ End(f) \in List
    BY <1>1 DEF End, List
  <2>2. CASE ListAnswer(f)
    BY <1>1, <2>1, <2>2 DEF ListAnswer, List
  <2>3. CASE ListError(f)
    BY <1>1, <2>1, <2>3 DEF ListError, List
  <2>. QED
    BY <2>2, <2>3
<1>4. list' \in List /\ list'.query = list.query
  BY <1>1, <1>3 DEF List, Fetch
<1>5. OwnQuery'
  BY <1>1, <1>2, <1>4 DEF OwnQuery, ListOK
<1>6. ListAnswersQuery'
  <2>. SUFFICES ASSUME ~crossed
                PROVE  /\ list'.status \in {"loading", "refreshing"} =>
                            \E g \in InFlight(fetches)' : fetches'[g].query = list'.query /\ fetches'[g].by # "cancelled"
                       /\ list'.status = "shown" => list'.shown = list'.query
    BY <1>1 DEF ListAnswersQuery
  <2>1. CASE fetches[f].by = "cancelled" /\ list' = [list EXCEPT !.inFlight = None]
    <3>1. list'.status = list.status /\ list'.shown = list.shown
      BY <1>1, <2>1 DEF List
    <3>. QED
      BY <1>1, <1>2, <1>4, <2>1, <3>1 DEF ListOK, ListAnswersQuery, InFlight
  <2>2. CASE /\ fetches[f].by # "cancelled"
             /\ list' = [list EXCEPT !.inFlight = None, !.loaded = TRUE, !.shown = fetches[f].query, !.status = "shown"]
    <3>1. list'.status = "shown" /\ list'.shown = fetches[f].query
      BY <1>1, <2>2 DEF List
    <3>2. fetches[f].by \in {"effect", "nobody"}
      BY <1>1, <2>2 DEF Fetch
    <3>3. fetches[f].query = list.query
      BY <1>1, <1>2, <3>2 DEF ListOK, OwnQuery
    <3>. QED
      BY <1>4, <3>1, <3>3
  <2>3. CASE list' = [list EXCEPT !.inFlight = None, !.status = "error"]
    <3>1. list'.status = "error"
      BY <1>1, <2>3 DEF List
    <3>. QED
      BY <3>1
  <2>. QED
    BY <1>3, <2>1, <2>2, <2>3
<1>. QED
  BY <1>1, <1>2, <1>4, <1>5, <1>6 DEF ListOK, ListTypeOK

LEMMA ListNext ==
  ASSUME ListOK, (\E q \in Queries : ListMount(q)) \/ ListUnmount \/ ListStep \/ UNCHANGED listVars
  PROVE  ListOK'
<1>1. CASE ListUnmount
  BY <1>1 DEF ListUnmount, ListOK, ListTypeOK, OwnQuery, ListAnswersQuery, NoFetch
<1>2. CASE UNCHANGED listVars
  BY <1>2 DEF listVars, ListOK, ListTypeOK, OwnQuery, ListAnswersQuery, InFlight
<1>. QED
  BY <1>1, <1>2, MountKeeps, ChangeKeeps, RefreshKeeps, AnswerKeeps DEF ListStep, ListTick

-----------------------------------------------------------------------------
(* Pages: the dashboard *)

AskedIsLoaded == board # None => (board.inFlight # None => board.asked = loads[board.inFlight].period)

BoardOK == BoardTypeOK /\ BusyIsLatest /\ AskedIsLoaded

\* load() of a hook in state b: the load there is for its period already, or a
\* new one takes over.
LEMMA BoardLoadStep ==
  ASSUME NEW b \in Board, NEW mode, BoardLoad(b, mode), BoardTypeOK,
         b.inFlight # None =>
           /\ b.status \in {"loading", "refreshing"} /\ b.inFlight = b.latest
           /\ b.inFlight \in Running /\ b.asked = loads[b.inFlight].period
  PROVE  /\ BoardOK' /\ board' # None
         /\ board'.period = b.period /\ board'.chart = b.chart /\ board'.inFlight # None
<1>1. CASE b.inFlight # None /\ b.asked = b.period
  <2>1. board' = b /\ loads' = loads
    BY <1>1 DEF BoardLoad
  <2>. QED
    BY <1>1, <2>1, NoneIsNoBoard DEF BoardOK, BoardTypeOK, BusyIsLatest, AskedIsLoaded, Running
<1>2. CASE ~(b.inFlight # None /\ b.asked = b.period)
  <2>. DEFINE i == NextLoad
              first == mode = "initial" /\ ~b.loaded
              status == IF first THEN "loading" ELSE "refreshing"
              load == [period |-> b.period, state |-> "asking", left |-> IF first THEN Attempts ELSE 1]
  <2>1. i \in Loads
    <3>1. \E j : j \in Loads \ Running
      BY <1>2 DEF BoardLoad, Running
    <3>. QED
      BY <3>1 DEF NextLoad
  <2>2. /\ board' = [b EXCEPT !.latest = i, !.inFlight = i, !.asked = b.period, !.status = status]
        /\ loads' = [loads EXCEPT ![i] = load]
    BY <1>2 DEF BoardLoad
  <2>3. load \in Load /\ load # None /\ load.period = b.period
    BY AttemptsArePositive, NoneIsNoBoard DEF Load, Board
  <2>4. status \in {"loading", "refreshing"}
    OBVIOUS
  <2>. HIDE DEF i, load, status
  <2>5. /\ board' \in Board /\ board'.period = b.period /\ board'.chart = b.chart
        /\ board'.inFlight = i /\ board'.latest = i /\ board'.asked = b.period /\ board'.status = status
    BY <2>1, <2>2, <2>4 DEF Board
  <2>6. loads' \in [Loads -> Load \cup {None}] /\ loads'[i] = load
    BY <2>1, <2>2, <2>3 DEF BoardTypeOK
  <2>7. i # None /\ board' # None
    BY <2>1, <2>5, NoneIsNoBoard
  <2>. QED
    BY <2>1, <2>3, <2>4, <2>5, <2>6, <2>7 DEF BoardOK, BoardTypeOK, BusyIsLatest, AskedIsLoaded, Running
<1>. QED
  BY <1>1, <1>2

\* A mount and a new period want the period; a refresh asks once more.
LEMMA MountShows ==
  ASSUME BoardOK, NEW p \in Periods, BoardMount(p)
  PROVE  BoardOK' /\ View!Next
<1>. DEFINE b == [period |-> p, latest |-> None, inFlight |-> None, asked |-> None, loaded |-> FALSE,
                  status |-> "loading", chart |-> [of |-> None, points |-> FALSE, stale |-> FALSE]]
<1>1. b \in Board /\ b.inFlight = None /\ b.period = p /\ b.chart.of = None
  BY DEF Board, Chart
<1>2. board = None /\ BoardLoad(b, "initial")
  BY DEF BoardMount
<1>. HIDE DEF b
<1>3. BoardOK' /\ board' # None /\ board'.period = p /\ board'.chart.of = None /\ board'.inFlight # None
  BY <1>1, <1>2, BoardLoadStep DEF BoardOK
<1>4. View!Want(p)
  BY <1>2, <1>3 DEF View!Want
<1>. QED
  BY <1>3, <1>4 DEF View!Next

LEMMA PeriodShows ==
  ASSUME BoardOK, NEW p \in Periods, SetPeriod(p)
  PROVE  BoardOK' /\ View!Next
<1>. DEFINE b == [board EXCEPT !.period = p]
            mode == IF board.loaded THEN "refresh" ELSE "initial"
<1>1. board \in Board /\ board # None /\ BoardLoad(b, mode)
  BY DEF SetPeriod, BoardOK, BoardTypeOK
<1>2. /\ b \in Board /\ b.period = p
      /\ b.chart = board.chart /\ b.inFlight = board.inFlight /\ b.latest = board.latest
      /\ b.status = board.status /\ b.asked = board.asked
  BY <1>1 DEF Board
<1>. HIDE DEF b, mode
<1>3. BoardOK' /\ board' # None /\ board'.period = p /\ board'.chart = board.chart /\ board'.inFlight # None
  BY <1>1, <1>2, BoardLoadStep DEF BoardOK, BusyIsLatest, AskedIsLoaded
<1>4. View!Want(p)
  BY <1>1, <1>3 DEF View!Want
<1>. QED
  BY <1>3, <1>4 DEF View!Next

LEMMA RefreshShows ==
  ASSUME BoardOK, BoardRefresh
  PROVE  BoardOK' /\ View!Next
<1>1. board \in Board /\ board # None /\ BoardLoad(board, "refresh")
  BY DEF BoardRefresh, BoardOK, BoardTypeOK
<1>2. /\ BoardOK' /\ board' # None
      /\ board'.period = board.period /\ board'.chart = board.chart /\ board'.inFlight # None
  BY <1>1, BoardLoadStep DEF BoardOK, BusyIsLatest, AskedIsLoaded
<1>3. View!Ask
  BY <1>1, <1>2, NoneIsNoBoard DEF View!Ask, Board
<1>. QED
  BY <1>2, <1>3 DEF View!Next

\* mergeSnapshot(): the new points, or those there were, or none.
LEMMA MergedChart ==
  ASSUME NEW chart \in Chart, NEW r \in Snapshot, NEW p \in Periods
  PROVE  Merged(chart, r, p) \in Chart /\ Merged(chart, r, p).of \in {p, chart.of, None}
<1>1. CASE r.chart = "error" /\ chart.points
  BY <1>1 DEF Merged, Chart
<1>2. CASE ~(r.chart = "error" /\ chart.points)
  BY <1>2 DEF Merged, Chart
<1>. QED
  BY <1>1, <1>2

\* A load that goes on, or was overtaken, shows nothing; the latest one ends the
\* wait and shows its period, which is the one selected.
LEMMA LatestAnswer ==
  ASSUME BoardOK, NEW i \in Loads, NEW r \in Results, board # None, loads[i] # None, IsLatest(i),
         board' = Ended(Shown(board, r, loads[i].period), i), loads' = [loads EXCEPT ![i] = None]
  PROVE  BoardOK' /\ View!Next
<1>. DEFINE b == Shown(board, r, loads[i].period)
<1>1. /\ board \in Board /\ loads[i].period = board.period /\ board.period \in Periods
      /\ board.latest = i /\ board.inFlight = i /\ i # None
  BY NoneIsNoBoard DEF BoardOK, BoardTypeOK, BusyIsLatest, IsLatest, Board
<1>2. /\ b \in Board /\ b.period = board.period /\ b.latest = i /\ b.inFlight = i
      /\ b.status \in {"error", "success"} /\ b.chart.of \in {board.period, board.chart.of, None}
  <2>1. CASE r = None
    <3>1. b = [board EXCEPT !.status = "error"]
      BY <2>1 DEF Shown
    <3>. HIDE DEF b
    <3>. QED
      BY <1>1, <3>1 DEF Board
  <2>2. CASE r # None
    <3>. DEFINE chart == Merged(board.chart, r, board.period)
    <3>1. r \in Snapshot /\ board.chart \in Chart
      BY <1>1, <2>2 DEF Results, Board
    <3>2. chart \in Chart /\ chart.of \in {board.period, board.chart.of, None}
      BY <1>1, <3>1, MergedChart
    <3>3. b = [board EXCEPT !.loaded = TRUE, !.chart = chart, !.status = "success"]
      BY <1>1, <2>2 DEF Shown
    <3>. HIDE DEF b, chart
    <3>. QED
      BY <1>1, <3>2, <3>3 DEF Board
  <2>. QED
    BY <2>1, <2>2
<1>. HIDE DEF b
<1>3. board' = [b EXCEPT !.inFlight = None, !.latest = None]
  <2>1. board' = Ended(b, i)
    BY DEF b
  <2>. QED
    BY <1>1, <2>1 DEF Ended
<1>4. /\ board' \in Board /\ board'.period = board.period /\ board'.inFlight = None /\ board'.latest = None
      /\ board'.status \in {"error", "success"} /\ board'.chart.of \in {board.period, board.chart.of, None}
  BY <1>2, <1>3 DEF Board
<1>5. loads' \in [Loads -> Load \cup {None}] /\ board' # None
  BY <1>4, NoneIsNoBoard DEF BoardOK, BoardTypeOK
<1>6. BoardOK'
  BY <1>4, <1>5 DEF BoardOK, BoardTypeOK, BusyIsLatest, AskedIsLoaded
<1>7. View!Show \/ View!Miss
  BY <1>1, <1>4, <1>5 DEF View!Show, View!Miss
<1>. QED
  BY <1>6, <1>7 DEF View!Next

LEMMA AnswerShows ==
  ASSUME BoardOK, NEW i \in Loads, NEW r \in Results, BoardAnswer(i, r)
  PROVE  BoardOK' /\ [View!Next]_(View!vars)
<1>1. /\ board \in Board /\ board # None /\ loads[i] # None /\ loads[i] \in Load /\ loads[i].state = "asking"
      /\ loads \in [Loads -> Load \cup {None}]
  BY DEF BoardAnswer, BoardOK, BoardTypeOK
<1>2. CASE /\ ShouldRetry(r) /\ Again(i) /\ UNCHANGED board
           /\ loads' = [loads EXCEPT ![i].state = "waiting", ![i].left = @ - 1]
  <2>1. PICK n \in 1..Attempts : loads[i].left = n
    BY <1>1 DEF Load
  <2>2. n - 1 \in 1..Attempts
    BY <1>2, <2>1, AttemptsArePositive DEF Again
  <2>. DEFINE load == [loads[i] EXCEPT !.state = "waiting", !.left = n - 1]
  <2>3. load \in Load /\ load.period = loads[i].period
    BY <1>1, <2>2 DEF Load
  <2>4. loads' = [loads EXCEPT ![i] = load] /\ load # None
    BY <1>1, <1>2, <2>1, <2>3, NoneIsNoBoard
  <2>. HIDE DEF load
  <2>5. /\ loads' \in [Loads -> Load \cup {None}] /\ Running' = Running
        /\ \A j \in Running : loads'[j].period = loads[j].period
    BY <1>1, <2>3, <2>4 DEF Running
  <2>6. BoardOK'
    BY <1>2, <2>5 DEF BoardOK, BoardTypeOK, BusyIsLatest, AskedIsLoaded
  <2>. QED
    BY <1>2, <2>6 DEF View!vars
<1>3. CASE ~IsLatest(i) /\ board' = Ended(board, i) /\ loads' = [loads EXCEPT ![i] = None]
  <2>1. UNCHANGED board /\ i # board.latest
    BY <1>3 DEF Ended, IsLatest
  <2>2. /\ loads' \in [Loads -> Load \cup {None}]
        /\ \A j \in Loads \ {i} : loads'[j] = loads[j]
    BY <1>1, <1>3
  <2>3. BoardOK'
    BY <1>1, <2>1, <2>2 DEF BoardOK, BoardTypeOK, BusyIsLatest, AskedIsLoaded, Running
  <2>. QED
    BY <2>1, <2>3 DEF View!vars
<1>4. CASE IsLatest(i) /\ board' = Ended(Shown(board, r, loads[i].period), i) /\ loads' = [loads EXCEPT ![i] = None]
  BY <1>1, <1>4, LatestAnswer
<1>. QED
  BY <1>2, <1>3, <1>4 DEF BoardAnswer

LEMMA RetryShows ==
  ASSUME BoardOK, NEW i \in Loads, BoardRetry(i)
  PROVE  BoardOK' /\ UNCHANGED board
<1>1. /\ loads[i] # None /\ loads[i] \in Load /\ UNCHANGED board /\ loads \in [Loads -> Load \cup {None}]
      /\ loads' = [loads EXCEPT ![i].state = "asking"]
  BY DEF BoardRetry, BoardOK, BoardTypeOK
<1>2. [loads[i] EXCEPT !.state = "asking"] \in Load
  BY <1>1 DEF Load
<1>3. /\ loads' \in [Loads -> Load \cup {None}] /\ Running' = Running
      /\ \A j \in Running : loads'[j].period = loads[j].period
  BY <1>1, <1>2, NoneIsNoBoard DEF Running, Load
<1>. QED
  BY <1>1, <1>3 DEF BoardOK, BoardTypeOK, BusyIsLatest, AskedIsLoaded

LEMMA BoardNext ==
  ASSUME BoardOK, (\E p \in Periods : BoardMount(p)) \/ BoardUnmount \/ BoardStep \/ UNCHANGED boardVars
  PROVE  BoardOK' /\ [View!Next]_(View!vars)
<1>1. CASE BoardUnmount
  <2>1. board' = None /\ loads' \in [Loads -> Load \cup {None}]
    BY <1>1 DEF BoardUnmount, NoLoad
  <2>2. BoardOK' /\ View!Leave
    BY <2>1 DEF BoardOK, BoardTypeOK, BusyIsLatest, AskedIsLoaded, View!Leave
  <2>. QED
    BY <2>2 DEF View!Next
<1>2. CASE UNCHANGED boardVars
  BY <1>2 DEF boardVars, BoardOK, BoardTypeOK, BusyIsLatest, AskedIsLoaded, Running, View!vars
<1>3. CASE \E i \in Loads : BoardRetry(i)
  BY <1>3, RetryShows DEF View!vars
<1>. QED
  BY <1>1, <1>2, <1>3, MountShows, PeriodShows, RefreshShows, AnswerShows DEF BoardStep

-----------------------------------------------------------------------------
(* Pages: the theorems *)

PagesInv == ListOK /\ BoardOK /\ (list = None \/ board = None)

LEMMA PagesStart == PagesInit => PagesInv /\ View!Init
BY DEF PagesInit, ListInit, BoardInit, PagesInv, ListOK, ListTypeOK, OwnQuery, ListAnswersQuery, NoFetch,
       BoardOK, BoardTypeOK, BusyIsLatest, AskedIsLoaded, NoLoad, View!Init

LEMMA PagesStep == PagesInv /\ [PagesNext]_pagesVars => PagesInv' /\ [View!Next]_(View!vars)
<1>. SUFFICES ASSUME PagesInv, [PagesNext]_pagesVars PROVE PagesInv' /\ [View!Next]_(View!vars)
  OBVIOUS
<1>1. (\E q \in Queries : ListMount(q)) \/ ListUnmount \/ ListStep \/ UNCHANGED listVars
  BY DEF PagesNext, GoToList, GoToDashboard, LeaveList, LeaveDashboard, OnList, OnDashboard,
         pagesVars, listVars
<1>2. (\E p \in Periods : BoardMount(p)) \/ BoardUnmount \/ BoardStep \/ UNCHANGED boardVars
  BY DEF PagesNext, GoToList, GoToDashboard, LeaveList, LeaveDashboard, OnList, OnDashboard,
         pagesVars, boardVars
<1>3. list' = None \/ board' = None
  <2>1. list = None => UNCHANGED listVars \/ (board = None /\ UNCHANGED boardVars)
    BY DEF PagesNext, GoToList, GoToDashboard, LeaveList, LeaveDashboard, OnList, OnDashboard, ListStep,
           ListUnmount, ChangeQuery, ListRefresh, ListTick, ListAnswer, ListError, pagesVars, listVars
  <2>2. board = None => UNCHANGED boardVars \/ (list = None /\ UNCHANGED listVars)
    BY DEF PagesNext, GoToList, GoToDashboard, LeaveList, LeaveDashboard, OnList, OnDashboard, BoardStep,
           BoardUnmount, SetPeriod, BoardRefresh, BoardAnswer, BoardRetry, pagesVars, boardVars
  <2>3. UNCHANGED listVars \/ UNCHANGED boardVars
    BY DEF PagesNext, GoToList, GoToDashboard, LeaveList, LeaveDashboard, OnList, OnDashboard,
           pagesVars, listVars, boardVars
  <2>. QED
    BY <2>1, <2>2, <2>3 DEF PagesInv, listVars, boardVars
<1>. QED
  BY <1>1, <1>2, <1>3, ListNext, BoardNext DEF PagesInv

\* The inductive invariant of the pages, for any queries, periods and attempts
\* and any number of requests in flight.
THEOREM PagesInvariance == PagesSpec => []PagesInv
<1>. QED
  BY PagesStart, PagesStep, PTL DEF PagesSpec

\* Types of the hooks and of what they have in flight; one page at a time.
THEOREM PagesTypeCorrect == PagesSpec => []PagesTypeOK
<1>1. PagesInv => PagesTypeOK
  BY DEF PagesInv, ListOK, BoardOK, PagesTypeOK
<1>. QED
  BY <1>1, PagesInvariance, PTL

\* load() of the list hooks and of useDashboard: a page that is busy has a
\* request in flight for what is selected, and a list that is not shows what it
\* was asked for, unless the query changed under a request it could not cancel.
THEOREM PagesNeverStick == PagesSpec => []NoStuckPage
<1>1. PagesInv => NoStuckPage
  BY DEF PagesInv, ListOK, BoardOK, NoStuckPage
<1>. QED
  BY <1>1, PagesInvariance, PTL

\* useDashboard implements LatestView: no load that was overtaken is ever shown.
THEOREM DashboardRefinesLatestView == PagesSpec => DashboardShowsLatest
<1>. QED
  BY PagesStart, PagesStep, PagesInvariance, PTL DEF PagesSpec, DashboardShowsLatest, View!Spec
=============================================================================
