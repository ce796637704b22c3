------------------------------- MODULE AgentLink -------------------------------
(***************************************************************************)
(* The agent on a host and its way to server-service: the enroll command,  *)
(* which trades a token for a credential and saves it to a file, and the   *)
(* run loop, which reads the file once and then signs heartbeats until it  *)
(* is refused or runs out of retries and is started again by systemd.      *)
(* Requests and answers are lost, delayed and, on the way to the service,  *)
(* repeated; both programs may be killed at any step.                      *)
(*                                                                         *)
(* Time is relative: a tick makes every timestamp and nonce one older, and *)
(* what is too old to matter stays as old as it is.  What the handlers of  *)
(* server-service do in several database calls is one step here; the       *)
(* module AgentLifecycle takes enrollment and rotation apart.              *)
(***************************************************************************)
EXTENDS Integers, NoValue

CONSTANTS
  Credentials,  \* ids of credentials; bound: so many can be issued
  Tokens,       \* enrollment tokens; bound: so many can be issued
  Wires,        \* bound: signed requests that may still arrive, at once
  MaxRetries,   \* AGENT_MAX_RETRIES
  Window,       \* AGENT_TIMESTAMP_WINDOW_MS
  Leads         \* by how much the clock of the host may be ahead

ASSUME AgentLinkAssumption ==
  /\ None \notin Credentials \cup Tokens \cup Wires \cup Int
  /\ MaxRetries \in Nat
  /\ Window \in Nat \ {0}
  /\ Leads \subseteq Int

VARIABLES
  credential,  \* AgentCredential.status, or ABSENT
  purpose,     \* EnrollmentToken.purpose, or NONE for a token not issued yet
  usable,      \* tokens that are neither used nor revoked nor expired
  file,        \* agent.json: the credential it names
  command,     \* the enroll command, if one is running
  late,        \* tokens of enroll requests that nobody listens to any more
  agent,       \* the process of the run command
  wire,        \* wire[n]: a signed request of which a copy may still arrive
  rotated      \* history: credentials an operator rotated away

service == <<credential, purpose, usable, rotated>>
vars == <<service, file, command, late, agent, wire>>

-----------------------------------------------------------------------------
Attempts == 0..MaxRetries
Held == Credentials \cup {None}

Command ==
  [step : {"ask"}, token : Tokens, attempt : Attempts] \cup [step : {"save"}, got : Credentials]

Down == [step |-> "down"]
Stopped == [step |-> "stopped"]
Ready(c, attempt) == [step |-> "ready", as |-> c, attempt |-> attempt]
Agent ==
  {Down, Stopped} \cup [step : {"ready"}, as : Credentials, attempt : Attempts]
    \cup [step : {"waiting"}, as : Credentials, attempt : Attempts, for : Wires]
    \cup [step : {"heard"}, as : Credentials]

\* The row of its nonce (expiresAt, relative to now), and a count of how often
\* the handler ran.
Signed == [as : Credentials, stamp : Int, row : Int \cup {None}, runs : Nat]

TypeOK ==
  /\ credential \in [Credentials -> {"ABSENT", "ACTIVE", "ROTATED"}]
  /\ purpose \in [Tokens -> {"ENROLL", "ROTATE", "NONE"}]
  /\ usable \subseteq Tokens
  /\ file \in Held
  /\ command \in Command \cup {None}
  /\ late \subseteq Tokens
  /\ agent \in Agent
  /\ wire \in [Wires -> Signed \cup {None}]
  /\ rotated \subseteq Credentials

-----------------------------------------------------------------------------
(* The operator *)

Active == {c \in Credentials : credential[c] = "ACTIVE"}

Issue(for) ==
  \E t \in Tokens :
    /\ purpose[t] = "NONE"
    /\ purpose' = [purpose EXCEPT ![t] = for]
    /\ usable' = {t}

NewToken ==
  /\ Active = {}
  /\ Issue("ENROLL")
  /\ UNCHANGED <<credential, file, command, late, agent, wire, rotated>>

\* The token comes last: when that fails there is none, until the next rotation.
Rotate ==
  /\ credential' = [c \in Credentials |-> IF c \in Active THEN "ROTATED" ELSE credential[c]]
  /\ rotated' = rotated \cup Active
  /\ Issue("ROTATE") \/ (usable' = {} /\ UNCHANGED purpose)
  /\ UNCHANGED <<file, command, late, agent, wire>>

TokenExpires(t) ==
  /\ t \in usable
  /\ usable' = usable \ {t}
  /\ UNCHANGED <<credential, purpose, file, command, late, agent, wire, rotated>>

-----------------------------------------------------------------------------
(* enroll() of server-service *)

ConsumableTwice(t) == purpose[t] # "NONE"
Consumable(t) == t \in usable

Refuses(t) == ~Consumable(t) /\ UNCHANGED service

\* The token is spent before the server is looked at, and stays spent.
Spend(t) ==
  /\ Consumable(t)
  /\ usable' = usable \ {t}
  /\ UNCHANGED <<credential, purpose, rotated>>

Enrolls(t, c) ==
  /\ Consumable(t)
  /\ purpose[t] = "ENROLL" => Active = {}
  /\ credential[c] = "ABSENT"
  /\ usable' = usable \ {t}
  /\ credential' = [d \in Credentials |->
       IF d = c THEN "ACTIVE"
       ELSE IF purpose[t] = "ROTATE" /\ d \in Active THEN "ROTATED" ELSE credential[d]]
  /\ UNCHANGED <<purpose, rotated>>

\* Refused with 409, for an ENROLL token alone.
AlreadyEnrolled(t) == purpose[t] = "ENROLL" /\ Active # {} /\ Spend(t)

Handles(t) == Refuses(t) \/ Spend(t) \/ \E c \in Credentials : Enrolls(t, c)

LateEnroll(t) ==
  /\ t \in late
  /\ Handles(t)
  /\ late' = late \ {t}
  /\ UNCHANGED <<file, command, agent, wire>>

-----------------------------------------------------------------------------
(* The enroll command: one key pair and one token for all its attempts *)

RunEnroll(t) ==
  /\ command = None
  /\ purpose[t] # "NONE"
  /\ command' = [step |-> "ask", token |-> t, attempt |-> 0]
  /\ UNCHANGED <<service, file, late, agent, wire>>

Asking == IF command = None THEN FALSE ELSE command.step = "ask"

EnrollSucceeds(c) ==
  /\ Asking
  /\ Enrolls(command.token, c)
  /\ command' = [step |-> "save", got |-> c]
  /\ UNCHANGED <<file, late, agent, wire>>

EnrollRefused ==
  /\ Asking
  /\ Refuses(command.token) \/ AlreadyEnrolled(command.token)
  /\ command' = None
  /\ UNCHANGED <<file, late, agent, wire>>

\* A 5xx, a 429 or no answer, whatever became of the request: tried again.
EnrollFails ==
  /\ Asking
  /\ \/ Handles(command.token) /\ UNCHANGED late
     \/ late' \in {late, late \cup {command.token}} /\ UNCHANGED service
  /\ command' = IF command.attempt < MaxRetries
                THEN [command EXCEPT !.attempt = @ + 1] ELSE None
  /\ UNCHANGED <<file, agent, wire>>

\* writeStateAtomic(): the file is the old one or the new one.
Save ==
  /\ IF command = None THEN FALSE ELSE command.step = "save"
  /\ file' = command.got
  /\ command' = None
  /\ UNCHANGED <<service, late, agent, wire>>

KillEnroll ==
  /\ command # None
  /\ command' = None
  /\ late' \in {late} \cup (IF Asking THEN {late \cup {command.token}} ELSE {})
  /\ UNCHANGED <<service, file, agent, wire>>

-----------------------------------------------------------------------------
(* authenticate() and the heartbeat handler behind it *)

InWindow(r) == -Window <= r.stamp /\ r.stamp <= Window

\* The nonce is inserted before the credential is looked at.
Recorded(r) == [r EXCEPT !.row = 2 * Window]
Ran(r) == [Recorded(r) EXCEPT !.runs = @ + 1]

Fresh(r) == InWindow(r) /\ r.row = None

\* A handler that breaks off after its nonce is stored has not run.
Rejects(n) ==
  \/ ~Fresh(wire[n]) /\ UNCHANGED wire
  \/ /\ Fresh(wire[n])
     /\ wire[n].as \notin Active
     /\ wire' = [wire EXCEPT ![n] = Recorded(@)]
Accepts(n) ==
  /\ Fresh(wire[n])
  /\ wire[n].as \in Active
  /\ wire' = [wire EXCEPT ![n] = Ran(@)]
BreaksOff(n) == Fresh(wire[n]) /\ wire' = [wire EXCEPT ![n] = Recorded(@)]

\* A copy arrives and its answer is not heard.
Arrive(n) ==
  /\ wire[n] # None
  /\ Accepts(n) \/ BreaksOff(n)
  /\ UNCHANGED <<service, file, command, late, agent>>

\* runCleanup(): nonces whose expiresAt is twice the window ago.
ForgottenEarly(r) == r.row < 2 * Window
Forgotten(r) == r.row < -2 * Window

CleanUp ==
  /\ wire' = [n \in Wires |->
       IF wire[n] = None THEN None
       ELSE IF wire[n].row = None THEN wire[n]
       ELSE IF Forgotten(wire[n]) THEN [wire[n] EXCEPT !.row = None] ELSE wire[n]]
  /\ UNCHANGED <<service, file, command, late, agent>>

Drop(n) ==
  /\ wire[n] # None
  /\ wire' = [wire EXCEPT ![n] = None]
  /\ UNCHANGED <<service, file, command, late, agent>>

Older(x, oldest) == IF x > oldest THEN x - 1 ELSE oldest

Tick ==
  /\ wire' = [n \in Wires |->
       IF wire[n] = None THEN None
       ELSE [wire[n] EXCEPT !.stamp = Older(@, -Window - 1),
                            !.row = IF @ = None THEN None ELSE Older(@, -2 * Window - 1)]]
  /\ UNCHANGED <<service, file, command, late, agent>>

-----------------------------------------------------------------------------
(* The run command and systemd (Restart=on-failure) *)

Loop(next) == agent' = next /\ UNCHANGED <<service, file, command, late>>

\* Without a file run() throws and is down again.
Start ==
  /\ agent = Down
  /\ file # None
  /\ Loop(Ready(file, 0))
  /\ UNCHANGED wire

\* Every attempt is signed anew.
Send(n) ==
  /\ agent.step = "ready"
  /\ wire[n] = None
  /\ \E lead \in Leads :
       wire' = [wire EXCEPT ![n] = [as |-> agent.as, stamp |-> lead, row |-> None, runs |-> 0]]
  /\ Loop([step |-> "waiting", as |-> agent.as, attempt |-> agent.attempt, for |-> n])

WaitsFor(n) == IF agent.step = "waiting" THEN agent.for = n /\ wire[n] # None ELSE FALSE

HearAccepted(n) ==
  /\ WaitsFor(n)
  /\ Accepts(n)
  /\ Loop([step |-> "heard", as |-> agent.as])

\* A refusal is thrown out of the loop and ends the process.
KeepsGoing(c) == Ready(c, 0)
AfterRefusal(c) == Down

HearRejected(n) ==
  /\ WaitsFor(n)
  /\ Rejects(n)
  /\ Loop(AfterRefusal(agent.as))

\* A 5xx, a 429 or no answer in time: tried again, and in the end thrown too.
TimeOut ==
  /\ agent.step = "waiting"
  /\ Loop(IF agent.attempt < MaxRetries THEN Ready(agent.as, agent.attempt + 1) ELSE Down)
  /\ UNCHANGED wire

Rest ==
  /\ agent.step = "heard"
  /\ Loop(Ready(agent.as, 0))
  /\ UNCHANGED wire

Crash == agent \notin {Down, Stopped} /\ Loop(Down) /\ UNCHANGED wire
Stop == agent # Stopped /\ Loop(Stopped) /\ UNCHANGED wire
StartAgain == agent = Stopped /\ Loop(Down) /\ UNCHANGED wire

-----------------------------------------------------------------------------
Init ==
  /\ credential = [c \in Credentials |-> "ABSENT"]
  /\ purpose = [t \in Tokens |-> "NONE"]
  /\ usable = {}
  /\ file = None
  /\ command = None
  /\ late = {}
  /\ agent = Down
  /\ wire = [n \in Wires |-> None]
  /\ rotated = {}

Enrollment ==
  \/ \E t \in Tokens : RunEnroll(t) \/ LateEnroll(t) \/ TokenExpires(t)
  \/ \E c \in Credentials : EnrollSucceeds(c)
  \/ EnrollRefused \/ EnrollFails \/ Save \/ KillEnroll

Heard == \E n \in Wires : HearAccepted(n)

Next ==
  \/ NewToken \/ Rotate \/ Enrollment
  \/ \E n \in Wires : Arrive(n) \/ Drop(n) \/ Send(n) \/ HearRejected(n)
  \/ Heard \/ CleanUp \/ Tick
  \/ Start \/ TimeOut \/ Rest \/ Crash \/ Stop \/ StartAgain

\* systemd starts the process again, its timers fire, and what is lost is gone
\* some day.  A process does not die for ever before its first request, and of
\* requests made again and again one gets through.
Fairness ==
  /\ WF_vars(Start) /\ WF_vars(TimeOut) /\ WF_vars(Rest)
  /\ \A n \in Wires : WF_vars(Drop(n))
  /\ SF_vars(\E n \in Wires : Send(n))
  /\ SF_vars(Heard)

Spec == Init /\ [][Next]_vars /\ Fairness

-----------------------------------------------------------------------------
\* However often and however late copies of a signed request arrive, and
\* whenever nonces are cleaned up, its handler runs at most once.
AcceptedOnce == \A n \in Wires : IF wire[n] = None THEN TRUE ELSE wire[n].runs <= 1

\* The agent on the host is locked out by an operator's rotation and by nothing
\* else: no retry, late copy or crash of an enroll command retires the
\* credential its file names.
OnlyRotationLocksOut ==
  \A c \in Credentials : file = c /\ credential[c] = "ROTATED" => c \in rotated

\* Whatever is retried, lost or late, hosts and operators get no more from the
\* service than it grants: AgentLink and AgentLifecycle meet in AgentAccess.
Access == INSTANCE AgentAccess WITH open <- usable

KeepsToAgentAccess == Access!Spec

\* Once the file names a credential that stays active, the agent reports again
\* and again, whatever it had in memory before and however often it is killed.
KeepsReporting ==
  <>[](file \in Active /\ agent # Stopped) => []<>(agent.step = "heard")
=============================================================================
