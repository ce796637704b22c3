---------------------------- MODULE AgentLinkProofs ----------------------------
(***************************************************************************)
(* Proofs about AgentLink: types, that no signed request runs twice, and   *)
(* that only a rotation locks the agent out.                               *)
(***************************************************************************)
EXTENDS AgentLink, TLAPS

\* A request whose handler ran is remembered, by a row that outlives the time
\* at which its timestamp is still accepted, or is too old to be accepted.
Remembered(r) ==
  \/ r.stamp < -Window
  \/ r.row # None /\ r.row >= r.stamp + Window
NonceInv ==
  \A n \in Wires : wire[n] # None =>
    /\ wire[n].runs <= 1
    /\ wire[n].runs = 1 => Remembered(wire[n])

\* One token can be used at a time, and only while no credential is active:
\* what retires credentials in enroll() finds none.
TokenInv ==
  /\ \A t, u \in usable : t = u
  /\ usable # {} => Active = {}
RotatedInv == \A c \in Credentials : credential[c] = "ROTATED" => c \in rotated

IInv == TypeOK /\ NonceInv /\ TokenInv /\ RotatedInv

-----------------------------------------------------------------------------
(* What the steps of the service do *)

ServiceOK ==
  /\ credential \in [Credentials -> {"ABSENT", "ACTIVE", "ROTATED"}]
  /\ purpose \in [Tokens -> {"ENROLL", "ROTATE", "NONE"}]
  /\ usable \subseteq Tokens
  /\ rotated \subseteq Credentials
  /\ TokenInv
  /\ RotatedInv
HostOK ==
  /\ file \in Held
  /\ command \in Command \cup {None}
  /\ late \subseteq Tokens
  /\ agent \in Agent
WireOK == wire \in [Wires -> Signed \cup {None}] /\ NonceInv

\* The invariant is one of the service, one of the host and one of the wire.
LEMMA Parts ==
  /\ IInv <=> ServiceOK /\ HostOK /\ WireOK
  /\ IInv' <=> ServiceOK' /\ HostOK' /\ WireOK'
BY DEF IInv, TypeOK, ServiceOK, HostOK, WireOK

LEMMA Unchanged ==
  /\ ServiceOK /\ UNCHANGED service => ServiceOK'
  /\ HostOK /\ UNCHANGED <<file, command, late, agent>> => HostOK'
  /\ WireOK /\ UNCHANGED wire => WireOK'
BY DEF service, ServiceOK, HostOK, WireOK, TokenInv, RotatedInv, NonceInv, Active, Remembered

\* An operator makes the one token there is, with no credential active.
LEMMA OperatorStep ==
  ASSUME ServiceOK, NewToken \/ Rotate \/ \E t \in Tokens : TokenExpires(t)
  PROVE  ServiceOK'
<1>1. CASE NewToken
  BY <1>1 DEF NewToken, Issue, ServiceOK, TokenInv, RotatedInv, Active
<1>2. CASE Rotate
  <2>1. Active' = {}
    BY <1>2 DEF Rotate, Active, ServiceOK
  <2>2. RotatedInv' /\ rotated' \subseteq Credentials
    BY <1>2 DEF Rotate, Active, ServiceOK, RotatedInv
  <2>3. CASE Issue("ROTATE")
    BY <1>2, <2>1, <2>2, <2>3 DEF Rotate, Issue, ServiceOK, TokenInv
  <2>4. CASE usable' = {} /\ UNCHANGED purpose
    BY <1>2, <2>1, <2>2, <2>4 DEF Rotate, ServiceOK, TokenInv
  <2>. QED
    BY <1>2, <2>3, <2>4 DEF Rotate
<1>3. ASSUME NEW t \in Tokens, TokenExpires(t) PROVE ServiceOK'
  BY <1>3 DEF TokenExpires, ServiceOK, TokenInv, RotatedInv, Active
<1>. QED
  BY <1>1, <1>2, <1>3

\* enroll(): while a token can be used, no credential is active to be retired.
LEMMA HandlesStep ==
  ASSUME ServiceOK, NEW t \in Tokens, Handles(t)
  PROVE  ServiceOK'
<1>1. CASE Refuses(t)
  BY <1>1, Unchanged DEF Refuses
<1>2. CASE Spend(t)
  BY <1>2 DEF Spend, ServiceOK, TokenInv, RotatedInv, Active
<1>3. ASSUME NEW c \in Credentials, Enrolls(t, c) PROVE ServiceOK'
  <2>1. usable = {t} /\ Active = {}
    BY <1>3 DEF Enrolls, Consumable, ServiceOK, TokenInv
  <2>2. usable' = {} /\ UNCHANGED <<purpose, rotated>>
    BY <1>3, <2>1 DEF Enrolls
  <2>3. credential' = [d \in Credentials |-> IF d = c THEN "ACTIVE" ELSE credential[d]]
    BY <1>3, <2>1 DEF Enrolls
  <2>. QED
    BY <2>1, <2>2, <2>3 DEF ServiceOK, TokenInv, RotatedInv
<1>. QED
  BY <1>1, <1>2, <1>3 DEF Handles

-----------------------------------------------------------------------------
(* The host *)

LEMMA EnrollmentStep == IInv /\ Enrollment => IInv'
<1>. SUFFICES ASSUME ServiceOK, HostOK, WireOK, Enrollment PROVE ServiceOK' /\ HostOK' /\ WireOK'
  BY Parts
<1>1. ASSUME NEW t \in Tokens, RunEnroll(t) PROVE ServiceOK' /\ HostOK' /\ WireOK'
  <2>1. command' \in Command
    BY <1>1, AgentLinkAssumption DEF RunEnroll, Command, Attempts
  <2>. QED
    BY <1>1, <2>1, Unchanged DEF RunEnroll, HostOK
<1>2. ASSUME NEW t \in Tokens, LateEnroll(t) PROVE ServiceOK' /\ HostOK' /\ WireOK'
  BY <1>2, HandlesStep, Unchanged DEF LateEnroll, HostOK
<1>3. ASSUME NEW t \in Tokens, TokenExpires(t) PROVE ServiceOK' /\ HostOK' /\ WireOK'
  BY <1>3, OperatorStep, Unchanged DEF TokenExpires
<1>4. Asking => command.token \in Tokens /\ command.attempt \in Attempts /\ command \in Command
  BY AgentLinkAssumption DEF Asking, HostOK, Command
<1>5. ASSUME NEW c \in Credentials, EnrollSucceeds(c) PROVE ServiceOK' /\ HostOK' /\ WireOK'
  <2>1. ServiceOK'
    BY <1>4, <1>5, HandlesStep DEF EnrollSucceeds, Handles
  <2>. QED
    BY <1>5, <2>1, Unchanged DEF EnrollSucceeds, HostOK, Command
<1>6. CASE EnrollRefused
  <2>1. ServiceOK'
    BY <1>4, <1>6, HandlesStep DEF EnrollRefused, AlreadyEnrolled, Handles
  <2>. QED
    BY <1>6, <2>1, Unchanged DEF EnrollRefused, HostOK
<1>7. CASE EnrollFails
  <2>1. ServiceOK'
    BY <1>4, <1>7, HandlesStep, Unchanged DEF EnrollFails
  <2>2. late' \subseteq Tokens
    BY <1>4, <1>7 DEF EnrollFails, HostOK
  <2>3. command' \in Command \cup {None}
    BY <1>4, <1>7, AgentLinkAssumption DEF EnrollFails, Command, Attempts, Asking
  <2>. QED
    BY <1>7, <2>1, <2>2, <2>3, Unchanged DEF EnrollFails, HostOK
<1>8. CASE Save
  BY <1>8, Unchanged DEF Save, HostOK, Command, Held
<1>9. CASE KillEnroll
  BY <1>4, <1>9, Unchanged DEF KillEnroll, HostOK
<1>. QED
  BY <1>1, <1>2, <1>3, <1>5, <1>6, <1>7, <1>8, <1>9 DEF Enrollment

\* The steps of the run command that touch no request.
LEMMA LoopStep ==
  IInv /\ (Start \/ TimeOut \/ Rest \/ Crash \/ Stop \/ StartAgain) => IInv'
<1>. SUFFICES ASSUME ServiceOK, HostOK, WireOK,
                     Start \/ TimeOut \/ Rest \/ Crash \/ Stop \/ StartAgain
              PROVE  ServiceOK' /\ HostOK' /\ WireOK'
  BY Parts
<1>1. UNCHANGED <<service, file, command, late, wire>>
  BY DEF Start, TimeOut, Rest, Crash, Stop, StartAgain, Loop
<1>2. \A c \in Credentials, i \in Attempts : Ready(c, i) \in Agent
  BY DEF Ready, Agent
<1>3. Down \in Agent /\ Stopped \in Agent /\ 0 \in Attempts
  BY AgentLinkAssumption DEF Agent, Attempts
<1>4. agent' \in Agent
  <2>1. CASE Start
    BY <1>2, <1>3, <2>1 DEF Start, Loop, HostOK, Held
  <2>2. CASE TimeOut
    <3>1. agent.as \in Credentials /\ agent.attempt \in Attempts
      BY <2>2 DEF TimeOut, HostOK, Agent, Down, Stopped
    <3>2. agent.attempt < MaxRetries => agent.attempt + 1 \in Attempts
      BY <3>1, AgentLinkAssumption DEF Attempts
    <3>. QED
      BY <1>2, <1>3, <2>2, <3>1, <3>2 DEF TimeOut, Loop
  <2>3. CASE Rest
    <3>1. agent.as \in Credentials
      BY <2>3 DEF Rest, HostOK, Agent, Down, Stopped
    <3>. QED
      BY <1>2, <1>3, <2>3, <3>1 DEF Rest, Loop
  <2>4. CASE Crash \/ Stop \/ StartAgain
    BY <1>3, <2>4 DEF Crash, Stop, StartAgain, Loop
  <2>. QED
    BY <2>1, <2>2, <2>3, <2>4
<1>. QED
  BY <1>1, <1>4, Unchanged DEF HostOK

-----------------------------------------------------------------------------
(* The wire *)

\* Whatever authenticate() makes of a copy, it accepts no request it remembers.
LEMMA ArrivalStep ==
  ASSUME WireOK, NEW n \in Wires, wire[n] # None, Rejects(n) \/ Accepts(n) \/ BreaksOff(n)
  PROVE  WireOK'
<1>1. wire[n] \in Signed /\ Window \in Nat \ {0}
  BY AgentLinkAssumption DEF WireOK
<1>2. CASE UNCHANGED wire
  BY <1>2, Unchanged
<1>3. CASE Fresh(wire[n]) /\ wire' = [wire EXCEPT ![n] = Recorded(@)]
  <2>1. Recorded(wire[n]) \in Signed
    BY <1>1 DEF Recorded, Signed
  <2>2. wire[n].runs <= 1 /\ wire[n].runs # 1
    BY <1>1, <1>3 DEF WireOK, NonceInv, Remembered, Fresh, InWindow, Signed
  <2>3. Recorded(wire[n]).runs = wire[n].runs
    BY <1>1 DEF Recorded, Signed
  <2>. QED
    BY <1>3, <2>1, <2>2, <2>3 DEF WireOK, NonceInv, Remembered
<1>4. CASE Accepts(n)
  <2>1. wire[n].runs = 0
    BY <1>1, <1>4 DEF Accepts, WireOK, NonceInv, Remembered, Fresh, InWindow, Signed
  <2>2. /\ Ran(wire[n]) \in Signed /\ Ran(wire[n]).row = 2 * Window
        /\ Ran(wire[n]).stamp = wire[n].stamp /\ Ran(wire[n]).runs = 1
    <3>1. wire[n].as \in Credentials /\ wire[n].stamp \in Int /\ 2 * Window \in Int
      BY <1>1 DEF Signed
    <3>2. wire[n] = [as |-> wire[n].as, stamp |-> wire[n].stamp, row |-> wire[n].row, runs |-> 0]
      BY <1>1, <2>1 DEF Signed
    <3>3. Ran(wire[n]) = [as |-> wire[n].as, stamp |-> wire[n].stamp, row |-> 2 * Window, runs |-> 1]
      <4>1. Recorded(wire[n]) = [as |-> wire[n].as, stamp |-> wire[n].stamp, row |-> 2 * Window, runs |-> 0]
        BY <3>2 DEF Recorded
      <4>. QED
        BY <4>1 DEF Ran
    <3>. QED
      BY <3>1, <3>3 DEF Signed
  <2>3. wire[n].stamp \in Int /\ wire[n].stamp <= Window
    BY <1>1, <1>4 DEF Accepts, Fresh, InWindow, Signed
  <2>4. Remembered(Ran(wire[n]))
    BY <1>1, <2>2, <2>3, AgentLinkAssumption DEF Remembered
  <2>. QED
    BY <1>4, <2>2, <2>4 DEF Accepts, WireOK, NonceInv, Remembered
<1>. QED
  BY <1>2, <1>3, <1>4 DEF Rejects, BreaksOff

\* A step of time keeps a row at least a window younger than its timestamp,
\* until the timestamp is too old to be accepted.
LEMMA TickStep == WireOK /\ Tick => WireOK'
<1>. SUFFICES ASSUME WireOK, Tick PROVE WireOK'
  OBVIOUS
<1>1. ASSUME NEW n \in Wires
      PROVE  /\ wire'[n] \in Signed \cup {None}
             /\ wire'[n] # None =>
                  /\ wire'[n].runs <= 1
                  /\ wire'[n].runs = 1 => Remembered(wire'[n])
  <2>1. CASE wire[n] = None
    BY <1>1, <2>1 DEF Tick
  <2>2. CASE wire[n] # None
    <3>1. wire[n] \in Signed /\ Window \in Nat \ {0} /\ (wire[n].row \in Int => wire[n].row # None)
      BY <2>2, AgentLinkAssumption DEF WireOK
    <3>2. wire'[n] = [as |-> wire[n].as, stamp |-> Older(wire[n].stamp, -Window - 1),
                      row |-> IF wire[n].row = None THEN None ELSE Older(wire[n].row, -2 * Window - 1),
                      runs |-> wire[n].runs]
      BY <2>2, <3>1 DEF Tick, Signed
    <3>3. \A x, y \in Int : Older(x, y) \in Int
      BY DEF Older
    <3>4. wire'[n] \in Signed
      <4>1. /\ wire[n].as \in Credentials /\ wire[n].runs \in Nat
            /\ wire[n].stamp \in Int /\ wire[n].row \in Int \cup {None}
            /\ -Window - 1 \in Int /\ -2 * Window - 1 \in Int
        BY <3>1 DEF Signed
      <4>2. Older(wire[n].stamp, -Window - 1) \in Int
        BY <3>3, <4>1
      <4>3. (IF wire[n].row = None THEN None ELSE Older(wire[n].row, -2 * Window - 1)) \in Int \cup {None}
        BY <3>3, <4>1
      <4>. QED
        BY <3>2, <4>1, <4>2, <4>3 DEF Signed
    <3>5. wire[n].runs <= 1 /\ (wire[n].runs = 1 => Remembered(wire[n]))
      BY <2>2 DEF WireOK, NonceInv
    <3>6. Remembered(wire[n]) => Remembered(wire'[n])
      BY <3>1, <3>2, AgentLinkAssumption DEF Remembered, Older, Signed
    <3>. QED
      BY <3>2, <3>4, <3>5, <3>6
  <2>. QED
    BY <2>1, <2>2
<1>2. wire' = [n \in Wires |-> wire'[n]]
  BY DEF Tick
<1>. QED
  BY <1>1, <1>2 DEF WireOK, NonceInv, Remembered

\* A row is deleted only when the timestamp it came with is no longer accepted.
LEMMA CleanUpStep == WireOK /\ CleanUp => WireOK'
<1>. SUFFICES ASSUME WireOK, CleanUp PROVE WireOK'
  OBVIOUS
<1>1. ASSUME NEW n \in Wires
      PROVE  /\ wire'[n] \in Signed \cup {None}
             /\ wire'[n] # None =>
                  /\ wire'[n].runs <= 1
                  /\ wire'[n].runs = 1 => Remembered(wire'[n])
  <2>1. CASE wire'[n] = wire[n]
    BY <2>1 DEF WireOK, NonceInv
  <2>2. CASE wire'[n] # wire[n]
    <3>1. wire[n] # None /\ wire[n].row # None /\ Forgotten(wire[n]) /\ wire[n] \in Signed
      BY <2>2 DEF CleanUp, WireOK
    <3>2. wire'[n] = [as |-> wire[n].as, stamp |-> wire[n].stamp, row |-> None, runs |-> wire[n].runs]
      BY <3>1 DEF CleanUp, Signed
    <3>3. wire[n].runs <= 1 /\ (wire[n].runs = 1 => Remembered(wire[n]))
      BY <3>1 DEF WireOK, NonceInv
    <3>4. Remembered(wire[n]) => wire[n].stamp < -Window
      BY <3>1, AgentLinkAssumption DEF Remembered, Forgotten, Signed
    <3>. QED
      BY <3>1, <3>2, <3>3, <3>4 DEF Signed, Remembered
  <2>. QED
    BY <2>1, <2>2
<1>2. wire' = [n \in Wires |-> wire'[n]]
  BY DEF CleanUp
<1>. QED
  BY <1>1, <1>2 DEF WireOK, NonceInv, Remembered

\* The steps of requests and their answers.
LEMMA WireStep ==
  ASSUME IInv, NEW n \in Wires,
         Arrive(n) \/ Drop(n) \/ Send(n) \/ HearRejected(n) \/ HearAccepted(n)
  PROVE  IInv'
<1>. USE Parts
<1>1. CASE Arrive(n)
  BY <1>1, ArrivalStep, Unchanged DEF Arrive
<1>2. CASE Drop(n)
  <2>1. WireOK'
    BY <1>2 DEF Drop, WireOK, NonceInv, Remembered
  <2>. QED
    BY <1>2, <2>1, Unchanged DEF Drop
<1>3. CASE Send(n)
  <2>1. agent.as \in Credentials /\ agent.attempt \in Attempts
    BY <1>3 DEF Send, HostOK, Agent, Down, Stopped
  <2>2. PICK lead \in Leads :
          wire' = [wire EXCEPT ![n] = [as |-> agent.as, stamp |-> lead, row |-> None, runs |-> 0]]
    BY <1>3 DEF Send
  <2>3. [as |-> agent.as, stamp |-> lead, row |-> None, runs |-> 0] \in Signed
    BY <2>1, AgentLinkAssumption DEF Signed
  <2>4. WireOK'
    BY <2>2, <2>3 DEF WireOK, NonceInv, Remembered
  <2>5. HostOK'
    BY <1>3, <2>1 DEF Send, Loop, HostOK, Agent
  <2>. QED
    BY <1>3, <2>4, <2>5, Unchanged DEF Send, Loop
<1>4. WaitsFor(n) => wire[n] # None /\ agent.as \in Credentials
  BY DEF WaitsFor, HostOK, Agent, Down, Stopped
<1>5. CASE HearRejected(n)
  <2>1. WireOK'
    BY <1>4, <1>5, ArrivalStep DEF HearRejected
  <2>2. HostOK'
    BY <1>5 DEF HearRejected, Loop, HostOK, AfterRefusal, Agent
  <2>. QED
    BY <1>5, <2>1, <2>2, Unchanged DEF HearRejected, Loop
<1>6. CASE HearAccepted(n)
  <2>1. WireOK'
    BY <1>4, <1>6, ArrivalStep DEF HearAccepted
  <2>2. HostOK'
    BY <1>4, <1>6 DEF HearAccepted, Loop, HostOK, Agent
  <2>. QED
    BY <1>6, <2>1, <2>2, Unchanged DEF HearAccepted, Loop
<1>. QED
  BY <1>1, <1>2, <1>3, <1>5, <1>6

-----------------------------------------------------------------------------
LEMMA InvInit == Init => IInv
BY AgentLinkAssumption
   DEF Init, IInv, TypeOK, NonceInv, TokenInv, RotatedInv, Active, Held, Agent, Down

LEMMA InvNext == IInv /\ [Next]_vars => IInv'
<1>. SUFFICES ASSUME IInv, [Next]_vars PROVE IInv'
  OBVIOUS
<1>. USE Parts
<1>1. CASE NewToken \/ Rotate
  BY <1>1, OperatorStep, Unchanged DEF NewToken, Rotate
<1>2. CASE CleanUp
  BY <1>2, CleanUpStep, Unchanged DEF CleanUp
<1>3. CASE Tick
  BY <1>3, TickStep, Unchanged DEF Tick
<1>4. CASE UNCHANGED vars
  BY <1>4, Unchanged DEF vars
<1>. QED
  BY <1>1, <1>2, <1>3, <1>4, EnrollmentStep, LoopStep, WireStep DEF Next, Heard

\* The invariant holds in every state the host, the wire and the service reach.
THEOREM Invariance == Spec => []IInv
<1>. QED
  BY InvInit, InvNext, PTL DEF Spec

\* Types of the files, rows and messages of the agent's protocol.
THEOREM TypeCorrect == Spec => []TypeOK
<1>1. IInv => TypeOK
  BY DEF IInv
<1>. QED
  BY <1>1, Invariance, PTL

\* authenticate() and runCleanup(): with nonces kept for twice the window after
\* they expire, no copy of a request runs its handler a second time, for every
\* window and every lead of the host's clock.
THEOREM NoReplay == Spec => []AcceptedOnce
<1>1. IInv => AcceptedOnce
  BY DEF IInv, NonceInv, AcceptedOnce
<1>. QED
  BY <1>1, Invariance, PTL

\* enroll(): whatever is retried, lost or killed, the credential in agent.json
\* is retired by nothing but an operator's rotation.
THEOREM OnlyRotation == Spec => []OnlyRotationLocksOut
<1>1. IInv => OnlyRotationLocksOut
  BY DEF IInv, RotatedInv, OnlyRotationLocksOut
<1>. QED
  BY <1>1, Invariance, PTL

-----------------------------------------------------------------------------
(* The contract with server-service *)

LEMMA AccessOperator ==
  ASSUME ServiceOK, NewToken \/ Rotate \/ \E t \in Tokens : TokenExpires(t)
  PROVE  Access!Next
<1>1. CASE NewToken
  BY <1>1 DEF NewToken, Issue, ServiceOK, Access!Next, Access!IssueToken, Access!NewToken
<1>2. CASE Rotate
  <2>1. /\ credential' = Access!Retired(Active, "ROTATED")
        /\ Active \in SUBSET Access!Active
    BY <1>2 DEF Rotate, Active, Access!Active, Access!Retired
  <2>2. CASE Issue("ROTATE")
    BY <2>1, <2>2 DEF Issue, Access!Next, Access!Retire, Access!NewToken
  <2>3. CASE usable' = {} /\ UNCHANGED purpose
    BY <2>1, <2>3 DEF Access!Next, Access!Retire
  <2>. QED
    BY <1>2, <2>2, <2>3 DEF Rotate
<1>3. ASSUME NEW t \in Tokens, TokenExpires(t) PROVE Access!Next
  BY <1>3 DEF TokenExpires, Access!Next, Access!Close
<1>. QED
  BY <1>1, <1>2, <1>3

LEMMA AccessHandles ==
  ASSUME ServiceOK, NEW t \in Tokens, Handles(t)
  PROVE  Access!Next \/ UNCHANGED Access!vars
<1>1. CASE Refuses(t)
  BY <1>1 DEF Refuses, service, Access!vars
<1>2. CASE Spend(t)
  BY <1>2 DEF Spend, Access!Next, Access!Close
<1>3. ASSUME NEW c \in Credentials, Enrolls(t, c) PROVE Access!Next
  <2>. DEFINE gone == IF purpose[t] = "ROTATE" THEN Active ELSE {}
  <2>1. Access!Issue(c, gone)
    BY <1>3 DEF Enrolls, ServiceOK, Active, Access!Issue, Access!Retired
  <2>2. gone \in SUBSET Access!Active /\ (gone # {} => purpose[t] = "ROTATE")
    BY DEF Active, Access!Active
  <2>3. t \in usable /\ usable' = usable \ {t}
    BY <1>3 DEF Enrolls, Consumable
  <2>. QED
    BY <2>1, <2>2, <2>3 DEF Access!Next, Access!Enroll
<1>. QED
  BY <1>1, <1>2, <1>3 DEF Handles

LEMMA AccessStep == IInv /\ [Next]_vars => [Access!Next]_(Access!vars)
<1>. SUFFICES ASSUME ServiceOK, HostOK, [Next]_vars
              PROVE  Access!Next \/ UNCHANGED Access!vars
  BY Parts
<1>1. CASE NewToken \/ Rotate
  BY <1>1, AccessOperator
<1>2. CASE Enrollment
  <2>1. Asking => command.token \in Tokens
    BY AgentLinkAssumption DEF Asking, HostOK, Command
  <2>2. \/ \E t \in Tokens : Handles(t) \/ TokenExpires(t)
        \/ UNCHANGED service
    BY <1>2, <2>1 DEF Enrollment, RunEnroll, LateEnroll, EnrollSucceeds, EnrollRefused, EnrollFails,
                      Save, KillEnroll, AlreadyEnrolled, Handles
  <2>. QED
    BY <2>2, AccessOperator, AccessHandles DEF service, Access!vars
<1>3. CASE UNCHANGED service
  BY <1>3 DEF service, Access!vars
<1>4. CASE UNCHANGED vars
  BY <1>3, <1>4 DEF vars
<1>5. ASSUME NEW n \in Wires,
             Arrive(n) \/ Drop(n) \/ Send(n) \/ HearRejected(n) \/ HearAccepted(n)
      PROVE  UNCHANGED service
  BY <1>5 DEF Arrive, Drop, Send, HearRejected, HearAccepted, Loop
<1>6. CASE CleanUp \/ Tick \/ Start \/ TimeOut \/ Rest \/ Crash \/ Stop \/ StartAgain
  BY <1>3, <1>6 DEF CleanUp, Tick, Start, TimeOut, Rest, Crash, Stop, StartAgain, Loop
<1>. QED
  BY <1>1, <1>2, <1>3, <1>4, <1>5, <1>6 DEF Next, Heard

\* What retries, late copies and crashes of the host bring about at the service
\* is what AgentAccess allows, as the handlers of AgentLifecycle do.
THEOREM HostKeepsToAgentAccess == Spec => KeepsToAgentAccess
<1>1. Init => Access!Init
  BY DEF Init, Access!Init
<1>. QED
  BY <1>1, AccessStep, Invariance, PTL DEF Spec, KeepsToAgentAccess, Access!Spec
=============================================================================
