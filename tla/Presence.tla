-------------------------------- MODULE Presence --------------------------------
(***************************************************************************)
(* Whether a server counts as online: heartbeats of its agent, the offline *)
(* sweep and maintenance windows, as ServersService and CleanupService of  *)
(* server-service keep them.  Credentials, revocation and deletion are in  *)
(* AgentLifecycle; here the server exists and its agent is authenticated.  *)
(* A handler or sweep runs call by call, as in Operations.                 *)
(***************************************************************************)
EXTENDS Integers

CONSTANTS
  Handlers,  \* heartbeats that may be handled at the same time
  Sweepers,  \* status sweeps that may run at the same time
  Timeout,   \* OFFLINE_TIMEOUT_MS
  MaxTime    \* bound: the clock stops here

ASSUME PresenceAssumption == Timeout \in Nat \ {0} /\ MaxTime \in Nat

VARIABLES
  status,       \* Server.status; ONLINE stands for ONLINE and DEGRADED
  lastSeen,     \* lastSeenAt; means something unless status is PENDING
  maintenance,  \* maintenanceMode
  endsAt,       \* maintenanceEndsAt, or Never
  alarmed,      \* history: a SERVER_OFFLINE event was recorded
  silent,       \* history: the row was once ONLINE and older than Timeout
  work,         \* work[h]: the next database call of handler h
  sweep,        \* sweep[w]: the next database call of sweep w
  now

row == <<status, lastSeen, maintenance, endsAt>>
vars == <<row, alarmed, silent, work, sweep, now>>

----------------------------------------------------------------------------
Statuses == {"PENDING", "ONLINE", "OFFLINE"}

(* endsAt is null: later than any time of the clock.                       *)
Never == MaxTime + 1

Idle == [call |-> "none"]

(* What a heartbeat remembers of the row it read, and when it read it.     *)
Beat == [call |-> "beat", seen |-> status, paused |-> maintenance, at |-> now]
(* returned: history, the write brought the server online.                 *)
Announce(returned) == [call |-> "announce", returned |-> returned]

Calls ==
  {Idle}
    \cup [call : {"beat"}, seen : Statuses, paused : BOOLEAN, at : Nat]
    \cup [call : {"announce"}, returned : BOOLEAN]

Mark(paused) == [call |-> "mark", paused |-> paused]
Alert == [call |-> "alert"]
FindExpired == [call |-> "findExpired"]
Clear == [call |-> "clear"]

SweepCalls == {Idle, Alert, FindExpired, Clear} \cup [call : {"mark"}, paused : BOOLEAN]

Then(h, next) == work' = [work EXCEPT ![h] = next]
SweepThen(w, next) == sweep' = [sweep EXCEPT ![w] = next]

(* Any call may fail and end the handler or the sweep.                     *)
Abort(h) ==
  /\ work[h] # Idle
  /\ Then(h, Idle)
  /\ UNCHANGED <<row, alarmed, silent, sweep, now>>

SweepAbort(w) ==
  /\ sweep[w] # Idle
  /\ SweepThen(w, Idle)
  /\ UNCHANGED <<row, alarmed, silent, work, now>>

(* The history: to be used in every step that changes the row or the time. *)
Unseen(since, time) == since + Timeout < time
NoteSilence == silent' = (silent \/ (status' = "ONLINE" /\ Unseen(lastSeen', now')))

----------------------------------------------------------------------------
(* heartbeat(): reads the row, computes, writes without a condition.       *)

HeartbeatRead(h) ==
  /\ work[h] = Idle
  /\ Then(h, Beat)
  /\ UNCHANGED <<row, alarmed, silent, sweep, now>>

(* A heartbeat is fresh by definition, so it makes the server ONLINE; in   *)
(* maintenance it puts back the status it read.                            *)
StatusAsRead(beat) == beat.seen
StatusAfter(beat) == IF beat.paused THEN beat.seen ELSE "ONLINE"

HeartbeatWrite(h) ==
  /\ work[h].call = "beat"
  /\ status' = StatusAfter(work[h])
  /\ lastSeen' = work[h].at
  /\ Then(h, IF work[h].seen = "ONLINE" THEN Idle
             ELSE Announce(status # "ONLINE" /\ status' = "ONLINE"))
  /\ UNCHANGED <<maintenance, endsAt, alarmed, sweep, now>>
  /\ NoteSilence

(* The event itself is not kept: OneOnlineEvent asks who records it.       *)
HeartbeatAnnounce(h) ==
  /\ work[h].call = "announce"
  /\ Then(h, Idle)
  /\ UNCHANGED <<row, alarmed, silent, sweep, now>>

----------------------------------------------------------------------------
(* startMaintenance() and endMaintenance(); endsAt may lie in the past.    *)

StartMaintenance(end) ==
  /\ maintenance' = TRUE
  /\ endsAt' = end
  /\ UNCHANGED <<status, lastSeen, alarmed, silent, work, sweep, now>>

EndCleared == Never

EndMaintenance ==
  /\ maintenance' = FALSE
  /\ endsAt' = EndCleared
  /\ UNCHANGED <<status, lastSeen, alarmed, silent, work, sweep, now>>

(* What rotateCredential() does to the row.                                *)
Rotate ==
  /\ status' = "PENDING"
  /\ UNCHANGED <<lastSeen, maintenance, endsAt, alarmed, silent, work, sweep, now>>

----------------------------------------------------------------------------
(* The status sweep: markOfflineBatch(), then endExpiredMaintenance().     *)

StaleAtTimeout == status = "ONLINE" /\ lastSeen + Timeout <= now
StaleUnlessPaused == status = "ONLINE" /\ ~maintenance /\ Unseen(lastSeen, now)
Stale == status = "ONLINE" /\ Unseen(lastSeen, now)

SweepFindOrReturn(w) ==
  /\ sweep[w] = Idle
  /\ SweepThen(w, IF Stale THEN Mark(maintenance) ELSE Idle)
  /\ UNCHANGED <<row, alarmed, silent, work, now>>

SweepFind(w) ==
  /\ sweep[w] = Idle
  /\ SweepThen(w, IF Stale THEN Mark(maintenance) ELSE FindExpired)
  /\ UNCHANGED <<row, alarmed, silent, work, now>>

(* The update asks for the status again, not for lastSeenAt.               *)
SweepMark(w) ==
  /\ sweep[w].call = "mark"
  /\ status' = IF status = "ONLINE" THEN "OFFLINE" ELSE status
  /\ SweepThen(w, IF sweep[w].paused THEN FindExpired ELSE Alert)
  /\ UNCHANGED <<lastSeen, maintenance, endsAt, alarmed, silent, work, now>>

SweepAlert(w) ==
  /\ sweep[w] = Alert
  /\ alarmed' = TRUE
  /\ SweepThen(w, FindExpired)
  /\ UNCHANGED <<row, silent, work, now>>

Expired == maintenance /\ endsAt <= now

SweepFindExpired(w) ==
  /\ sweep[w] = FindExpired
  /\ SweepThen(w, IF Expired THEN Clear ELSE Idle)
  /\ UNCHANGED <<row, alarmed, silent, work, now>>

(* The window is cleared whatever it has become.                           *)
SweepClear(w) ==
  /\ sweep[w] = Clear
  /\ maintenance' = FALSE
  /\ endsAt' = EndCleared
  /\ SweepThen(w, Idle)
  /\ UNCHANGED <<status, lastSeen, alarmed, silent, work, now>>

----------------------------------------------------------------------------
Tick ==
  /\ now < MaxTime
  /\ now' = now + 1
  /\ UNCHANGED <<row, alarmed, work, sweep>>
  /\ NoteSilence

(* A server as create() leaves it.                                         *)
Init ==
  /\ status = "PENDING"
  /\ lastSeen = 0
  /\ maintenance = FALSE
  /\ endsAt = Never
  /\ alarmed = FALSE
  /\ silent = FALSE
  /\ work = [h \in Handlers |-> Idle]
  /\ sweep = [w \in Sweepers |-> Idle]
  /\ now = 0

Heartbeat(h) ==
  HeartbeatRead(h) \/ HeartbeatWrite(h) \/ HeartbeatAnnounce(h) \/ Abort(h)

Command == (\E end \in 0..Never : StartMaintenance(end)) \/ EndMaintenance \/ Rotate

Sweep(w) ==
  \/ SweepFind(w)
  \/ SweepMark(w)
  \/ SweepAlert(w)
  \/ SweepFindExpired(w)
  \/ SweepClear(w)
  \/ SweepAbort(w)

Next ==
  \/ \E h \in Handlers : Heartbeat(h)
  \/ Command
  \/ \E w \in Sweepers : Sweep(w)
  \/ Tick

(* The interval timer starts sweeps for ever.  A call that is made again   *)
(* and again in the end succeeds.  Agents and operators promise nothing.   *)
Fairness ==
  /\ WF_vars(Tick)
  /\ \A w \in Sweepers :
       /\ WF_vars(SweepFind(w))
       /\ SF_vars(SweepMark(w))
       /\ SF_vars(SweepAlert(w))
       /\ SF_vars(SweepFindExpired(w))
       /\ SF_vars(SweepClear(w))

Spec == Init /\ [][Next]_vars
FairSpec == Spec /\ Fairness

----------------------------------------------------------------------------
(* Properties *)

(* Types; there is an end only to maintenance that is on.                  *)
TypeOK ==
  /\ status \in Statuses
  /\ lastSeen \in Nat
  /\ maintenance \in BOOLEAN
  /\ endsAt \in 0..Never
  /\ ~maintenance => endsAt = Never
  /\ alarmed \in BOOLEAN
  /\ silent \in BOOLEAN
  /\ work \in [Handlers -> Calls]
  /\ sweep \in [Sweepers -> SweepCalls]
  /\ now \in Nat

(* No false alarm: a server that was never ONLINE with a lastSeenAt older  *)
(* than OFFLINE_TIMEOUT_MS is never OFFLINE and no SERVER_OFFLINE event    *)
(* was recorded for it, whatever sweeps and heartbeats remember.           *)
NoFalseAlarm == ~silent => status # "OFFLINE" /\ ~alarmed

(* A server that stops sending heartbeats does not stay ONLINE, also in    *)
(* maintenance and when sweeps fail half-way.                              *)
SilenceDetected ==
  status = "ONLINE" /\ Unseen(lastSeen, MaxTime)
    ~> status # "ONLINE" \/ ~Unseen(lastSeen, MaxTime)

(* Maintenance with an end ends, though the sweep that should end it may   *)
(* fail at any call.                                                       *)
MaintenanceEnds ==
  maintenance /\ endsAt <= MaxTime ~> ~maintenance \/ endsAt > MaxTime

(* An agent that keeps sending heartbeats gets its server ONLINE for good  *)
(* once operators stop: neither a sweep that found it stale nor a          *)
(* heartbeat that read it before keeps it OFFLINE or PENDING.              *)
Beats == []<><<\E h \in Handlers : HeartbeatWrite(h)>>_work
LeftAlone == <>[][~Command]_vars /\ <>[]~maintenance
EventuallyOnline == Beats /\ LeftAlone => <>[](status = "ONLINE")

(* docs/server-service.md: return to online emits one SERVER_ONLINE event. *)
(* A heartbeat records the event only if its write was such a return.      *)
OneOnlineEvent == \A h \in Handlers : work[h].call = "announce" => work[h].returned

----------------------------------------------------------------------------
(* The inductive invariant of PresenceProofs.                              *)

(* Who remembers an OFFLINE or a stale server does so after a silence.     *)
MemoryInv ==
  /\ \A h \in Handlers : work[h].call = "beat" /\ work[h].seen = "OFFLINE" => silent
  /\ \A w \in Sweepers : sweep[w].call \in {"mark", "alert"} => silent

(* silent has noted every silence up to now.                               *)
Noted == Stale => silent

IInv == TypeOK /\ NoFalseAlarm /\ MemoryInv /\ Noted

=============================================================================
