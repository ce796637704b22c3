---------------------------- MODULE PresenceProofs ----------------------------
(***************************************************************************)
(* The safety properties of Presence for any number of heartbeats and      *)
(* sweeps, any timeout and any time.                                       *)
(***************************************************************************)
EXTENDS Presence, TLAPS

(* Types are preserved by every step.                                      *)
LEMMA TypeStep == TypeOK /\ [Next]_vars => TypeOK'
<1>. SUFFICES ASSUME TypeOK, [Next]_vars PROVE TypeOK'
  OBVIOUS
<1>0. Never \in Nat /\ Never \in 0..Never /\ Never' = Never
  BY PresenceAssumption DEF Never
<1>1. ASSUME NEW h \in Handlers, Heartbeat(h) PROVE TypeOK'
  <2>1. CASE HeartbeatRead(h)
    BY <1>0, <2>1 DEF TypeOK, HeartbeatRead, Then, Beat, Calls, row
  <2>2. CASE HeartbeatWrite(h)
    <3>1. work[h] \in [call : {"beat"}, seen : Statuses, paused : BOOLEAN, at : Nat]
      BY <2>2 DEF TypeOK, HeartbeatWrite, Calls, Idle
    <3>2. StatusAfter(work[h]) \in Statuses
      BY <3>1 DEF StatusAfter, Statuses
    <3>3. work' \in [Handlers -> Calls]
      <4>1. \A b \in BOOLEAN : Announce(b) \in Calls
        BY DEF Announce, Calls
      <4>2. Idle \in Calls
        BY DEF Calls
      <4>3. (status # "ONLINE" /\ status' = "ONLINE") \in BOOLEAN
        OBVIOUS
      <4>. QED
        BY <2>2, <4>1, <4>2, <4>3 DEF TypeOK, HeartbeatWrite, Then
    <3>4. silent' \in BOOLEAN
      BY <2>2 DEF TypeOK, HeartbeatWrite, NoteSilence
    <3>. QED
      BY <1>0, <2>2, <3>1, <3>2, <3>3, <3>4 DEF TypeOK, HeartbeatWrite
  <2>3. CASE HeartbeatAnnounce(h) \/ Abort(h)
    BY <1>0, <2>3 DEF TypeOK, HeartbeatAnnounce, Abort, Then, Calls, row
  <2>. QED
    BY <1>1, <2>1, <2>2, <2>3 DEF Heartbeat
<1>2. CASE Command
  BY <1>0, <1>2, PresenceAssumption
  DEF TypeOK, Command, StartMaintenance, EndMaintenance, Rotate, EndCleared, Statuses, Never
<1>3. ASSUME NEW w \in Sweepers, Sweep(w) PROVE TypeOK'
  <2>0. /\ {Idle, Alert, FindExpired, Clear} \subseteq SweepCalls
        /\ Mark(maintenance) \in SweepCalls
    BY DEF TypeOK, SweepCalls, Mark
  <2>1. CASE SweepFind(w) \/ SweepAlert(w) \/ SweepFindExpired(w) \/ SweepAbort(w)
    <3>1. sweep' \in [Sweepers -> SweepCalls]
      BY <2>0, <2>1 DEF TypeOK, SweepFind, SweepAlert, SweepFindExpired, SweepAbort, SweepThen
    <3>. QED
      BY <1>0, <2>1, <3>1
      DEF TypeOK, SweepFind, SweepAlert, SweepFindExpired, SweepAbort, row
  <2>2. CASE SweepMark(w)
    BY <1>0, <2>2 DEF TypeOK, SweepMark, SweepThen, SweepCalls, Statuses
  <2>3. CASE SweepClear(w)
    <3>1. sweep' \in [Sweepers -> SweepCalls]
      BY <2>3 DEF TypeOK, SweepClear, SweepThen, SweepCalls
    <3>2. ~maintenance' /\ endsAt' = Never
      BY <2>3 DEF SweepClear, EndCleared
    <3>. QED
      BY <1>0, <2>3, <3>1, <3>2 DEF TypeOK, SweepClear
  <2>. QED
    BY <1>3, <2>1, <2>2, <2>3 DEF Sweep
<1>4. CASE Tick
  <2>1. silent' \in BOOLEAN
    BY <1>4 DEF TypeOK, Tick, NoteSilence
  <2>. QED
    BY <1>0, <1>4, <2>1 DEF TypeOK, Tick, row
<1>5. CASE UNCHANGED vars
  BY <1>0, <1>5 DEF TypeOK, vars, row
<1>. QED
  BY <1>1, <1>2, <1>3, <1>4, <1>5 DEF Next

(* A silence is never forgotten, and noted whenever a step makes one.      *)
LEMMA SilenceStep ==
  ASSUME TypeOK, Noted, [Next]_vars
  PROVE  /\ silent => silent'
         /\ Noted'
<1>0. Timeout \in Nat
  BY PresenceAssumption
<1>1. CASE NoteSilence
  BY <1>1 DEF NoteSilence, Noted, Stale
<1>2. CASE UNCHANGED <<silent, now>> /\ UNCHANGED <<lastSeen>>
             /\ (status' = status \/ status' # "ONLINE")
  BY <1>2 DEF Noted, Stale, Unseen
<1>3. CASE UNCHANGED vars
  BY <1>2, <1>3 DEF vars, row
<1>4. ASSUME NEW h \in Handlers, Heartbeat(h) PROVE (silent => silent') /\ Noted'
  BY <1>1, <1>2, <1>4 DEF Heartbeat, HeartbeatRead, HeartbeatWrite, HeartbeatAnnounce,
     Abort, row
<1>5. CASE Command
  BY <1>2, <1>5 DEF Command, StartMaintenance, EndMaintenance, Rotate
<1>6. ASSUME NEW w \in Sweepers, Sweep(w) PROVE (silent => silent') /\ Noted'
  BY <1>2, <1>6 DEF Sweep, SweepFind, SweepMark, SweepAlert, SweepFindExpired,
     SweepClear, SweepAbort, row
<1>7. CASE Tick
  BY <1>1, <1>7 DEF Tick
<1>. QED
  BY <1>3, <1>4, <1>5, <1>6, <1>7 DEF Next

(* OFFLINE in a row, in a memory or in the log comes after a silence.      *)
LEMMA AlarmStep ==
  ASSUME IInv, [Next]_vars
  PROVE  NoFalseAlarm' /\ MemoryInv'
<1>0. /\ TypeOK
      /\ silent => silent'
  BY SilenceStep DEF IInv
<1>. SUFFICES ASSUME ~silent'
              PROVE  NoFalseAlarm' /\ MemoryInv'
  BY DEF NoFalseAlarm, MemoryInv
<1>1. /\ ~silent /\ status # "OFFLINE" /\ ~alarmed /\ ~Stale
      /\ \A h \in Handlers : ~(work[h].call = "beat" /\ work[h].seen = "OFFLINE")
      /\ \A w \in Sweepers : sweep[w].call \notin {"mark", "alert"}
  BY <1>0 DEF IInv, NoFalseAlarm, MemoryInv, Noted
<1>2. ASSUME status' # "OFFLINE", ~alarmed', UNCHANGED sweep,
             \/ UNCHANGED work
             \/ \E h \in Handlers : \E c : /\ Then(h, c)
                                           /\ ~(c.call = "beat" /\ c.seen = "OFFLINE")
      PROVE  NoFalseAlarm' /\ MemoryInv'
  BY <1>0, <1>1, <1>2 DEF NoFalseAlarm, MemoryInv, Then, TypeOK
<1>3. ASSUME NEW w \in Sweepers, NEW c, SweepThen(w, c), c.call \notin {"mark", "alert"},
             UNCHANGED <<status, alarmed, work>>
      PROVE  NoFalseAlarm' /\ MemoryInv'
  BY <1>0, <1>1, <1>3 DEF NoFalseAlarm, MemoryInv, SweepThen, TypeOK
<1>4. ASSUME NEW h \in Handlers, Heartbeat(h) PROVE NoFalseAlarm' /\ MemoryInv'
  <2>0. Idle.call = "none" /\ (\A b : Announce(b).call = "announce") /\ Beat.seen = status
    BY DEF Idle, Announce, Beat
  <2>1. CASE HeartbeatRead(h)
    BY <1>1, <1>2, <2>0, <2>1 DEF HeartbeatRead, row
  <2>2. CASE HeartbeatWrite(h)
    <3>1. status' # "OFFLINE"
      BY <1>1, <2>2 DEF HeartbeatWrite, StatusAfter
    <3>. QED
      BY <1>1, <1>2, <2>0, <2>2, <3>1 DEF HeartbeatWrite
  <2>3. CASE HeartbeatAnnounce(h) \/ Abort(h)
    BY <1>1, <1>2, <2>0, <2>3 DEF HeartbeatAnnounce, Abort, row
  <2>. QED
    BY <1>4, <2>1, <2>2, <2>3 DEF Heartbeat
<1>5. CASE Command
  BY <1>1, <1>2, <1>5 DEF Command, StartMaintenance, EndMaintenance, Rotate
<1>6. ASSUME NEW w \in Sweepers, Sweep(w) PROVE NoFalseAlarm' /\ MemoryInv'
  <2>0. Idle.call = "none" /\ FindExpired.call = "findExpired" /\ Clear.call = "clear"
        /\ Alert.call = "alert"
    BY DEF Idle, FindExpired, Clear, Alert
  <2>. QED
    BY <1>1, <1>3, <1>6, <2>0 DEF Sweep, SweepFind, SweepMark, SweepAlert,
       SweepFindExpired, SweepClear, SweepAbort, row
<1>7. CASE Tick \/ UNCHANGED vars
  BY <1>1, <1>2, <1>7 DEF Tick, vars, row
<1>. QED
  BY <1>4, <1>5, <1>6, <1>7 DEF Next

(* The inductive invariant.                                                *)
THEOREM Invariance == Spec => []IInv
<1>1. Init => IInv
  <2>. SUFFICES ASSUME Init PROVE IInv
    OBVIOUS
  <2>1. TypeOK
    <3>1. Never \in 0..Never
      BY PresenceAssumption DEF Never
    <3>2. Idle \in Calls /\ Idle \in SweepCalls
      BY DEF Calls, SweepCalls
    <3>. QED
      BY <3>1, <3>2 DEF Init, TypeOK, Statuses
  <2>2. NoFalseAlarm /\ Noted
    BY DEF Init, NoFalseAlarm, Noted, Stale
  <2>3. MemoryInv
    BY DEF Init, MemoryInv, Idle
  <2>. QED
    BY <2>1, <2>2, <2>3 DEF IInv
<1>2. IInv /\ [Next]_vars => IInv'
  BY TypeStep, SilenceStep, AlarmStep DEF IInv
<1>. QED
  BY <1>1, <1>2, PTL DEF Spec

(* Types, and an end only while there is maintenance.                      *)
THEOREM TypeCorrect == Spec => []TypeOK
<1>1. IInv => TypeOK
  BY DEF IInv
<1>. QED
  BY <1>1, Invariance, PTL

(* A server that was never silent is never OFFLINE nor reported so.        *)
THEOREM NeverFalselyOffline == Spec => []NoFalseAlarm
<1>1. IInv => NoFalseAlarm
  BY DEF IInv
<1>. QED
  BY <1>1, Invariance, PTL

=============================================================================
