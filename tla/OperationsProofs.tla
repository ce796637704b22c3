--------------------------- MODULE OperationsProofs ---------------------------
(***************************************************************************)
(* Theorems about Operations, for every set of ids, keys, handlers and     *)
(* sweeps.                                                                 *)
(***************************************************************************)
EXTENDS Operations, FiniteSetTheorems, TLAPS

(* The continuations a handler can be left with are well formed.           *)
LEMMA CallTypes ==
  ASSUME now \in Nat
  PROVE
  /\ Idle \in Calls
  /\ \A k \in Keys \cup {NoKey} : CountInFlight(k) \in Calls /\ InsertRow(k) \in Calls
  /\ \A row \in SeenRow : Claim(row) \in Calls
  /\ \A row \in SeenRow, to \in Targets : Swap(row, to) \in Calls
  /\ \A o \in OpIds, e \in Outcomes : Record(o, e) \in Calls
BY DEF Calls, Idle, CountInFlight, InsertRow, Claim, Swap, Record, Deliverable

(* What work[r] holds at each call.                                        *)
LEMMA CallFields ==
  ASSUME NEW c \in Calls
  PROVE  /\ c.call \in {"count", "insert"} => c.key \in Keys \cup {NoKey}
         /\ c.call = "insert" => c.at \in Nat
         /\ c.call = "claim" => c.row \in SeenRow /\ c.seen \in SUBSET OpIds
         /\ c.call = "swap" => c.row \in SeenRow /\ c.to \in Targets
         /\ c.call = "record" => c.op \in OpIds /\ c.entry \in Outcomes
BY DEF Calls, Idle

LEMMA SeenIsRow ==
  ASSUME TypeOK, NEW o \in OpIds, Exists(o)
  PROVE  Seen(o) \in SeenRow
BY DEF TypeOK, Exists, Seen, SeenRow, Absent

(* A matched update moves a row one legal step further.                    *)
LEMMA SetStatusType ==
  ASSUME TypeOK, VersionInv, NEW row \in SeenRow, Matches(row),
         NEW to \in OperationStatuses, canTransition(row.status, to),
         SetStatus(row.op, to)
  PROVE  /\ status' \in [OpIds -> OperationStatuses \cup {Absent}]
         /\ version' \in [OpIds -> 0..4]
         /\ key' \in [OpIds -> Keys \cup {NoKey}]
         /\ createdAt' \in [OpIds -> Nat]
         /\ VersionInv'
<1>1. PICK o \in OpIds : o = row.op /\ status[o] = row.status
  BY DEF SeenRow, Matches
<1>2. version[o] \in 0..3
  BY <1>1 DEF VersionInv, canTransition, TRANSITIONS, OperationStatuses,
     InFlightStatuses, TerminalStatuses, SeenRow, Absent
<1>3. QED
  BY <1>1, <1>2 DEF SetStatus, TypeOK, VersionInv, canTransition, TRANSITIONS,
     OperationStatuses, InFlightStatuses, TerminalStatuses, Absent, SeenRow

(* What every update of a matched row keeps: the history, the keys, the    *)
(* records and the remembered rows.                                        *)
LEMMA SetStatusInv ==
  ASSUME IInv, NEW row \in SeenRow, Matches(row),
         NEW to \in OperationStatuses, canTransition(row.status, to),
         SetStatus(row.op, to)
  PROVE  /\ OneRowPerKey'
         /\ \A o \in OpIds : Exists(o) => Exists(o)'
         /\ \A o \in OpIds : status[o] \in TerminalStatuses => status'[o] = status[o]
         /\ \A o \in OpIds : o # row.op => status'[o] = status[o]
         /\ status[row.op] \in InFlightStatuses /\ status'[row.op] = to
         /\ createdAt' = createdAt
<1>1. /\ row.op \in OpIds
      /\ status' = [status EXCEPT ![row.op] = to]
      /\ status[row.op] = row.status
      /\ row.status \in InFlightStatuses
      /\ UNCHANGED <<key, createdAt>>
  BY DEF SeenRow, Matches, SetStatus, canTransition, TRANSITIONS,
     OperationStatuses, InFlightStatuses, TerminalStatuses
<1>2. status \in [OpIds -> OperationStatuses \cup {Absent}]
  BY DEF IInv, TypeOK
<1>3. \A o \in OpIds : Exists(o) <=> Exists(o)'
  BY <1>1, <1>2 DEF Exists, Absent, OperationStatuses, InFlightStatuses, TerminalStatuses
<1>4. OneRowPerKey'
  BY <1>1, <1>3 DEF IInv, OneRowPerKey
<1>. QED
  BY <1>1, <1>2, <1>3, <1>4 DEF InFlightStatuses, TerminalStatuses

LEMMA InitIInv == Init => IInv
<1>. SUFFICES ASSUME Init PROVE IInv
  OBVIOUS
<1>. USE OperationsAssumption DEF Init
<1>1. TypeOK
  BY CallTypes DEF TypeOK
<1>2. VersionInv /\ HandedOutOnce /\ OneRowPerKey /\ TrailAgrees /\ ExpiredOnlyAfterDeadline
  BY DEF VersionInv, HandedOutOnce, OneRowPerKey, TrailAgrees, ExpiredOnlyAfterDeadline,
     Exists, Absent, TerminalStatuses
<1>3. WorkInv /\ SweepInv /\ CreatedInThePast
  BY DEF WorkInv, CallInv, SweepInv, CreatedInThePast, At, Idle
<1>. QED
  BY <1>1, <1>2, <1>3 DEF IInv

(* A step that leaves the rows alone and gives handler r a sound next call *)
(* keeps the invariant.                                                    *)
LEMMA HandlerStep ==
  ASSUME IInv, NEW r \in Requests, NEW next \in Calls, Then(r, next),
         UNCHANGED <<rows, handed, sweep, now>>,
         trail' \in [OpIds -> SUBSET Outcomes],
         \A o \in OpIds : trail'[o] \subseteq {status[o]},
         next.call = "insert" => next.at <= now,
         next.call = "claim" =>
           /\ next.row.status = "PENDING"
           /\ Exists(next.row.op)
           /\ \A p \in next.seen :
                Exists(p) /\ createdAt[next.row.op] <= createdAt[p],
         next.call = "swap" => canTransition(next.row.status, next.to),
         next.call = "record" => status[next.op] = next.entry
  PROVE  IInv'
<1>1. TypeOK'
  BY DEF IInv, TypeOK, Then, rows
<1>2. WorkInv'
  BY DEF IInv, TypeOK, WorkInv, CallInv, At, Then, rows, Exists
<1>3. /\ VersionInv' /\ SweepInv' /\ CreatedInThePast' /\ HandedOutOnce'
      /\ OneRowPerKey' /\ TrailAgrees' /\ ExpiredOnlyAfterDeadline'
  BY DEF IInv, rows, VersionInv, SweepInv, CreatedInThePast, HandedOutOnce,
     OneRowPerKey, TrailAgrees, ExpiredOnlyAfterDeadline, Exists, expiresAt
<1>. QED
  BY <1>1, <1>2, <1>3 DEF IInv

(* A compare and set that wins keeps the invariant, whichever handler or   *)
(* sweep makes it: the row was not terminal, so nobody recorded its        *)
(* outcome, and only a claim counts a hand-over.                           *)
LEMMA UpdateStep ==
  ASSUME IInv, NEW row \in SeenRow, Matches(row),
         NEW to \in OperationStatuses, canTransition(row.status, to),
         SetStatus(row.op, to), UNCHANGED <<trail, now>>,
         handed' \in [OpIds -> Nat],
         \A o \in OpIds : o # row.op => handed'[o] = handed[o],
         handed'[row.op] = handed[row.op] + (IF to = "DELIVERED" THEN 1 ELSE 0),
         work' \in [Requests -> Calls],
         \A r \in Requests :
           \/ work'[r] \in {work[r], Idle}
           \/ to \in Outcomes /\ work'[r] = Record(row.op, to),
         sweep' \in [Sweepers -> SUBSET SeenRow],
         \A w \in Sweepers : sweep'[w] \subseteq sweep[w],
         to = "EXPIRED" => expiresAt(row.op) < now
  PROVE  IInv'
<1>. DEFINE o == row.op
<1>1. /\ o \in OpIds
      /\ status[o] = row.status
      /\ status' = [status EXCEPT ![o] = to]
      /\ status \in [OpIds -> OperationStatuses \cup {Absent}]
      /\ row.status \in OperationStatuses
  BY DEF SeenRow, Matches, SetStatus, IInv, TypeOK
<1>2. /\ OneRowPerKey'
      /\ \A p \in OpIds : Exists(p) => Exists(p)'
      /\ \A p \in OpIds : status[p] \in TerminalStatuses => status'[p] = status[p]
      /\ status[o] \in InFlightStatuses /\ status'[o] = to
      /\ createdAt' = createdAt
  BY SetStatusInv
<1>3. TypeOK' /\ VersionInv'
  <2>1. /\ status' \in [OpIds -> OperationStatuses \cup {Absent}]
        /\ version' \in [OpIds -> 0..4]
        /\ key' \in [OpIds -> Keys \cup {NoKey}]
        /\ createdAt' \in [OpIds -> Nat]
        /\ VersionInv'
    BY SetStatusType DEF IInv
  <2>. QED
    BY <2>1 DEF IInv, TypeOK
<1>4. to # "PENDING"
  BY <1>1 DEF canTransition, TRANSITIONS, OperationStatuses, InFlightStatuses, TerminalStatuses
<1>5. WorkInv'
  <2>. SUFFICES ASSUME NEW r \in Requests PROVE CallInv(r)'
    BY DEF WorkInv
  <2>1. CASE work'[r] = work[r]
    <3>1. work[r] \in Calls /\ CallInv(r)
      BY DEF IInv, TypeOK, WorkInv
    <3>2. At(r, "record") => work[r].op \in OpIds /\ status[work[r].op] \in TerminalStatuses
      BY <3>1, CallFields DEF At, CallInv, Outcomes, TerminalStatuses
    <3>3. At(r, "claim") => work[r].row.op \in OpIds /\ work[r].seen \subseteq OpIds
      BY <3>1, CallFields DEF At, SeenRow
    <3>4. now' = now
      OBVIOUS
    <3>. QED
      BY <1>2, <2>1, <3>1, <3>2, <3>3, <3>4 DEF CallInv, At, canTransition
  <2>2. CASE work'[r] = Idle
    BY <2>2 DEF CallInv, At, Idle
  <2>3. CASE to \in Outcomes /\ work'[r] = Record(o, to)
    BY <1>2, <2>3 DEF CallInv, At, Record
  <2>. QED
    BY <2>1, <2>2, <2>3
<1>6. SweepInv'
  BY <1>2 DEF IInv, TypeOK, SweepInv, SeenRow, expiresAt
<1>7. HandedOutOnce'
  BY <1>1, <1>2, <1>4 DEF IInv, TypeOK, HandedOutOnce, canTransition, TRANSITIONS,
     OperationStatuses, InFlightStatuses, TerminalStatuses, Absent
<1>8. TrailAgrees'
  <2>. SUFFICES ASSUME NEW p \in OpIds PROVE trail[p] \subseteq {status'[p]}
    BY DEF TrailAgrees
  <2>1. trail[p] \subseteq {status[p]} /\ trail[p] \subseteq TerminalStatuses
    BY DEF IInv, TypeOK, TrailAgrees, Outcomes, TerminalStatuses
  <2>2. CASE trail[p] = {}
    BY <2>2
  <2>3. CASE trail[p] # {}
    BY <1>2, <2>1, <2>3
  <2>. QED
    BY <2>2, <2>3
<1>9. CreatedInThePast' /\ ExpiredOnlyAfterDeadline'
  BY <1>1, <1>2 DEF IInv, CreatedInThePast, ExpiredOnlyAfterDeadline, expiresAt
<1>. QED
  BY <1>2, <1>3, <1>5, <1>6, <1>7, <1>8, <1>9 DEF IInv

(* An insert: the new row takes a key nobody has and was sent in the past. *)
LEMMA InsertStep ==
  ASSUME IInv, NEW r \in Requests, CreateInsert(r)
  PROVE  IInv'
<1>. DEFINE k == work[r].key
<1>1. /\ k \in Keys \cup {NoKey}
      /\ work[r].at \in Nat /\ work[r].at <= now /\ now \in Nat
  BY CallFields DEF CreateInsert, At, IInv, TypeOK, WorkInv, CallInv
<1>2. CASE UNCHANGED rows
  <2>1. /\ \A o \in OpIds : trail'[o] \subseteq {status[o]}
        /\ trail' \in [OpIds -> SUBSET Outcomes]
    BY DEF CreateInsert, IInv, TypeOK, TrailAgrees
  <2>2. Idle.call = "none"
    BY DEF Idle
  <2>. QED
    BY <1>1, <1>2, <2>1, <2>2, CallTypes, HandlerStep DEF CreateInsert
<1>3. CASE ~UNCHANGED rows
  <2>1. PICK o \in OpIds :
          /\ Insertable(k)
          /\ ~Exists(o)
          /\ status' = [status EXCEPT ![o] = "PENDING"]
          /\ version' = [version EXCEPT ![o] = 1]
          /\ key' = [key EXCEPT ![o] = k]
          /\ createdAt' = [createdAt EXCEPT ![o] = work[r].at]
    BY <1>3 DEF CreateInsert
  <2>2. UNCHANGED <<trail, handed, sweep, now>> /\ Then(r, Idle)
    BY DEF CreateInsert
  <2>3. status[o] = Absent /\ "PENDING" # Absent
    BY <2>1 DEF Exists, Absent
  <2>4. TypeOK'
    BY <1>1, <2>1, <2>2, CallTypes DEF IInv, TypeOK, Then, OperationStatuses, InFlightStatuses
  <2>5. \A p \in OpIds : Exists(p)' <=> Exists(p) \/ p = o
    BY <2>1, <2>3 DEF IInv, TypeOK, Exists
  <2>6. VersionInv' /\ CreatedInThePast' /\ HandedOutOnce' /\ ExpiredOnlyAfterDeadline'
    <3>. USE <2>1, <2>2, <2>3 DEF IInv, TypeOK
    <3>1. VersionInv'
      BY DEF VersionInv, TerminalStatuses, Absent
    <3>2. CreatedInThePast'
      BY <1>1 DEF CreatedInThePast
    <3>3. HandedOutOnce'
      BY DEF HandedOutOnce
    <3>4. ExpiredOnlyAfterDeadline'
      BY DEF ExpiredOnlyAfterDeadline, expiresAt
    <3>. QED
      BY <3>1, <3>2, <3>3, <3>4
  <2>7. OneRowPerKey'
    BY <1>1, <2>1, <2>5 DEF IInv, TypeOK, OneRowPerKey, Insertable, KeyTaken
  <2>8. TrailAgrees'
    BY <2>1, <2>2, <2>3 DEF IInv, TypeOK, TrailAgrees, Outcomes, Absent
  <2>9. SweepInv'
    BY <2>1, <2>2, <2>5 DEF IInv, TypeOK, SweepInv, SeenRow, expiresAt
  <2>10. WorkInv'
    <3>. SUFFICES ASSUME NEW q \in Requests PROVE CallInv(q)'
      BY DEF WorkInv
    <3>1. CASE q = r
      BY <2>2, <3>1 DEF CallInv, At, Then, Idle, IInv, TypeOK
    <3>2. CASE q # r
      <4>1. work'[q] = work[q] /\ CallInv(q) /\ work[q] \in Calls
        BY <2>2, <3>2 DEF Then, IInv, TypeOK, WorkInv
      <4>2. At(q, "claim") =>
              /\ Exists(work[q].row.op)'
              /\ \A p \in work[q].seen :
                   Exists(p)' /\ createdAt'[work[q].row.op] <= createdAt'[p]
        <5>1. At(q, "claim") =>
                /\ work[q].row.op \in OpIds /\ Exists(work[q].row.op)
                /\ work[q].seen \subseteq OpIds
                /\ \A p \in work[q].seen :
                     Exists(p) /\ createdAt[work[q].row.op] <= createdAt[p]
          BY <4>1, CallFields DEF At, SeenRow, CallInv
        <5>2. \A p \in OpIds : Exists(p) => createdAt'[p] = createdAt[p]
          BY <2>1 DEF IInv, TypeOK
        <5>. QED
          BY <2>5, <4>1, <5>1, <5>2
      <4>3. At(q, "record") => status'[work[q].op] = work[q].entry
        BY <2>1, <2>3, <4>1, CallFields DEF CallInv, At, Outcomes, Absent, IInv, TypeOK
      <4>. QED
        BY <2>2, <4>1, <4>2, <4>3 DEF CallInv, At, canTransition
    <3>. QED
      BY <3>1, <3>2
  <2>. QED
    BY <2>4, <2>6, <2>7, <2>8, <2>9, <2>10 DEF IInv
<1>. QED
  BY <1>2, <1>3

LEMMA StepIInv == IInv /\ [Next]_vars => IInv'
<1>. SUFFICES ASSUME IInv, [Next]_vars PROVE IInv'
  OBVIOUS
<1>0. /\ \A o \in OpIds : trail[o] \subseteq {status[o]}
      /\ trail \in [OpIds -> SUBSET Outcomes]
      /\ work \in [Requests -> Calls]
      /\ now \in Nat
  BY DEF IInv, TypeOK, TrailAgrees
<1>1. ASSUME NEW r \in Requests, Handler(r) PROVE IInv'
  <2>1. ASSUME NEW k \in Keys \cup {NoKey}, CreateBegin(r, k) PROVE IInv'
    BY <1>0, <2>1, CallTypes, HandlerStep DEF CreateBegin, CountInFlight
  <2>2. CASE CreateCount(r)
    <3>1. work[r].key \in Keys \cup {NoKey}
      BY <1>0, <2>2, CallFields DEF CreateCount, At
    <3>2. CASE Then(r, InsertRow(work[r].key))
      BY <1>0, <2>2, <3>1, <3>2, CallTypes, HandlerStep DEF CreateCount, InsertRow
    <3>3. CASE Then(r, Idle)
      BY <1>0, <2>2, <3>3, CallTypes, HandlerStep DEF CreateCount, Idle
    <3>. QED
      BY <2>2, <3>2, <3>3 DEF CreateCount
  <2>3. CASE CreateInsert(r)
    BY <2>3, InsertStep
  <2>4. CASE NextFind(r)
    <3>1. PICK o \in Oldest : Then(r, Claim(Seen(o)))
      BY <2>4 DEF NextFind
    <3>2. /\ o \in OpIds /\ Exists(o) /\ status[o] = "PENDING"
          /\ \A p \in Deliverable : Exists(p) /\ createdAt[o] <= createdAt[p]
      BY DEF Oldest, Deliverable, Exists, Absent
    <3>3. Claim(Seen(o)) \in Calls
      BY <1>0, <3>2, SeenIsRow, CallTypes DEF IInv
    <3>. QED
      BY <1>0, <2>4, <3>1, <3>2, <3>3, HandlerStep DEF NextFind, Claim, Seen
  <2>5. CASE NextClaim(r)
    <3>. DEFINE row == work[r].row
    <3>1. row \in SeenRow /\ row.status = "PENDING"
      BY <1>0, <2>5, CallFields DEF NextClaim, At, IInv, WorkInv, CallInv
    <3>2. CASE Matches(row)
      <4>1. /\ SetStatus(row.op, "DELIVERED")
            /\ handed' = [handed EXCEPT ![row.op] = @ + 1]
            /\ UNCHANGED <<trail, now, sweep>>
            /\ work' = [work EXCEPT ![r] = Idle]
        BY <2>5, <3>2 DEF NextClaim, Then
      <4>2. "DELIVERED" \in OperationStatuses /\ canTransition(row.status, "DELIVERED")
        BY <3>1 DEF canTransition, TRANSITIONS, OperationStatuses, InFlightStatuses
      <4>3. row.op \in OpIds
        BY <3>1 DEF SeenRow
      <4>4. /\ handed' \in [OpIds -> Nat]
            /\ \A o \in OpIds : o # row.op => handed'[o] = handed[o]
            /\ handed'[row.op] = handed[row.op] + 1
        BY <4>1, <4>3 DEF IInv, TypeOK
      <4>5. /\ work' \in [Requests -> Calls]
            /\ \A q \in Requests : work'[q] \in {work[q], Idle}
        BY <1>0, <4>1, CallTypes
      <4>6. sweep' \in [Sweepers -> SUBSET SeenRow] /\ sweep' = sweep
        BY <4>1 DEF IInv, TypeOK
      <4>. QED
        BY <3>1, <3>2, <4>1, <4>2, <4>4, <4>5, <4>6, UpdateStep
    <3>3. CASE ~Matches(row)
      BY <1>0, <2>5, <3>3, CallTypes, HandlerStep DEF NextClaim, Idle
    <3>. QED
      BY <3>2, <3>3
  <2>6. ASSUME NEW o \in OpIds, NEW to \in Targets, TransitionRead(r, o, to) PROVE IInv'
    <3>1. Exists(o) /\ Then(r, AfterRead(o, to)) /\ UNCHANGED <<rows, trail, handed, sweep, now>>
      BY <2>6 DEF TransitionRead
    <3>2. CASE AfterRead(o, to) = Idle
      BY <1>0, <3>1, <3>2, CallTypes, HandlerStep DEF Idle
    <3>3. CASE status[o] = to /\ to \in Outcomes /\ AfterRead(o, to) = Record(o, to)
      BY <1>0, <3>1, <3>3, CallTypes, HandlerStep DEF Record
    <3>4. CASE canTransition(status[o], to) /\ AfterRead(o, to) = Swap(Seen(o), to)
      <4>1. Swap(Seen(o), to) \in Calls
        BY <1>0, <3>1, SeenIsRow, CallTypes DEF IInv
      <4>. QED
        BY <1>0, <3>1, <3>4, <4>1, HandlerStep DEF Swap, Seen
    <3>. QED
      BY <3>2, <3>3, <3>4 DEF AfterRead, AfterTransition, Targets, Outcomes
  <2>7. CASE TransitionSwap(r)
    <3>. DEFINE row == work[r].row
                to == work[r].to
    <3>1. row \in SeenRow /\ to \in Targets /\ canTransition(row.status, to)
      BY <1>0, <2>7, CallFields DEF TransitionSwap, At, IInv, WorkInv, CallInv
    <3>2. CASE Matches(row)
      <4>1. /\ SetStatus(row.op, to)
            /\ work' = [work EXCEPT ![r] = AfterTransition(row.op, to)]
            /\ UNCHANGED <<trail, handed, sweep, now>>
        BY <2>7, <3>2 DEF TransitionSwap, Then
      <4>2. row.op \in OpIds /\ to \in OperationStatuses /\ to \notin {"DELIVERED", "EXPIRED"}
        BY <3>1 DEF SeenRow, Targets, OperationStatuses, InFlightStatuses, TerminalStatuses
      <4>3. \/ AfterTransition(row.op, to) = Idle
            \/ to \in Outcomes /\ AfterTransition(row.op, to) = Record(row.op, to)
        BY <3>1 DEF AfterTransition, Targets, Outcomes
      <4>4. AfterTransition(row.op, to) \in Calls
        BY <1>0, <4>2, <4>3, CallTypes
      <4>5. /\ work' \in [Requests -> Calls]
            /\ \A q \in Requests :
                 \/ work'[q] \in {work[q], Idle}
                 \/ to \in Outcomes /\ work'[q] = Record(row.op, to)
        BY <1>0, <4>1, <4>3, <4>4
      <4>6. /\ handed' \in [OpIds -> Nat] /\ handed' = handed
            /\ sweep' \in [Sweepers -> SUBSET SeenRow] /\ sweep' = sweep
            /\ handed[row.op] + 0 = handed[row.op]
        BY <4>1, <4>2 DEF IInv, TypeOK
      <4>. QED
        BY <3>1, <3>2, <4>1, <4>2, <4>5, <4>6, UpdateStep
    <3>3. CASE ~Matches(row)
      BY <1>0, <2>7, <3>3, CallTypes, HandlerStep DEF TransitionSwap, Idle
    <3>. QED
      BY <3>2, <3>3
  <2>8. CASE RecordOutcome(r)
    <3>1. /\ work[r].op \in OpIds /\ work[r].entry \in Outcomes
          /\ status[work[r].op] = work[r].entry
      BY <1>0, <2>8, CallFields DEF RecordOutcome, At, IInv, WorkInv, CallInv
    <3>2. /\ trail' \in [OpIds -> SUBSET Outcomes]
          /\ \A o \in OpIds : trail'[o] \subseteq {status[o]}
      BY <1>0, <2>8, <3>1 DEF RecordOutcome
    <3>. QED
      BY <1>0, <2>8, <3>2, CallTypes, HandlerStep DEF RecordOutcome, Idle
  <2>9. CASE Abort(r)
    BY <1>0, <2>9, CallTypes, HandlerStep DEF Abort, Idle
  <2>. QED
    BY <1>1, <2>1, <2>2, <2>3, <2>4, <2>5, <2>6, <2>7, <2>8, <2>9 DEF Handler
<1>2. ASSUME NEW w \in Sweepers, Sweep(w) PROVE IInv'
  <2>0. sweep \in [Sweepers -> SUBSET SeenRow]
    BY DEF IInv, TypeOK
  <2>1. CASE SweepFind(w)
    <3>1. PICK batch \in SUBSET Stale : sweep' = [sweep EXCEPT ![w] = {Seen(o) : o \in batch}]
      BY <2>1 DEF SweepFind
    <3>2. \A o \in batch : /\ Seen(o) \in SeenRow
                           /\ Seen(o).status \in InFlightStatuses
                           /\ Exists(Seen(o).op)
                           /\ expiresAt(Seen(o).op) < now
      BY SeenIsRow DEF Stale, InFlight, InFlightStatuses, Exists, Absent, Seen, IInv
    <3>3. sweep' \in [Sweepers -> SUBSET SeenRow]
      BY <2>0, <3>1, <3>2
    <3>4. UNCHANGED <<rows, trail, handed, work, now>>
      BY <2>1 DEF SweepFind
    <3>5. SweepInv'
      BY <2>0, <3>1, <3>2, <3>4 DEF IInv, SweepInv, Exists, expiresAt, rows
    <3>. QED
      BY <3>3, <3>4, <3>5 DEF IInv, TypeOK, rows, VersionInv, WorkInv, CallInv, At,
         CreatedInThePast, HandedOutOnce, OneRowPerKey, TrailAgrees,
         ExpiredOnlyAfterDeadline, Exists, expiresAt
  <2>2. CASE SweepRow(w)
    <3>1. PICK row \in sweep[w] :
            /\ sweep' = [sweep EXCEPT ![w] = @ \ {row}]
            /\ IF Matches(row) THEN SetStatus(row.op, "EXPIRED") ELSE UNCHANGED rows
      BY <2>2 DEF SweepRow
    <3>2. UNCHANGED <<trail, handed, work, now>>
      BY <2>2 DEF SweepRow
    <3>3. /\ row \in SeenRow /\ row.op \in OpIds
          /\ row.status \in InFlightStatuses
          /\ expiresAt(row.op) < now
      BY <2>0 DEF IInv, SweepInv, SeenRow
    <3>4. /\ sweep' \in [Sweepers -> SUBSET SeenRow]
          /\ \A v \in Sweepers : sweep'[v] \subseteq sweep[v]
      BY <2>0, <3>1
    <3>5. CASE Matches(row)
      <4>1. "EXPIRED" \in OperationStatuses /\ canTransition(row.status, "EXPIRED")
        BY <3>3 DEF canTransition, TRANSITIONS, OperationStatuses, InFlightStatuses, TerminalStatuses
      <4>2. SetStatus(row.op, "EXPIRED")
        BY <3>1, <3>5
      <4>3. /\ handed' \in [OpIds -> Nat] /\ handed' = handed
            /\ handed[row.op] + 0 = handed[row.op]
            /\ work' \in [Requests -> Calls] /\ work' = work
        BY <3>2, <3>3 DEF IInv, TypeOK
      <4>. QED
        BY <3>2, <3>3, <3>4, <3>5, <4>1, <4>2, <4>3, UpdateStep
    <3>6. CASE ~Matches(row)
      BY <3>1, <3>2, <3>4, <3>6 DEF IInv, TypeOK, rows, VersionInv, WorkInv, CallInv, At,
         SweepInv, CreatedInThePast, HandedOutOnce, OneRowPerKey, TrailAgrees,
         ExpiredOnlyAfterDeadline, Exists, expiresAt
    <3>. QED
      BY <3>5, <3>6
  <2>3. CASE SweepAbort(w)
    <3>1. /\ sweep' \in [Sweepers -> SUBSET SeenRow]
          /\ \A v \in Sweepers : sweep'[v] \subseteq sweep[v]
          /\ UNCHANGED <<rows, trail, handed, work, now>>
      BY <2>0, <2>3 DEF SweepAbort
    <3>. QED
      BY <3>1 DEF IInv, TypeOK, rows, VersionInv, WorkInv, CallInv, At,
         SweepInv, CreatedInThePast, HandedOutOnce, OneRowPerKey, TrailAgrees,
         ExpiredOnlyAfterDeadline, Exists, expiresAt
  <2>. QED
    BY <1>2, <2>1, <2>2, <2>3 DEF Sweep
<1>3. CASE Tick
  <2>1. /\ now \in Nat /\ now' = now + 1
        /\ UNCHANGED <<status, version, key, createdAt, trail, handed, work, sweep>>
        /\ createdAt \in [OpIds -> Nat]
    BY <1>3 DEF Tick, rows, IInv, TypeOK
  <2>2. TypeOK' /\ VersionInv' /\ HandedOutOnce' /\ OneRowPerKey' /\ TrailAgrees'
    BY <2>1 DEF IInv, TypeOK, VersionInv, HandedOutOnce, OneRowPerKey, TrailAgrees, Exists
  <2>3. CreatedInThePast' /\ ExpiredOnlyAfterDeadline'
    BY <2>1, OperationsAssumption DEF IInv, CreatedInThePast, ExpiredOnlyAfterDeadline, expiresAt
  <2>4. SweepInv'
    <3>. SUFFICES ASSUME NEW w \in Sweepers, NEW row \in sweep[w]
                  PROVE  row.status \in InFlightStatuses /\ Exists(row.op) /\ expiresAt(row.op) < now + 1
      BY <2>1 DEF SweepInv, Exists, expiresAt
    <3>1. row.op \in OpIds /\ createdAt[row.op] \in Nat
      BY <2>1 DEF IInv, TypeOK, SeenRow
    <3>. QED
      BY <2>1, <3>1, OperationsAssumption DEF IInv, SweepInv, expiresAt
  <2>5. WorkInv'
    <3>. SUFFICES ASSUME NEW r \in Requests PROVE CallInv(r)'
      BY DEF WorkInv
    <3>1. CallInv(r) /\ (At(r, "insert") => work[r].at \in Nat)
      BY <2>1, CallFields DEF IInv, TypeOK, WorkInv, At
    <3>. QED
      BY <2>1, <3>1 DEF CallInv, At, Exists, canTransition
  <2>. QED
    BY <2>2, <2>3, <2>4, <2>5 DEF IInv
<1>4. CASE UNCHANGED vars
  BY <1>4 DEF vars, rows, IInv, TypeOK, VersionInv, WorkInv, CallInv, At,
     SweepInv, CreatedInThePast, HandedOutOnce, OneRowPerKey, TrailAgrees,
     ExpiredOnlyAfterDeadline, Exists, expiresAt
<1>. QED
  BY <1>1, <1>2, <1>3, <1>4 DEF Next

(* Types, the version of a row, what handlers and sweeps remember across   *)
(* their awaits and the properties below, together inductive.              *)
THEOREM Invariance == Spec => []IInv
BY InitIInv, StepIInv, PTL DEF Spec

(* Every reachable state of the service is well typed, and no row is       *)
(* updated more than three times.                                          *)
THEOREM TypeCorrect == Spec => []TypeOK
BY Invariance, PTL DEF IInv

(* Whatever polls race, the agent gets an operation at most once.          *)
THEOREM HandedOutAtMostOnce == Spec => []HandedOutOnce
BY Invariance, PTL DEF IInv

(* However many creates carry a key, one row has it.                       *)
THEOREM KeyIsIdempotent == Spec => []OneRowPerKey
BY Invariance, PTL DEF IInv

(* Events and audit entries tell the status the operation ended in.        *)
THEOREM TrailIsTrue == Spec => []TrailAgrees
BY Invariance, PTL DEF IInv

(* No sweep, however late its updates, expires an operation early.         *)
THEOREM NeverExpiredEarly == Spec => []ExpiredOnlyAfterDeadline
BY Invariance, PTL DEF IInv

----------------------------------------------------------------------------
(* A poll ends by claiming o, and o is no younger than any it saw.         *)
ClaimedOldest(o) ==
  \E r \in Requests :
    /\ At(r, "claim") /\ work[r].row.op = o /\ work'[r] = Idle
    /\ \A p \in work[r].seen : createdAt[o] <= createdAt[p]

(* What a step can do to rows and trail: nothing, an insert, one legal     *)
(* move, or one record of the status an operation ended in.                *)
LEMMA RowSteps ==
  ASSUME IInv, [Next]_vars
  PROVE  \/ UNCHANGED <<status, version, trail>>
         \/ /\ \E o \in OpIds :
                 /\ status[o] = Absent
                 /\ status' = [status EXCEPT ![o] = "PENDING"]
                 /\ version' = [version EXCEPT ![o] = 1]
            /\ \E r \in Requests : CreateInsert(r)
            /\ UNCHANGED trail
         \/ /\ \E o \in OpIds, to \in OperationStatuses :
                 /\ status[o] \in OperationStatuses
                 /\ canTransition(status[o], to)
                 /\ SetStatus(o, to)
                 /\ to = "DELIVERED" => ClaimedOldest(o)
            /\ UNCHANGED trail
         \/ /\ \E o \in OpIds :
                 /\ status[o] \in Outcomes
                 /\ trail' = [trail EXCEPT ![o] = @ \cup {status[o]}]
            /\ UNCHANGED <<status, version>>
<1>0. /\ work \in [Requests -> Calls] /\ sweep \in [Sweepers -> SUBSET SeenRow]
      /\ "DELIVERED" \in OperationStatuses /\ "EXPIRED" \in OperationStatuses
      /\ Targets \subseteq OperationStatuses \ {"DELIVERED"}
  BY DEF IInv, TypeOK, Targets, OperationStatuses, InFlightStatuses, TerminalStatuses
<1>1. ASSUME NEW r \in Requests, CreateInsert(r), ~UNCHANGED rows
      PROVE  /\ \E o \in OpIds :
                  /\ status[o] = Absent
                  /\ status' = [status EXCEPT ![o] = "PENDING"]
                  /\ version' = [version EXCEPT ![o] = 1]
             /\ UNCHANGED trail
  BY <1>1 DEF CreateInsert, Exists
<1>2. ASSUME NEW r \in Requests, NextClaim(r), Matches(work[r].row)
      PROVE  LET o == work[r].row.op IN
             /\ o \in OpIds
             /\ status[o] \in OperationStatuses
             /\ canTransition(status[o], "DELIVERED")
             /\ SetStatus(o, "DELIVERED")
             /\ ClaimedOldest(o)
             /\ UNCHANGED trail
  BY <1>0, <1>2, CallFields DEF NextClaim, Then, Matches, At, SeenRow, IInv, WorkInv, CallInv,
     canTransition, TRANSITIONS, ClaimedOldest
<1>3. ASSUME NEW r \in Requests, TransitionSwap(r), Matches(work[r].row)
      PROVE  LET o == work[r].row.op IN
             /\ o \in OpIds
             /\ status[o] \in OperationStatuses
             /\ work[r].to \in OperationStatuses \ {"DELIVERED"}
             /\ canTransition(status[o], work[r].to)
             /\ SetStatus(o, work[r].to)
             /\ UNCHANGED trail
  BY <1>0, <1>3, CallFields DEF TransitionSwap, Matches, At, SeenRow, IInv, WorkInv, CallInv,
     canTransition
<1>4. ASSUME NEW w \in Sweepers, NEW row \in sweep[w], Matches(row)
      PROVE  /\ row.op \in OpIds
             /\ status[row.op] \in OperationStatuses
             /\ canTransition(status[row.op], "EXPIRED")
  BY <1>0, <1>4 DEF Matches, SeenRow, IInv, SweepInv, canTransition, TRANSITIONS,
     OperationStatuses, InFlightStatuses, TerminalStatuses
<1>5. ASSUME NEW r \in Requests, RecordOutcome(r)
      PROVE  /\ \E o \in OpIds :
                  /\ status[o] \in Outcomes
                  /\ trail' = [trail EXCEPT ![o] = @ \cup {status[o]}]
             /\ UNCHANGED <<status, version>>
  BY <1>0, <1>5, CallFields DEF RecordOutcome, At, IInv, WorkInv, CallInv, rows
<1>6. ASSUME NEW r \in Requests, Handler(r),
             ~CreateInsert(r), ~NextClaim(r), ~TransitionSwap(r), ~RecordOutcome(r)
      PROVE  UNCHANGED <<status, version, trail>>
  BY <1>6 DEF Handler, CreateBegin, CreateCount, NextFind, TransitionRead, Abort, rows
<1>7. ASSUME NEW r \in Requests,
             \/ CreateInsert(r) /\ UNCHANGED rows
             \/ NextClaim(r) /\ ~Matches(work[r].row)
             \/ TransitionSwap(r) /\ ~Matches(work[r].row)
      PROVE  UNCHANGED <<status, version, trail>>
  BY <1>7 DEF CreateInsert, NextClaim, TransitionSwap, rows
<1>8. CASE \E r \in Requests : Handler(r)
  BY <1>0, <1>1, <1>2, <1>3, <1>5, <1>6, <1>7, <1>8
<1>9. ASSUME NEW w \in Sweepers, Sweep(w)
      PROVE  \/ UNCHANGED <<status, version, trail>>
             \/ /\ \E o \in OpIds :
                     /\ status[o] \in OperationStatuses
                     /\ canTransition(status[o], "EXPIRED")
                     /\ SetStatus(o, "EXPIRED")
                /\ UNCHANGED trail
  BY <1>4, <1>9 DEF Sweep, SweepFind, SweepRow, SweepAbort, rows
<1>10. CASE Tick \/ UNCHANGED vars
  BY <1>10 DEF Tick, vars, rows
<1>. QED
  BY <1>0, <1>8, <1>9, <1>10 DEF Next

(* Neither a late result nor a sweep that read a row before it finished    *)
(* touches the row of a finished operation.                                *)
THEOREM TerminalStaysFinal == Spec => TerminalIsFinal
<1>1. ASSUME IInv, [Next]_vars, NEW o \in OpIds, status[o] \in TerminalStatuses
      PROVE  status'[o] = status[o] /\ version'[o] = version[o]
  <2>1. /\ status \in [OpIds -> OperationStatuses \cup {Absent}]
        /\ version \in [OpIds -> 0..4]
        /\ status[o] # Absent
    BY <1>1 DEF IInv, TypeOK, TerminalStatuses, Absent
  <2>2. \A to : ~canTransition(status[o], to)
    BY <1>1 DEF canTransition, TRANSITIONS, TerminalStatuses
  <2>. QED
    BY <1>1, <2>1, <2>2, RowSteps DEF SetStatus
<1>2. IInv /\ [Next]_vars =>
        [\A o \in OpIds : status[o] \in TerminalStatuses =>
             status'[o] = status[o] /\ version'[o] = version[o]]_vars
  BY <1>1
<1>. QED
  BY <1>2, Invariance, PTL DEF Spec, TerminalIsFinal

(* Whatever happens between the find of a poll and its claim, the claim    *)
(* goes to the oldest operation the poll could see.                        *)
THEOREM DeliveredOldestFirst == Spec => OldestFirst
<1>1. ASSUME IInv, [Next]_vars, NEW o \in OpIds, NEW p \in Deliverable,
             status[o] = "PENDING", status'[o] = "DELIVERED",
             createdAt[p] < createdAt[o]
      PROVE  \E r \in Requests :
               /\ At(r, "claim") /\ work[r].row.op = o /\ work'[r] = Idle
               /\ p \notin work[r].seen
  <2>1. /\ status \in [OpIds -> OperationStatuses \cup {Absent}]
        /\ createdAt[o] \in Nat /\ createdAt[p] \in Nat
    BY <1>1 DEF IInv, TypeOK, Deliverable
  <2>2. PICK q \in OpIds, to \in OperationStatuses :
          SetStatus(q, to) /\ (to = "DELIVERED" => ClaimedOldest(q))
    BY <1>1, <2>1, RowSteps
  <2>3. q = o /\ to = "DELIVERED"
    BY <1>1, <2>1, <2>2 DEF SetStatus
  <2>. QED
    BY <1>1, <2>1, <2>2, <2>3 DEF ClaimedOldest
<1>2. IInv /\ [Next]_vars =>
        [\A o \in OpIds, p \in Deliverable :
           /\ status[o] = "PENDING" /\ status'[o] = "DELIVERED"
           /\ createdAt[p] < createdAt[o]
           => \E r \in Requests :
                /\ At(r, "claim") /\ work[r].row.op = o /\ work'[r] = Idle
                /\ p \notin work[r].seen]_vars
  BY <1>1
<1>. QED
  BY <1>2, Invariance, PTL DEF Spec, OldestFirst

----------------------------------------------------------------------------
(* How far concurrent creates exceed OPERATION_MAX_PARALLEL                *)

LEMMA InitOvershoot == Init => OvershootInv
<1>. SUFFICES ASSUME Init PROVE OvershootInv
  OBVIOUS
<1>1. InFlight = {} /\ Inserting = {}
  BY DEF Init, InFlight, InFlightStatuses, Absent, Inserting, At, Idle
<1>. QED
  BY <1>1, FS_EmptySet, FS_CardinalityType, OperationsAssumption DEF OvershootInv, OvershootBounded

LEMMA StepOvershoot == IInv /\ OvershootInv /\ [Next]_vars => OvershootInv'
<1>. SUFFICES ASSUME IInv, OvershootInv, [Next]_vars PROVE OvershootInv'
  OBVIOUS
<1>0. /\ work \in [Requests -> Calls]
      /\ status \in [OpIds -> OperationStatuses \cup {Absent}]
      /\ Inserting \subseteq Requests
      /\ IsFiniteSet(Inserting) /\ Cardinality(Inserting) \in Nat
      /\ Cardinality(InFlight) \in Nat /\ Cardinality(Requests) \in Nat
      /\ MaxParallel \in Nat
  <2>1. Inserting \subseteq Requests
    BY DEF Inserting
  <2>. QED
    BY <2>1, FS_Subset, FS_CardinalityType, OperationsAssumption
    DEF OvershootInv, IInv, TypeOK
<1>1. InFlight' \subseteq InFlight \/ \E r \in Requests : CreateInsert(r)
  <2>1. CASE UNCHANGED status
    BY <2>1 DEF InFlight
  <2>2. ASSUME NEW o \in OpIds, NEW to \in OperationStatuses, SetStatus(o, to),
               status[o] \in OperationStatuses, canTransition(status[o], to)
        PROVE  InFlight' \subseteq InFlight
    BY <1>0, <2>2 DEF SetStatus, InFlight, canTransition, TRANSITIONS,
       OperationStatuses, InFlightStatuses, TerminalStatuses
  <2>. QED
    BY <2>1, <2>2, RowSteps
<1>2. \/ Inserting' \subseteq Inserting
      \/ BelowCap /\ UNCHANGED status
  <2>1. ASSUME NEW r \in Requests, NEW c, Then(r, c), c.call # "insert"
        PROVE  Inserting' \subseteq Inserting
    BY <1>0, <2>1 DEF Then, Inserting, At
  <2>2. CASE UNCHANGED work
    BY <2>2 DEF Inserting, At
  <2>3. ASSUME NEW r \in Requests, Handler(r)
        PROVE  \/ Inserting' \subseteq Inserting
               \/ BelowCap /\ UNCHANGED status
    <3>1. /\ Idle.call # "insert"
          /\ \A k : CountInFlight(k).call # "insert"
          /\ \A row : Claim(row).call # "insert"
          /\ \A row, to : Swap(row, to).call # "insert"
          /\ \A o, e : Record(o, e).call # "insert"
      BY DEF Idle, CountInFlight, Claim, Swap, Record
    <3>2. \A o, to : AfterTransition(o, to).call # "insert"
                     /\ AfterRead(o, to).call # "insert"
      BY <3>1 DEF AfterTransition, AfterRead
    <3>3. CASE CreateCount(r)
      BY <2>1, <3>1, <3>3 DEF CreateCount, rows
    <3>4. CASE CreateInsert(r) \/ NextClaim(r) \/ RecordOutcome(r) \/ Abort(r)
      BY <2>1, <3>1, <3>4 DEF CreateInsert, NextClaim, RecordOutcome, Abort
    <3>5. CASE TransitionSwap(r)
      BY <2>1, <3>1, <3>2, <3>5 DEF TransitionSwap
    <3>6. CASE NextFind(r)
      BY <2>1, <3>1, <3>6 DEF NextFind
    <3>7. CASE \E k \in Keys \cup {NoKey} : CreateBegin(r, k)
      BY <2>1, <3>1, <3>7 DEF CreateBegin
    <3>8. CASE \E o \in OpIds, to \in Targets : TransitionRead(r, o, to)
      BY <2>1, <3>2, <3>8 DEF TransitionRead
    <3>. QED
      BY <2>3, <3>3, <3>4, <3>5, <3>6, <3>7, <3>8 DEF Handler
  <2>4. (\E w \in Sweepers : Sweep(w)) \/ Tick \/ UNCHANGED vars => UNCHANGED work
    BY DEF Sweep, SweepFind, SweepRow, SweepAbort, Tick, vars
  <2>. QED
    BY <2>2, <2>3, <2>4 DEF Next
<1>3. CASE InFlight' \subseteq InFlight /\ Inserting' \subseteq Inserting
  <2>1. /\ IsFiniteSet(InFlight') /\ Cardinality(InFlight') <= Cardinality(InFlight)
        /\ Cardinality(Inserting') <= Cardinality(Inserting)
        /\ Cardinality(InFlight') \in Nat /\ IsFiniteSet(Inserting')
        /\ Cardinality(Inserting') \in Nat
    BY <1>0, <1>3, FS_Subset, FS_CardinalityType DEF OvershootInv, OvershootBounded
  <2>. QED
    BY <1>0, <2>1 DEF OvershootInv, OvershootBounded
<1>4. CASE BelowCap /\ UNCHANGED status
  <2>1. InFlight' = InFlight /\ Inserting' \subseteq Requests
    BY <1>4 DEF InFlight, Inserting
  <2>2. Cardinality(Inserting') <= Cardinality(Requests) /\ Cardinality(Inserting') \in Nat
    BY <2>1, FS_Subset, FS_CardinalityType, OperationsAssumption
  <2>. QED
    BY <1>0, <1>4, <2>1, <2>2 DEF OvershootInv, OvershootBounded, BelowCap
<1>5. ASSUME NEW r \in Requests, CreateInsert(r), ~(InFlight' \subseteq InFlight)
      PROVE  OvershootInv'
  <2>1. PICK o \in OpIds : status' = [status EXCEPT ![o] = "PENDING"]
    BY <1>5 DEF CreateInsert, InFlight, rows
  <2>2. InFlight' \subseteq InFlight \cup {o}
    BY <1>0, <2>1 DEF InFlight
  <2>3. r \in Inserting /\ Inserting' \subseteq Inserting \ {r}
    BY <1>0, <1>5 DEF CreateInsert, Inserting, At, Then, Idle
  <2>4. /\ IsFiniteSet(InFlight \cup {o})
        /\ Cardinality(InFlight \cup {o}) <= Cardinality(InFlight) + 1
        /\ IsFiniteSet(Inserting \ {r})
        /\ Cardinality(Inserting \ {r}) = Cardinality(Inserting) - 1
        /\ Cardinality(InFlight \cup {o}) \in Nat
    <3>1. /\ IsFiniteSet(InFlight \cup {o})
          /\ Cardinality(InFlight \cup {o}) \in {Cardinality(InFlight), Cardinality(InFlight) + 1}
      BY FS_AddElement DEF OvershootInv, OvershootBounded
    <3>2. /\ IsFiniteSet(Inserting \ {r})
          /\ Cardinality(Inserting \ {r}) = Cardinality(Inserting) - 1
      BY <1>0, <2>3, FS_RemoveElement
    <3>. QED
      BY <1>0, <3>1, <3>2
  <2>5. /\ IsFiniteSet(InFlight') /\ Cardinality(InFlight') \in Nat
        /\ Cardinality(InFlight') <= Cardinality(InFlight) + 1
    BY <1>0, <2>2, <2>4, FS_Subset, FS_CardinalityType
  <2>6. /\ Cardinality(Inserting') \in Nat
        /\ Cardinality(Inserting') <= Cardinality(Inserting) - 1
    BY <1>0, <2>3, <2>4, FS_Subset, FS_CardinalityType
  <2>. QED
    BY <1>0, <2>5, <2>6 DEF OvershootInv, OvershootBounded
<1>. QED
  BY <1>1, <1>2, <1>3, <1>4, <1>5

(* However requests interleave, the operations in flight and the inserts   *)
(* under way exceed the cap by fewer than there are requests: each         *)
(* overshoot is a request that counted before another one inserted.        *)
THEOREM BoundedOvershoot == Spec => []OvershootBounded
BY InitOvershoot, StepOvershoot, Invariance, PTL DEF Spec, OvershootInv

----------------------------------------------------------------------------
(* The queue, with its stale reads, implements the lifecycle: initial      *)
(* states map to initial states, steps to steps or stutters.               *)
THEOREM Refinement == Spec => ImplementsLifecycle
<1>1. Init => Lifecycle!Init
  BY DEF Init, Lifecycle!Init, Absent, Lifecycle!Absent
<1>2. IInv /\ [Next]_vars => [Lifecycle!Next]_(Lifecycle!vars)
  <2>. SUFFICES ASSUME IInv, [Next]_vars PROVE [Lifecycle!Next]_(Lifecycle!vars)
    OBVIOUS
  <2>1. ASSUME NEW o \in OpIds, status[o] = Absent,
               status' = [status EXCEPT ![o] = "PENDING"], UNCHANGED trail
        PROVE  Lifecycle!Next
    BY <2>1 DEF Lifecycle!Next, Lifecycle!Request, Absent, Lifecycle!Absent
  <2>2. ASSUME NEW o \in OpIds, NEW to \in OperationStatuses,
               status[o] \in OperationStatuses, canTransition(status[o], to),
               SetStatus(o, to), UNCHANGED trail
        PROVE  Lifecycle!Next
    <3>1. /\ Lifecycle!OperationStatuses = OperationStatuses
          /\ Lifecycle!TRANSITIONS = TRANSITIONS
      BY DEF OperationStatuses, Lifecycle!OperationStatuses, InFlightStatuses,
         Lifecycle!InFlightStatuses, TerminalStatuses, Lifecycle!TerminalStatuses,
         TRANSITIONS, Lifecycle!TRANSITIONS
    <3>2. Lifecycle!Move(o, to)
      BY <2>2, <3>1 DEF Lifecycle!Move, SetStatus, canTransition, Lifecycle!canTransition
    <3>. QED
      BY <3>1, <3>2 DEF Lifecycle!Next
  <2>3. ASSUME NEW o \in OpIds, status[o] \in Outcomes,
               trail' = [trail EXCEPT ![o] = @ \cup {status[o]}], UNCHANGED status
        PROVE  Lifecycle!Next
    BY <2>3 DEF Lifecycle!Next, Lifecycle!Announce, Outcomes
  <2>. QED
    BY <2>1, <2>2, <2>3, RowSteps DEF Lifecycle!vars
<1>. QED
  BY <1>1, <1>2, Invariance, PTL DEF Spec, ImplementsLifecycle, Lifecycle!Spec

=============================================================================
