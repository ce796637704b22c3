------------------------------ MODULE Operations ------------------------------
(***************************************************************************)
(* The queue of operations of one server: OperationsService and the part   *)
(* of the status sweep that expires operations.  Every query of the        *)
(* service is restricted to one serverId, so servers do not interact here. *)
(*                                                                         *)
(* A request is a handler running in some replica.  The database calls it  *)
(* awaits are the only points where others run, so each database call is   *)
(* one action and work[r] holds what the handler remembers across the      *)
(* await: the call it makes next and the values it has read.  Any call may *)
(* fail and end the handler (Abort); nothing it did before is undone.      *)
(***************************************************************************)
EXTENDS OperationStates, Integers, FiniteSets

CONSTANTS
  OpIds,        \* the ids operations get, in the order they are inserted
  Keys,         \* idempotency keys callers choose
  NoKey,        \* the caller chose none
  Requests,     \* handlers that may run at the same time
  Sweepers,     \* status sweeps that may run at the same time
  MaxParallel,  \* OPERATION_MAX_PARALLEL
  TTL,          \* OPERATION_TTL_MS
  BatchSize,    \* the take of expireBatch
  MaxTime       \* bound: the clock stops here

ASSUME OperationsAssumption ==
  /\ OpIds \subseteq Nat
  /\ NoKey \notin Keys
  /\ MaxParallel \in Nat \ {0}
  /\ TTL \in Nat \ {0}
  /\ BatchSize \in Nat \ {0}
  /\ MaxTime \in Nat
  /\ IsFiniteSet(Requests)

VARIABLES
  status,     \* status[o] of the row, or Absent
  version,    \* version[o] of the row
  key,        \* idempotencyKey[o], or NoKey
  createdAt,  \* createdAt[o]; expiresAt is TTL later
  trail,      \* trail[o]: the outcomes the event log and the audit trail tell of o
  handed,     \* history: how often o was given to the agent
  work,       \* work[r]: the next database call of handler r
  sweep,      \* sweep[w]: the stale rows sweep w has still to expire
  now

rows == <<status, version, key, createdAt>>
vars == <<rows, trail, handed, work, sweep, now>>

----------------------------------------------------------------------------
(* Rows *)

Exists(o) == status[o] # Absent
InFlight == {o \in OpIds : status[o] \in InFlightStatuses}
expiresAt(o) == createdAt[o] + TTL
Deliverable == {o \in OpIds : status[o] = "PENDING" /\ expiresAt(o) > now}

(* The row a handler read before, and the WHERE clause that asks whether   *)
(* it is still the same: status and version.                               *)
Seen(o) == [op |-> o, status |-> status[o], version |-> version[o]]
SeenRow == [op : OpIds, status : OperationStatuses, version : Nat]
MatchesById(row) == TRUE
Matches(row) == status[row.op] = row.status /\ version[row.op] = row.version

(* UPDATE ... SET status = to, version = version + 1                       *)
SetStatus(o, to) ==
  /\ status' = [status EXCEPT ![o] = to]
  /\ version' = [version EXCEPT ![o] = @ + 1]
  /\ UNCHANGED <<key, createdAt>>

----------------------------------------------------------------------------
(* Handlers *)

Idle == [call |-> "none"]
CountInFlight(k) == [call |-> "count", key |-> k]
InsertRow(k) == [call |-> "insert", key |-> k, at |-> now]
(* seen is history: what was deliverable when the poll looked.             *)
Claim(row) == [call |-> "claim", row |-> row, seen |-> Deliverable]
Swap(row, to) == [call |-> "swap", row |-> row, to |-> to]
Record(o, entry) == [call |-> "record", op |-> o, entry |-> entry]

Targets == {"RUNNING", "SUCCEEDED", "FAILED", "CANCELLED"}
Outcomes == {"CANCELLED", "SUCCEEDED", "FAILED"}

Calls ==
  {Idle}
    \cup [call : {"count"}, key : Keys \cup {NoKey}]
    \cup [call : {"insert"}, key : Keys \cup {NoKey}, at : Nat]
    \cup [call : {"claim"}, row : SeenRow, seen : SUBSET OpIds]
    \cup [call : {"swap"}, row : SeenRow, to : Targets]
    \cup [call : {"record"}, op : OpIds, entry : Outcomes]

At(r, call) == work[r].call = call
Then(r, next) == work' = [work EXCEPT ![r] = next]

(* What follows a transition: result() records an event, cancel() an audit *)
(* entry, ack() nothing.                                                   *)
AfterTransition(o, to) == IF to = "RUNNING" THEN Idle ELSE Record(o, to)

Abort(r) ==
  /\ work[r] # Idle
  /\ Then(r, Idle)
  /\ UNCHANGED <<rows, trail, handed, sweep, now>>

----------------------------------------------------------------------------
(* create(): the lookup by key, the count, the insert.  What it logs, that *)
(* the operation was requested, is left out.                               *)

KeyTaken(k) == k # NoKey /\ \E o \in OpIds : Exists(o) /\ key[o] = k

(* With a key that is taken, create() answers the row there is.            *)
CreateBegin(r, k) ==
  /\ work[r] = Idle
  /\ ~KeyTaken(k)
  /\ Then(r, CountInFlight(k))
  /\ UNCHANGED <<rows, trail, handed, sweep, now>>

BelowCapOffByOne == Cardinality(InFlight) <= MaxParallel
BelowCap == Cardinality(InFlight) < MaxParallel

CreateCount(r) ==
  /\ At(r, "count")
  /\ Then(r, IF BelowCap THEN InsertRow(work[r].key) ELSE Idle)
  /\ UNCHANGED <<rows, trail, handed, sweep, now>>

(* The unique index on (serverId, idempotencyKey) refuses a taken key.     *)
NoUniqueIndex(k) == TRUE
Insertable(k) == ~KeyTaken(k)

(* The insert is sent with its expiresAt and createdAt; the row is there   *)
(* for others when it commits, so rows may appear out of their order.      *)
(* It takes the next id; a refused insert ends the handler.                *)
CreateInsert(r) ==
  LET k == work[r].key IN
  /\ At(r, "insert")
  /\ \/ /\ Insertable(k)
        /\ \E o \in OpIds :
             /\ ~Exists(o)
             /\ \A p \in OpIds : p < o => Exists(p)
             /\ status' = [status EXCEPT ![o] = "PENDING"]
             /\ version' = [version EXCEPT ![o] = 1]
             /\ key' = [key EXCEPT ![o] = k]
             /\ createdAt' = [createdAt EXCEPT ![o] = work[r].at]
     \/ ~Insertable(k) /\ UNCHANGED rows
  /\ Then(r, Idle)
  /\ UNCHANGED <<trail, handed, sweep, now>>

----------------------------------------------------------------------------
(* nextForAgent(): one transaction, but READ COMMITTED: the row it finds   *)
(* may be gone when it updates it.                                         *)

AnyDeliverable == Deliverable
Oldest ==
  {o \in Deliverable : \A p \in Deliverable : createdAt[o] <= createdAt[p]}

NextFind(r) ==
  /\ work[r] = Idle
  /\ \E o \in Oldest : Then(r, Claim(Seen(o)))
  /\ UNCHANGED <<rows, trail, handed, sweep, now>>

NextClaim(r) ==
  LET row == work[r].row IN
  /\ At(r, "claim")
  /\ Then(r, Idle)
  /\ IF Matches(row)
     THEN /\ SetStatus(row.op, "DELIVERED")
          /\ handed' = [handed EXCEPT ![row.op] = @ + 1]
     ELSE UNCHANGED <<rows, handed>>
  /\ UNCHANGED <<trail, sweep, now>>

----------------------------------------------------------------------------
(* ack(), result() and cancel(): transition() reads the row, and updates   *)
(* it if it still is as read.  A repeat of the status it already has       *)
(* succeeds and is recorded again; an illegal move answers 409.            *)

AfterReadUnchecked(o, to) == Record(o, to)
AfterRead(o, to) ==
  IF status[o] = to THEN AfterTransition(o, to)
  ELSE IF canTransition(status[o], to) THEN Swap(Seen(o), to)
  ELSE Idle

TransitionRead(r, o, to) ==
  /\ work[r] = Idle
  /\ Exists(o)
  /\ Then(r, AfterRead(o, to))
  /\ UNCHANGED <<rows, trail, handed, sweep, now>>

TransitionSwap(r) ==
  LET row == work[r].row IN
  /\ At(r, "swap")
  /\ IF Matches(row)
     THEN /\ SetStatus(row.op, work[r].to)
          /\ Then(r, AfterTransition(row.op, work[r].to))
     ELSE Then(r, Idle) /\ UNCHANGED rows
  /\ UNCHANGED <<trail, handed, sweep, now>>

RecordOutcome(r) ==
  /\ At(r, "record")
  /\ trail' = [trail EXCEPT ![work[r].op] = @ \cup {work[r].entry}]
  /\ Then(r, Idle)
  /\ UNCHANGED <<rows, handed, sweep, now>>

----------------------------------------------------------------------------
(* expireBatch(): one query for the stale rows, then one update a row.     *)

StaleEarly == {o \in InFlight : expiresAt(o) <= now}
StaleUnlessDelivered ==
  {o \in OpIds : status[o] \in {"PENDING", "RUNNING"} /\ expiresAt(o) < now}
Stale == {o \in InFlight : expiresAt(o) < now}

SweepFind(w) ==
  /\ sweep[w] = {}
  /\ \E batch \in SUBSET Stale :
       /\ batch # {}
       /\ Cardinality(batch) <= BatchSize
       /\ batch # Stale => Cardinality(batch) = BatchSize
       /\ sweep' = [sweep EXCEPT ![w] = {Seen(o) : o \in batch}]
  /\ UNCHANGED <<rows, trail, handed, work, now>>

SweepRow(w) ==
  /\ \E row \in sweep[w] :
       /\ sweep' = [sweep EXCEPT ![w] = @ \ {row}]
       /\ IF Matches(row) THEN SetStatus(row.op, "EXPIRED") ELSE UNCHANGED rows
  /\ UNCHANGED <<trail, handed, work, now>>

(* A failed update ends the sweep; the timer starts another.               *)
SweepAbort(w) ==
  /\ sweep[w] # {}
  /\ sweep' = [sweep EXCEPT ![w] = {}]
  /\ UNCHANGED <<rows, trail, handed, work, now>>

----------------------------------------------------------------------------
Tick ==
  /\ now < MaxTime
  /\ now' = now + 1
  /\ UNCHANGED <<rows, trail, handed, work, sweep>>

Init ==
  /\ status = [o \in OpIds |-> Absent]
  /\ version = [o \in OpIds |-> 0]
  /\ key = [o \in OpIds |-> NoKey]
  /\ createdAt = [o \in OpIds |-> 0]
  /\ trail = [o \in OpIds |-> {}]
  /\ handed = [o \in OpIds |-> 0]
  /\ work = [r \in Requests |-> Idle]
  /\ sweep = [w \in Sweepers |-> {}]
  /\ now = 0

Handler(r) ==
  \/ \E k \in Keys \cup {NoKey} : CreateBegin(r, k)
  \/ CreateCount(r)
  \/ CreateInsert(r)
  \/ NextFind(r)
  \/ NextClaim(r)
  \/ \E o \in OpIds, to \in Targets : TransitionRead(r, o, to)
  \/ TransitionSwap(r)
  \/ RecordOutcome(r)
  \/ Abort(r)

Sweep(w) == SweepFind(w) \/ SweepRow(w) \/ SweepAbort(w)

Next ==
  \/ \E r \in Requests : Handler(r)
  \/ \E w \in Sweepers : Sweep(w)
  \/ Tick

(* The interval timer starts sweeps for ever, so WF(SweepFind).  A database *)
(* that answers again and again in the end answers an update: SF(SweepRow). *)
(* Callers and the agent promise nothing.                                  *)
Fairness ==
  /\ WF_vars(Tick)
  /\ \A w \in Sweepers : WF_vars(SweepFind(w)) /\ SF_vars(SweepRow(w))

Spec == Init /\ [][Next]_vars
FairSpec == Spec /\ Fairness

----------------------------------------------------------------------------
(* Properties *)

(* Types; a row goes through at most three transitions, so its version     *)
(* (ServerOperation.version, incremented by every update) never exceeds 4. *)
TypeOK ==
  /\ status \in [OpIds -> OperationStatuses \cup {Absent}]
  /\ version \in [OpIds -> 0..4]
  /\ key \in [OpIds -> Keys \cup {NoKey}]
  /\ createdAt \in [OpIds -> Nat]
  /\ trail \in [OpIds -> SUBSET Outcomes]
  /\ handed \in [OpIds -> Nat]
  /\ work \in [Requests -> Calls]
  /\ sweep \in [Sweepers -> SUBSET SeenRow]
  /\ now \in Nat

(* nextForAgent gives an operation to the agent at most once, and an       *)
(* operation runs or has a result only if it was given out: a reboot is    *)
(* not executed twice because two polls raced.                             *)
HandedOutOnce ==
  \A o \in OpIds :
    /\ handed[o] <= 1
    /\ status[o] \in {"DELIVERED", "RUNNING", "SUCCEEDED", "FAILED"}
         => handed[o] = 1
    /\ status[o] \in {"PENDING", Absent} => handed[o] = 0

(* Retrying a create with the same idempotency key never makes a second    *)
(* row, also when the two requests both missed the lookup.                 *)
OneRowPerKey ==
  \A o, p \in OpIds :
    Exists(o) /\ Exists(p) /\ key[o] = key[p] /\ key[o] # NoKey => o = p

(* What the event log and the audit trail say of an operation is what it   *)
(* ended as: a result that lost the race leaves no OPERATION_SUCCEEDED or   *)
(* OPERATION_FAILED event, a refused cancel no audit entry.                *)
TrailAgrees ==
  \A o \in OpIds :
    trail[o] \subseteq {status[o]}

(* An operation expires only after its deadline, though the sweep updates  *)
(* rows it read earlier.                                                   *)
ExpiredOnlyAfterDeadline ==
  \A o \in OpIds : status[o] = "EXPIRED" => expiresAt(o) < now

(* Requests that count before any of them inserts exceed the cap, but by   *)
(* no more than one operation for each other concurrent request: also when *)
(* every insert under way succeeds.                                        *)
Inserting == {r \in Requests : At(r, "insert")}
OvershootBounded ==
  Cardinality(InFlight) + Cardinality(Inserting)
    <= MaxParallel + Cardinality(Requests) - 1

(* A finished operation never changes: neither a late result, nor a cancel *)
(* or a sweep that read it before it finished.                             *)
TerminalIsFinal ==
  [][\A o \in OpIds : status[o] \in TerminalStatuses =>
       status'[o] = status[o] /\ version'[o] = version[o]]_vars

(* An operation is delivered before an older one that is pending and not   *)
(* past its deadline only if the insert of the older one was still under   *)
(* way when the poll looked: what other polls do between the find and the  *)
(* claim reorders nothing.                                                 *)
OldestFirst ==
  [][\A o \in OpIds, p \in Deliverable :
       /\ status[o] = "PENDING" /\ status'[o] = "DELIVERED"
       /\ createdAt[p] < createdAt[o]
       => \E r \in Requests :
            /\ At(r, "claim") /\ work[r].row.op = o /\ work'[r] = Idle
            /\ p \notin work[r].seen]_vars

(* Whatever callers and agents do or fail to do, an operation whose        *)
(* deadline lies before the end of the clock reaches a terminal status.    *)
EventuallyTerminal ==
  \A o \in OpIds :
    (Exists(o) /\ expiresAt(o) < MaxTime) ~> status[o] \in TerminalStatuses

Lifecycle ==
  INSTANCE OperationLifecycle WITH
    state <- status,
    announced <- trail

(* Compare and set on stale reads implements the lifecycle table.          *)
ImplementsLifecycle == Lifecycle!Spec

----------------------------------------------------------------------------
(* The inductive invariant *)

(* Every transition increments the version of the row.                     *)
VersionInv ==
  \A o \in OpIds :
    /\ status[o] = Absent => version[o] = 0
    /\ status[o] = "PENDING" => version[o] = 1
    /\ status[o] = "DELIVERED" => version[o] = 2
    /\ status[o] = "RUNNING" => version[o] = 3
    /\ status[o] \in TerminalStatuses => version[o] \in 2..4

(* What a handler remembers across its await: an insert was sent in the    *)
(* past, a claim is of a row no younger than any the poll saw, a swap is a *)
(* legal move of a status read, and a record is of an operation that ended *)
(* that way.                                                               *)
CallInv(r) ==
  /\ At(r, "insert") => work[r].at <= now
  /\ At(r, "claim") =>
       /\ work[r].row.status = "PENDING"
       /\ Exists(work[r].row.op)
       /\ \A p \in work[r].seen :
            Exists(p) /\ createdAt[work[r].row.op] <= createdAt[p]
  /\ At(r, "swap") => canTransition(work[r].row.status, work[r].to)
  /\ At(r, "record") => status[work[r].op] = work[r].entry

WorkInv == \A r \in Requests : CallInv(r)

(* The rows a sweep still has to expire were past their deadline.          *)
SweepInv ==
  \A w \in Sweepers : \A row \in sweep[w] :
    /\ row.status \in InFlightStatuses
    /\ Exists(row.op)
    /\ expiresAt(row.op) < now

CreatedInThePast == \A o \in OpIds : createdAt[o] <= now

IInv ==
  /\ TypeOK
  /\ VersionInv
  /\ WorkInv
  /\ SweepInv
  /\ CreatedInThePast
  /\ HandedOutOnce
  /\ OneRowPerKey
  /\ TrailAgrees
  /\ ExpiredOnlyAfterDeadline

OvershootInv == IsFiniteSet(InFlight) /\ OvershootBounded

=============================================================================
