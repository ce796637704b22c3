------------------------------ MODULE Dashboard ------------------------------
(***************************************************************************)
(* useDashboard: the loader of the dashboard.  Each load has a sequence    *)
(* number; a load whose number is not the latest any more gives up at its  *)
(* next answer.  The first load is tried INITIAL_ATTEMPTS times.           *)
(***************************************************************************)
EXTENDS Naturals, NoValue

CONSTANTS
  Periods,   \* ChartPeriod
  Attempts,  \* INITIAL_ATTEMPTS
  MaxLoads   \* bound: dashboard loads in flight at once

ASSUME AttemptsArePositive == Attempts \in Nat \ {0}
ASSUME MaxLoadsIsNat == MaxLoads \in Nat

VARIABLES
  board,  \* the hook's state and refs, None while it is not mounted
  loads   \* its loads in flight: the async function of load()

boardVars == <<board, loads>>

Loads == 1..MaxLoads
Load == [period : Periods, left : 1..Attempts, state : {"asking", "waiting"}]

\* chart: the period its points are of, and whether it was kept over an error.
Chart == [of : Periods \cup {None}, points : BOOLEAN, stale : BOOLEAN]
Board == [period : Periods, latest : Loads \cup {None}, inFlight : Loads \cup {None},
          asked : Periods \cup {None}, loaded : BOOLEAN,
          status : {"loading", "refreshing", "success", "error"}, chart : Chart]

ASSUME NoneIsNoBoard == None \notin Periods \cup Loads \cup Load \cup Board

\* What loadDashboardSnapshot() brings.  Without servers the chart is empty.
Snapshot ==
       [servers : {"ok"}, system : {"ok", "error"}, chart : {"points", "empty", "error"}]
  \cup [servers : {"error", "limited"}, system : {"ok", "error"}, chart : {"empty"}]
Results == Snapshot \cup {None}

BoardTypeOK ==
  /\ board \in Board \cup {None}
  /\ loads \in [Loads -> Load \cup {None}]

NoLoad == [i \in Loads |-> None]
Running == {i \in Loads : loads[i] # None}
NextLoad == CHOOSE i \in Loads \ Running : TRUE

\* load(mode): one load per period at a time; a new one takes over.
BoardLoad(b, mode) ==
  LET first == mode = "initial" /\ ~b.loaded
  IN IF b.inFlight # None /\ b.asked = b.period
     THEN board' = b /\ UNCHANGED loads
     ELSE /\ Running # Loads
          /\ board' = [b EXCEPT !.latest = NextLoad, !.inFlight = NextLoad, !.asked = b.period,
                                !.status = IF first THEN "loading" ELSE "refreshing"]
          /\ loads' = [loads EXCEPT ![NextLoad] = [period |-> b.period, state |-> "asking",
                         left |-> IF first THEN Attempts ELSE 1]]

BoardMount(p) ==
  /\ board = None
  /\ BoardLoad([period |-> p, latest |-> None, inFlight |-> None, asked |-> None,
                loaded |-> FALSE, status |-> "loading",
                chart |-> [of |-> None, points |-> FALSE, stale |-> FALSE]], "initial")

BoardUnmount == board # None /\ board' = None /\ loads' = NoLoad

SetPeriod(p) ==
  /\ board # None
  /\ p # board.period
  /\ BoardLoad([board EXCEPT !.period = p], IF board.loaded THEN "refresh" ELSE "initial")

BoardRefresh == board # None /\ BoardLoad(board, "refresh")

\* shouldRetry(): nothing came, or servers or system failed, but not a 429.
ShouldRetry(r) ==
  IF r = None THEN TRUE
  ELSE r.servers # "limited" /\ (r.servers = "error" \/ r.system = "error")

\* mergeSnapshot(): a failed chart leaves the points of the last one, marked.
Merged(chart, r, p) ==
  IF r.chart = "error" /\ chart.points
  THEN [chart EXCEPT !.stale = TRUE]
  ELSE [of |-> IF r.chart = "error" THEN None ELSE p, points |-> r.chart = "points", stale |-> FALSE]

\* Whatever part of it failed, a snapshot that came is shown as a success: it
\* always has some system data.
Shown(b, r, p) ==
  IF r = None THEN [b EXCEPT !.status = "error"]
  ELSE [b EXCEPT !.loaded = TRUE, !.chart = Merged(b.chart, r, p),
                 !.status = "success"]

AnyIsLatest(i) == TRUE
IsLatest(i) == i = board.latest

AgainToZero(i) == loads[i].left >= 1
Again(i) == loads[i].left > 1

\* finally: inFlight is cleared by the latest load only.
EndedBlindly(b, i) == [b EXCEPT !.inFlight = None]
Ended(b, i) == IF i = board.latest THEN [b EXCEPT !.inFlight = None, !.latest = None] ELSE b

BoardAnswer(i, r) ==
  /\ board # None
  /\ loads[i] # None
  /\ loads[i].state = "asking"
  /\ \/ /\ IsLatest(i)
        /\ ShouldRetry(r) /\ Again(i)
        /\ loads' = [loads EXCEPT ![i].state = "waiting", ![i].left = @ - 1]
        /\ UNCHANGED board
     \/ /\ IsLatest(i)
        /\ ~(ShouldRetry(r) /\ Again(i))
        /\ board' = Ended(Shown(board, r, loads[i].period), i)
        /\ loads' = [loads EXCEPT ![i] = None]
     \/ /\ ~IsLatest(i)
        /\ board' = Ended(board, i)
        /\ loads' = [loads EXCEPT ![i] = None]

\* The delay between two attempts is over.
BoardRetry(i) ==
  /\ board # None
  /\ loads[i] # None
  /\ loads[i].state = "waiting"
  /\ loads' = [loads EXCEPT ![i].state = "asking"]
  /\ UNCHANGED board

BoardInit == board = None /\ loads = NoLoad

BoardStep ==
  \/ \E p \in Periods : SetPeriod(p)
  \/ BoardRefresh
  \/ \E i \in Loads : (\E r \in Results : BoardAnswer(i, r)) \/ BoardRetry(i)

\* Every request is answered, well or badly, and every delay ends.
BoardFairness ==
  \A i \in Loads : WF_boardVars((\E r \in Results : BoardAnswer(i, r)) \/ BoardRetry(i))

\* The dashboard is busy exactly while its latest load, for the period that is
\* selected, runs: no load that was overtaken ends the wait or leaves it behind.
BusyIsLatest ==
  board # None =>
    /\ board.status \in {"loading", "refreshing"} <=> board.inFlight # None
    /\ board.inFlight = board.latest
    /\ board.inFlight # None => board.inFlight \in Running /\ loads[board.inFlight].period = board.period

\* A load ends, however often it fails, unless the period changes first.
BoardSettles ==
  \A p \in Periods :
    (board # None /\ board.period = p)
      ~> (IF board = None THEN TRUE ELSE board.period # p \/ board.status \in {"success", "error"})
=============================================================================
