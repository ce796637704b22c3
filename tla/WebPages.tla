------------------------------ MODULE WebPages ------------------------------
(***************************************************************************)
(* The router shows one page at a time: a list, the dashboard or neither.  *)
(* Leaving a page unmounts its hook; answers that come after are dropped.  *)
(***************************************************************************)
EXTENDS QueryList, Dashboard

pagesVars == <<list, fetches, crossed, board, loads>>

PagesTypeOK == ListTypeOK /\ BoardTypeOK /\ (list = None \/ board = None)

PagesInit == ListInit /\ BoardInit

GoToList(q) == board = None /\ ListMount(q) /\ UNCHANGED boardVars
GoToDashboard(p) == list = None /\ BoardMount(p) /\ UNCHANGED listVars
LeaveList == ListUnmount /\ UNCHANGED boardVars
LeaveDashboard == BoardUnmount /\ UNCHANGED listVars
OnList == ListStep /\ UNCHANGED boardVars
OnDashboard == BoardStep /\ UNCHANGED listVars

PagesNext ==
  \/ \E q \in Queries : GoToList(q)
  \/ \E p \in Periods : GoToDashboard(p)
  \/ LeaveList \/ LeaveDashboard
  \/ OnList \/ OnDashboard

PagesSpec == PagesInit /\ [][PagesNext]_pagesVars /\ ListFairness /\ BoardFairness

-----------------------------------------------------------------------------
\* No page is stuck: what it waits for is in flight, for what is selected.
NoStuckPage == ListAnswersQuery /\ BusyIsLatest

\* Pages settle: a list that refreshes itself catches up with its query, and a
\* load of the dashboard ends.
PagesSettle == ListCatchesUp /\ BoardSettles

\* The chart shows the period that is selected when it appears, never one of a
\* load that was overtaken: the dashboard implements LatestView.
View ==
  INSTANCE LatestView WITH
    Selections <- Periods,
    wanted <- IF board = None THEN None ELSE board.period,
    shown <- IF board = None THEN None ELSE board.chart.of,
    asking <- IF board = None THEN FALSE ELSE board.inFlight # None

DashboardShowsLatest == View!Spec
=============================================================================
