------------------------------ MODULE QueryList ------------------------------
(***************************************************************************)
(* The list hooks of the web client.  useServers, useOperations, useAudit, *)
(* useSshKeys and useServerGroups share one loader: a request of the       *)
(* effect is cancelled when the query changes, one of the timer or of the  *)
(* user never is; a refresh while a request is in flight is that request;  *)
(* and every request clears inFlight at its end, be it the one there.      *)
(***************************************************************************)
EXTENDS Naturals, NoValue

CONSTANTS
  Queries,   \* values of the query state that ask for different items
  Timed,     \* those with query.refresh > 0
  MaxFetches \* bound: list requests in flight at once

ASSUME TimedAreQueries == Timed \subseteq Queries
ASSUME MaxFetchesIsNat == MaxFetches \in Nat

VARIABLES
  list,     \* the hook's state and refs, None while it is not mounted
  fetches,  \* its requests in flight
  crossed   \* history: the query changed under a request shared or not owned

listVars == <<list, fetches, crossed>>

Fetches == 1..MaxFetches
List == [query : Queries, shown : Queries \cup {None}, loaded : BOOLEAN,
         status : {"loading", "refreshing", "shown", "error"},
         inFlight : Fetches \cup {None}]
Fetch == [query : Queries, by : {"effect", "cancelled", "nobody"}]

ASSUME NoneIsNoList == None \notin Fetches \cup Fetch \cup List

ListTypeOK ==
  /\ list \in List \cup {None}
  /\ fetches \in [Fetches -> Fetch \cup {None}]
  /\ crossed \in BOOLEAN

NoFetch == [f \in Fetches |-> None]
InFlight(fs) == {f \in Fetches : fs[f] # None}
\* Which free place it takes makes no difference.
NextFetch(fs) == CHOOSE f \in Fetches \ InFlight(fs) : TRUE

\* load(mode, cancelled) of the hook in state l, with fs in flight.
ListLoad(l, fs, mode, by) ==
  IF mode = "refresh" /\ l.inFlight # None
  THEN list' = l /\ fetches' = fs
  ELSE /\ InFlight(fs) # Fetches
       /\ list' = [l EXCEPT !.status = IF l.loaded THEN "refreshing" ELSE "loading",
                            !.inFlight = NextFetch(fs)]
       /\ fetches' = [fs EXCEPT ![NextFetch(fs)] = [query |-> l.query, by |-> by]]

ListMount(q) ==
  /\ list = None
  /\ ListLoad([query |-> q, shown |-> None, loaded |-> FALSE, status |-> "loading",
               inFlight |-> None], NoFetch, "initial", "effect")
  /\ crossed' = FALSE

\* Answers to an unmounted hook change nothing.
ListUnmount ==
  /\ list # None
  /\ list' = None
  /\ fetches' = NoFetch
  /\ crossed' = FALSE

CancelEffect(fs) ==
  [f \in Fetches |-> IF fs[f] # None /\ fs[f].by = "effect"
                     THEN [fs[f] EXCEPT !.by = "cancelled"] ELSE fs[f]]

Unowned(q) == \E f \in InFlight(fetches) : fetches[f].by = "nobody" /\ fetches[f].query # q

\* The two effects on a new query: the cleanup of the old one, then the load.
ChangeQuery(q) ==
  /\ list # None
  /\ q # list.query
  /\ ListLoad([list EXCEPT !.query = q], CancelEffect(fetches),
              IF list.loaded THEN "refresh" ELSE "initial", "effect")
  /\ crossed' = (Unowned(q) \/ (list.loaded /\ list.inFlight # None))

ListRefresh ==
  /\ list # None
  /\ ListLoad(list, fetches, "refresh", "nobody")
  /\ crossed' = (crossed /\ (list.inFlight # None \/ Unowned(list.query)))

\* The interval of a query that has one, while the page is visible.
ListTick == list # None /\ list.query \in Timed /\ ListRefresh

EndEarly(f) ==
  [list EXCEPT !.inFlight = IF fetches[f].by = "cancelled" THEN @ ELSE None]

\* finally: inFlight is cleared whichever request it holds.
End(f) == [list EXCEPT !.inFlight = None]

ListAnswer(f) ==
  /\ list # None
  /\ fetches[f] # None
  /\ \/ /\ fetches[f].by = "cancelled"
        /\ list' = End(f)
     \/ /\ fetches[f].by # "cancelled"
        /\ list' = [End(f) EXCEPT !.loaded = TRUE, !.shown = fetches[f].query, !.status = "shown"]
  /\ fetches' = [fetches EXCEPT ![f] = None]
  /\ UNCHANGED crossed

ListError(f) ==
  /\ list # None
  /\ fetches[f] # None
  /\ list' = IF fetches[f].by = "cancelled" THEN End(f) ELSE [End(f) EXCEPT !.status = "error"]
  /\ fetches' = [fetches EXCEPT ![f] = None]
  /\ UNCHANGED crossed

ListInit == list = None /\ fetches = NoFetch /\ crossed = FALSE

ListStep ==
  \/ \E q \in Queries : ChangeQuery(q)
  \/ ListRefresh \/ ListTick
  \/ \E f \in Fetches : ListAnswer(f) \/ ListError(f)

\* The interval fires, and no request of the list fails for ever.
ListFairness ==
  /\ SF_listVars(ListTick)
  /\ \A f \in Fetches : SF_listVars(ListAnswer(f))

\* Unless the query changed under a request that the change could not cancel
\* or that it joined, the list loads its query: a busy list has a request for
\* it in flight, and the items it shows otherwise are that query's.
ListAnswersQuery ==
  list # None /\ ~crossed =>
    /\ list.status \in {"loading", "refreshing"} =>
         \E f \in InFlight(fetches) : fetches[f].query = list.query /\ fetches[f].by # "cancelled"
    /\ list.status = "shown" => list.shown = list.query

\* A list that refreshes by itself shows its query in the end, crossed or not.
ListCatchesUp ==
  \A q \in Timed :
    (list # None /\ list.query = q)
      ~> (IF list = None THEN TRUE ELSE list.query # q \/ list.shown = q)
=============================================================================
