-------------------------- MODULE OperationLifecycle --------------------------
(***************************************************************************)
(* What the operation queue promises, with no requests, versions or clock: *)
(* an operation is requested once, moves only along the transition table,  *)
(* and the outcome that the event log publishes for it is the status it    *)
(* ended in.                                                               *)
(***************************************************************************)
EXTENDS OperationStates

CONSTANT OpIds

VARIABLES
  state,      \* state[o]: Absent or the status of operation o
  announced   \* announced[o]: the outcomes published for o

vars == <<state, announced>>

Init ==
  /\ state = [o \in OpIds |-> Absent]
  /\ announced = [o \in OpIds |-> {}]

Request(o) ==
  /\ state[o] = Absent
  /\ state' = [state EXCEPT ![o] = "PENDING"]
  /\ UNCHANGED announced

Move(o, to) ==
  /\ state[o] \in OperationStatuses
  /\ canTransition(state[o], to)
  /\ state' = [state EXCEPT ![o] = to]
  /\ UNCHANGED announced

(* Only the end state of a finished operation is ever published.           *)
Announce(o) ==
  /\ state[o] \in {"SUCCEEDED", "FAILED", "CANCELLED"}
  /\ announced' = [announced EXCEPT ![o] = @ \cup {state[o]}]
  /\ UNCHANGED state

Next ==
  \E o \in OpIds :
    \/ Request(o)
    \/ \E to \in OperationStatuses : Move(o, to)
    \/ Announce(o)

Spec == Init /\ [][Next]_vars

=============================================================================
