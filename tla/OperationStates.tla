--------------------------- MODULE OperationStates ---------------------------
(***************************************************************************)
(* The statuses of a server operation and the table of legal moves between *)
(* them, as modules/domain/operations.ts of server-service defines them.   *)
(***************************************************************************)

InFlightStatuses == {"PENDING", "DELIVERED", "RUNNING"}
TerminalStatuses == {"SUCCEEDED", "FAILED", "CANCELLED", "EXPIRED"}
OperationStatuses == InFlightStatuses \cup TerminalStatuses

(* A row that has not been inserted yet.                                   *)
Absent == "ABSENT"

TRANSITIONS ==
  [PENDING   |-> {"DELIVERED", "CANCELLED", "EXPIRED"},
   DELIVERED |-> {"RUNNING"} \cup TerminalStatuses,
   RUNNING   |-> {"SUCCEEDED", "FAILED", "EXPIRED"},
   SUCCEEDED |-> {},
   FAILED    |-> {},
   CANCELLED |-> {},
   EXPIRED   |-> {}]

canTransition(from, to) == to \in TRANSITIONS[from]

=============================================================================
