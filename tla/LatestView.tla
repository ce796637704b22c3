----------------------------- MODULE LatestView -----------------------------
(***************************************************************************)
(* What a page that shows one selection at a time promises: it shows what  *)
(* is selected at the moment it shows it, and only because it asked.       *)
(***************************************************************************)
CONSTANTS Selections, None

VARIABLES wanted, shown, asking

vars == <<wanted, shown, asking>>

Init == wanted = None /\ shown = None /\ ~asking

Want(k) == wanted' = k /\ asking' /\ UNCHANGED shown

Ask == wanted # None /\ asking' /\ UNCHANGED <<wanted, shown>>

Show == asking /\ shown' = wanted /\ ~asking' /\ UNCHANGED wanted

\* An answer that brings nothing leaves what was there, or nothing.
Miss == asking /\ shown' \in {shown, None} /\ ~asking' /\ UNCHANGED wanted

Leave == wanted' = None /\ shown' = None /\ ~asking'

Next == (\E k \in Selections : Want(k)) \/ Ask \/ Show \/ Miss \/ Leave

Spec == Init /\ [][Next]_vars
=============================================================================
