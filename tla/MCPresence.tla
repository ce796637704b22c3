------------------------------ MODULE MCPresence ------------------------------
(* TLC's model of Presence.                                                *)
EXTENDS Presence
=============================================================================
