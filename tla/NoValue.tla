------------------------------- MODULE NoValue -------------------------------
(* Nothing: null and undefined in the code.                                *)
CONSTANT None
=============================================================================
