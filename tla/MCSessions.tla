------------------------------ MODULE MCSessions ------------------------------
(* The instances of Sessions that TLC checks.                              *)
EXTENDS Sessions, TLC

(* Handlers are ids without an order.                                      *)
Ids == Permutations(Handlers)

=============================================================================
