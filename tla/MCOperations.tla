----------------------------- MODULE MCOperations -----------------------------
(* The instances of Operations that TLC checks.                            *)
EXTENDS Operations, TLC

(* Handlers are interchangeable: no property is about a particular one.    *)
Handlers == Permutations(Requests)

=============================================================================
