------------------------------ MODULE MCInventory ------------------------------
(* TLC's model of Inventory.                                               *)
EXTENDS Inventory, TLC

CONSTANTS h1, h2, h3, k1, k2, p1, p2, t1

KeyWork == {"persist", "status", "remove", "install", "rotate"}
ServerWork == {"server.create", "server.patch", "server.remove"}
SpaceWork == {"space.create", "attach", "assign", "space.remove", "tags"}

ServesDef ==
  h1 :> KeyWork \cup SpaceWork @@ h2 :> KeyWork \cup ServerWork @@ h3 :> ServerWork \cup SpaceWork

Say(k, p, tags) == [key |-> k, space |-> p, tags |-> tags]
BodiesDef == {Say(k1, Keep, Keep), Say(None, p1, Keep), Say(Keep, Keep, {t1})}

ServerSymmetry == Permutations(Servers)
=============================================================================
