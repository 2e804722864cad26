---------------------------- MODULE MCInventory ----------------------------
(* Two devices, two identifiers in both orders, two or three requests: Inventory for TLC. *)
EXTENDS Inventory, TLC

CONSTANTS i1, i2

\* One identifier, and two in both orders: the requests that can deadlock.
BothOrders == {<<i1>>, <<i2>>, <<i1, i2>>, <<i2, i1>>}

Symmetry == Permutations(Device) \cup Permutations(Tx) \cup Permutations(Identifier)
=============================================================================
