------------------------------ MODULE MCOutbox ------------------------------
(* Two dispatchers, two events: Outbox on an instance TLC can exhaust. *)
EXTENDS Outbox, TLC

Symmetry == Permutations(Event) \cup Permutations(Worker)
=============================================================================
