------------------------------ MODULE MCVault ------------------------------
(***************************************************************************)
(* Three processes in the middle of a key change, on an instance TLC can   *)
(* exhaust: one has not heard of the new key, one knows it and one uses it *)
(* and has a newer one in store.                                           *)
(***************************************************************************)
EXTENDS Vault, TLC

CONSTANTS old, mid, new, plain, padded

MCStore == {old, mid, new}
MCKey == 1..3
MCRing == (old :> {1}) @@ (mid :> {1, 2}) @@ (new :> {1, 2, 3})
MCCurrent == (old :> 1) @@ (mid :> 1) @@ (new :> 2)

\* A kind as it should be, and the same one with a blank before it.
MCKind == {plain, padded}
MCTrim == (plain :> plain) @@ (padded :> plain)

Symmetry == Permutations(Secret) \cup Permutations(Org) \cup Permutations(Call)
=============================================================================
