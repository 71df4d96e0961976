-------------------------- MODULE MCGameThreadQueues --------------------------
(* Symmetry of the mods and of the addresses.                               *)
EXTENDS GameThreadQueues, TLC

Symmetry == Permutations(Mods) \cup Permutations(Addresses)
=============================================================================
