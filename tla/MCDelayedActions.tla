-------------------------- MODULE MCDelayedActions --------------------------
(* Small instances of DelayedActions for TLC. *)
EXTENDS DelayedActions, TLC

Symmetry == Permutations(Actions) \cup Permutations(Mods)
=============================================================================
