---------------------------- MODULE MCScriptHooks ----------------------------
(* Symmetry of the mods.                                                    *)
EXTENDS ScriptHooks, TLC

Symmetry == Permutations(Mods)
=============================================================================
