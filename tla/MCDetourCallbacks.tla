-------------------------- MODULE MCDetourCallbacks --------------------------
(* Symmetry and sets of registration options for TLC.                       *)
EXTENDS DetourCallbacks, TLC

Symmetry == Permutations(Callbacks) \cup Permutations(Threads)

Plain(type) == [type |-> type, once |-> FALSE, readonly |-> FALSE]

\* One of each attribute, and both types.
EachOption == {Plain("pre"), Plain("post"), [Plain("pre") EXCEPT !.once = TRUE],
               [Plain("pre") EXCEPT !.readonly = TRUE]}

\* A lasting readonly pre-hook and a once post-hook.
TwoOptions == {[Plain("pre") EXCEPT !.readonly = TRUE], [Plain("post") EXCEPT !.once = TRUE]}
=============================================================================
