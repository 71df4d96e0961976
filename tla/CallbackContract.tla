--------------------------- MODULE CallbackContract ---------------------------
(***************************************************************************)
(* What a detour promises about each callback registered with it, without  *)
(* vectors, flags, locks or threads: a callback is called only between its *)
(* registration and its retirement, and once the removal of a callback has *)
(* been answered, it neither runs nor starts to run.                       *)
(***************************************************************************)
EXTENDS Naturals

CONSTANT Callbacks

VARIABLES
    life,      \* the stage of every callback
    running,   \* how many invocations are executing it
    answered   \* callbacks whose removal returned true

contract == <<life, running, answered>>

Init ==
    /\ life = [c \in Callbacks |-> "unknown"]
    /\ running = [c \in Callbacks |-> 0]
    /\ answered = {}

Register(c) ==
    /\ life[c] = "unknown"
    /\ life' = [life EXCEPT ![c] = "registered"]
    /\ UNCHANGED <<running, answered>>

\* A callback that may run only once is retired as it begins.
Begin(c) ==
    /\ life[c] = "registered"
    /\ running' = [running EXCEPT ![c] = @ + 1]
    /\ \E stage \in {"registered", "retired"} : life' = [life EXCEPT ![c] = stage]
    /\ UNCHANGED answered

End(c) ==
    /\ running[c] > 0
    /\ running' = [running EXCEPT ![c] = @ - 1]
    /\ UNCHANGED <<life, answered>>

\* Removed by its owner, by itself, or because it threw.
Retire(c) ==
    /\ life[c] = "registered"
    /\ life' = [life EXCEPT ![c] = "retired"]
    /\ UNCHANGED <<running, answered>>

Answer(c) ==
    /\ life[c] = "retired"
    /\ running[c] = 0
    /\ answered' = answered \cup {c}
    /\ UNCHANGED <<life, running>>

Next == \E c \in Callbacks :
            Register(c) \/ Begin(c) \/ End(c) \/ Retire(c) \/ Answer(c)

Spec == Init /\ [][Next]_contract
=============================================================================
