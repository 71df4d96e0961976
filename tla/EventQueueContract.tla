-------------------------- MODULE EventQueueContract --------------------------
(***************************************************************************)
(* What UE4SSProgram::queue_event promises once it has accepted an event:  *)
(* events run one at a time, each once, in the order they were accepted,   *)
(* and none is dropped.                                                    *)
(***************************************************************************)
EXTENDS Naturals, Sequences

CONSTANTS Events, NoEvent

VARIABLES
    pending,   \* accepted events that have not begun
    current    \* the event that is running, or has just run

contract == <<pending, current>>

Init ==
    /\ pending = <<>>
    /\ current = NoEvent

Accept ==
    /\ Len(pending') = Len(pending) + 1
    /\ \E e \in Events : pending' = Append(pending, e)
    /\ UNCHANGED current

Run ==
    /\ pending # <<>>
    /\ current' = Head(pending)
    /\ pending' = Tail(pending)

Rest ==
    /\ current' = NoEvent
    /\ UNCHANGED pending

Next == Accept \/ Run \/ Rest

Spec == Init /\ [][Next]_contract
=============================================================================
