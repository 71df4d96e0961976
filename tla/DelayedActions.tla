--------------------------- MODULE DelayedActions ---------------------------
(***************************************************************************)
(* The delayed-action scheduler of LuaMod: the timers that Lua mods create *)
(* with ExecuteInGameThreadWithDelay, LoopInGameThreadAfterFrames and so   *)
(* on, the calls that control them, and the engine_tick_hook and           *)
(* process_event_hook passes that run them on the game thread.             *)
(*                                                                         *)
(* Time is relative: "left" is execute_at minus now for a time-based       *)
(* action, never below zero and frozen while the action is paused          *)
(* (time_remaining_ms), and frames_remaining for a frame-based one.        *)
(* m_game_thread_actions and the NotifyOnNewObject queue, which the same   *)
(* hooks process, appear as one optional Lua callback each: what matters   *)
(* here is that Lua runs at that point, with or without the mutex.         *)
(***************************************************************************)
EXTENDS Naturals, Sequences, FiniteSets, Vectors

CONSTANTS
    Actions,      \* identities of DelayedGameThreadAction objects
    Mods,         \* the Lua mods
    NoMod,        \* owner of an action that was never created
    Hooks,        \* game-thread hooks that are available and registered
    DefaultHook,  \* m_default_game_thread_method, after the fallback
    Delays,       \* delays (ms or frames) that mods pass
    UnlockedMake, \* mods call MakeActionHandle in ExecuteInGameThread callbacks
    MaxHandle,    \* bound on m_next_delayed_action_handle
    MaxCalls,     \* bound on the API calls of a behaviour
    MaxDepth      \* bound on the nesting of hook passes

ASSUME ConstantsAssumption ==
    /\ NoMod \notin Mods
    /\ Hooks \subseteq {"EngineTick", "ProcessEvent"}
    /\ DefaultHook \in Hooks
    /\ Delays \subseteq Nat
    /\ UnlockedMake \in BOOLEAN
    /\ MaxHandle \in Nat
    /\ MaxCalls \in Nat
    /\ MaxDepth \in Nat \ {0}

VARIABLES
    act,         \* the fields of every action
    delayed,     \* m_delayed_game_thread_actions, in vector order
    pending,     \* m_pending_delayed_game_thread_actions
    stack,       \* the hook passes in progress on the game thread
    processing,  \* m_is_processing_actions
    executing,   \* m_is_currently_executing_game_action
    nextHandle,  \* m_next_delayed_action_handle
    made,        \* handles that MakeActionHandle returned
    reading,     \* the counter as an unlocked increment read it, or 0
    unloaded,    \* mods whose uninstall() completed
    calls,       \* API calls still allowed
    started,     \* history: callbacks begun per action (0, 1, or 2 for more)
    dropped      \* history: actions cancelled, cleared or uninstalled

vars == <<act, delayed, pending, stack, processing, executing, nextHandle,
          made, reading, unloaded, calls, started, dropped>>
handles == <<nextHandle, made, reading>>
queues == <<delayed, pending>>
history == <<started, dropped>>

Live == {"Active", "Paused", "Executing"}
Statuses == Live \cup {"Free", "PendingRemoval", "Gone"}
Stages == {"enter", "simple", "select", "delayed", "settled", "notify", "drain"}

ActionRecord ==
    [status : Statuses, owner : Mods \cup {NoMod}, handle : Nat,
     method : {"EngineTick", "ProcessEvent"}, looping : BOOLEAN,
     frames : BOOLEAN, rate : Nat, left : Nat, pauseAfter : BOOLEAN]

\* ReadyDelayedExec: the position and the function reference of an action
\* that phase 1 selected.
ReadyExec == [index : Nat \ {0}, ref : Actions]

Frame == [hook : {"EngineTick", "ProcessEvent"}, stage : Stages,
          ready : SUBSET ReadyExec, ran : SUBSET ReadyExec, running : BOOLEAN]

Blank == [status |-> "Free", owner |-> NoMod, handle |-> 0,
          method |-> DefaultHook, looping |-> FALSE, frames |-> FALSE,
          rate |-> 0, left |-> 0, pauseAfter |-> FALSE]

Init ==
    /\ act = [a \in Actions |-> Blank]
    /\ delayed = <<>>
    /\ pending = <<>>
    /\ stack = <<>>
    /\ processing = FALSE
    /\ executing = FALSE
    /\ nextHandle = 1
    /\ made = {}
    /\ reading = 0
    /\ unloaded = {}
    /\ calls = MaxCalls
    /\ started = [a \in Actions |-> 0]
    /\ dropped = {}

-----------------------------------------------------------------------------
(* The game thread's hook passes and the recursive m_thread_actions_mutex.  *)

Top == stack[Len(stack)]
SetTop(f) == stack' = [stack EXCEPT ![Len(stack)] = f]

\* The innermost pass is running a mod's callback.
InCallback ==
    /\ stack # <<>>
    /\ Top.stage \in {"simple", "notify"} \/ Top.running

\* process_delayed_actions and the NotifyOnNewObject queue hold the mutex
\* while their callbacks run; process_simple_actions does not.
MutexFree == \A i \in DOMAIN stack : stack[i].stage \notin {"delayed", "notify"}

\* Some Lua code can call the API: a callback on top of the game thread's
\* stack, or any other thread or hook when the mutex is free.
LuaCanRun == MutexFree \/ (InCallback /\ reading = 0)

\* A hook begins a pass: from the engine, or because Lua code that runs in a
\* pass calls a UFunction and so re-enters ProcessEvent.
HookEnter(h) ==
    /\ h \in Hooks
    /\ \/ stack = <<>>
       \/ (InCallback /\ reading = 0 /\ h = "ProcessEvent")
    /\ Len(stack) < MaxDepth
    /\ processing' = TRUE
    /\ stack' = Append(stack, [hook |-> h, stage |-> "enter", ready |-> {},
                               ran |-> {}, running |-> FALSE])
    /\ UNCHANGED <<act, queues, executing, handles, unloaded, calls, history>>

\* process_simple_actions runs a callback, unless an outer one is running.
SimpleCallbackBegin ==
    /\ stack # <<>> /\ Top.stage = "enter"
    /\ ~executing
    /\ executing' = TRUE
    /\ SetTop([Top EXCEPT !.stage = "simple"])
    /\ UNCHANGED <<act, queues, processing, handles, unloaded, calls, history>>

SimpleCallbackEnd ==
    /\ stack # <<>> /\ Top.stage = "simple" /\ reading = 0
    /\ executing' = FALSE
    /\ SetTop([Top EXCEPT !.stage = "select"])
    /\ UNCHANGED <<act, queues, processing, handles, unloaded, calls, history>>

-----------------------------------------------------------------------------
(* process_delayed_actions<Executor>, in its three phases.                  *)

\* Slip: phase 1 stops at the first action instead of passing over it.
ExaminedFirstOnly(a) ==
    /\ delayed # <<>> /\ a = delayed[1]
    /\ act[a].status = "Active"
    /\ act[a].method = Top.hook

\* Phase 1 looks at the action: it is in the vector, belongs to this hook and
\* waits for its delay.
Examined(a) ==
    /\ a \in {delayed[i] : i \in DOMAIN delayed}
    /\ act[a].status = "Active"
    /\ act[a].method = Top.hook

\* A frame-based action is counted down by this very visit.
Due(a) == IF act[a].frames THEN act[a].left <= 1 ELSE act[a].left = 0

\* Phase 1: count frames down and collect what is due, unless the pass is
\* nested in a running callback.
SelectReady ==
    /\ stack # <<>> /\ Top.stage \in {"enter", "select"}
    /\ LET due == {a \in Actions : Examined(a) /\ Due(a) /\ ~executing}
       IN  /\ act' = [a \in Actions |->
                 IF a \in due
                 THEN [act[a] EXCEPT !.status = "Executing", !.left = 0]
                 ELSE IF Examined(a) /\ act[a].frames /\ act[a].left > 0
                 THEN [act[a] EXCEPT !.left = @ - 1]
                 ELSE act[a]]
           /\ SetTop([Top EXCEPT !.stage = "delayed",
                        !.ready = {[index |-> i, ref |-> delayed[i]] :
                                      i \in {j \in DOMAIN delayed : delayed[j] \in due}}])
    /\ UNCHANGED <<queues, processing, executing, handles, unloaded, calls, history>>

\* Phase 2: call the collected functions in vector order.
RunNext ==
    /\ stack # <<>> /\ Top.stage = "delayed" /\ ~Top.running
    /\ ~executing
    /\ \E r \in Top.ready \ Top.ran :
          /\ \A s \in Top.ready \ Top.ran : r.index <= s.index
          /\ SetTop([Top EXCEPT !.ran = @ \cup {r}, !.running = TRUE])
          /\ started' = [started EXCEPT ![r.ref] = IF @ = 2 THEN 2 ELSE @ + 1]
    /\ executing' = TRUE
    /\ UNCHANGED <<act, queues, processing, handles, unloaded, calls, dropped>>

CallbackReturn ==
    /\ stack # <<>> /\ Top.stage = "delayed" /\ Top.running
    /\ executing' = FALSE
    /\ SetTop([Top EXCEPT !.running = FALSE])
    /\ UNCHANGED <<act, queues, processing, handles, unloaded, calls, history>>

\* Slip: every action is re-armed like a loop.
SettledAllLoop(x) ==
    IF x.status = "PendingRemoval" THEN x
    ELSE [x EXCEPT !.left = x.rate, !.status = "Active"]

\* Phase 3 on the action found at a collected position.
Settled(x) ==
    IF x.status = "PendingRemoval" THEN x
    ELSE IF x.pauseAfter
    THEN [x EXCEPT !.pauseAfter = FALSE, !.left = x.rate, !.status = "Paused"]
    ELSE IF x.looping
    THEN [x EXCEPT !.left = x.rate, !.status = "Active"]
    ELSE [x EXCEPT !.status = "PendingRemoval"]

\* Slip: positions are taken one too far.
PositionsOffByOne(f) == {r.index + 1 : r \in f.ready}

\* The positions phase 3 visits, and the actions it finds there.
Positions(f) == {r.index : r \in f.ready}

Found(f) == {delayed[i] : i \in Positions(f) \cap DOMAIN delayed}

\* Phase 3: settle the actions at the collected positions, then erase from
\* the vector whatever is marked PendingRemoval and drop its reference.
FinishBatch ==
    /\ stack # <<>> /\ Top.stage = "delayed" /\ ~Top.running
    /\ Top.ready = Top.ran
    /\ LET settled == [a \in Actions |-> IF a \in Found(Top) THEN Settled(act[a]) ELSE act[a]]
           erased == {a \in {delayed[i] : i \in DOMAIN delayed} :
                         settled[a].status = "PendingRemoval"}
       IN  /\ delayed' \in Kept(delayed, Actions \ erased)
           /\ act' = [a \in Actions |->
                 IF a \in erased THEN [settled[a] EXCEPT !.status = "Gone"] ELSE settled[a]]
    /\ SetTop([Top EXCEPT !.stage = "settled", !.ready = {}, !.ran = {}])
    /\ UNCHANGED <<pending, processing, executing, handles, unloaded, calls, history>>

-----------------------------------------------------------------------------
(* The rest of the pass.                                                     *)

NotifyCallbackBegin ==
    /\ stack # <<>> /\ Top.stage = "settled"
    /\ SetTop([Top EXCEPT !.stage = "notify"])
    /\ UNCHANGED <<act, queues, processing, executing, handles, unloaded, calls, history>>

NotifyCallbackEnd ==
    /\ stack # <<>> /\ Top.stage = "notify"
    /\ SetTop([Top EXCEPT !.stage = "drain"])
    /\ UNCHANGED <<act, queues, processing, executing, handles, unloaded, calls, history>>

\* Slip: the pending vector is copied and not cleared.
HookExitWithoutClear ==
    /\ stack # <<>> /\ Top.stage \in {"settled", "drain"}
    /\ processing' = FALSE
    /\ delayed' = delayed \o pending
    /\ stack' = SubSeq(stack, 1, Len(stack) - 1)
    /\ UNCHANGED <<act, pending, executing, handles, unloaded, calls, history>>

\* Slip: the flag stays set.
HookExitKeepsFlag ==
    /\ stack # <<>> /\ Top.stage \in {"settled", "drain"}
    /\ delayed' = delayed \o pending
    /\ pending' = <<>>
    /\ stack' = SubSeq(stack, 1, Len(stack) - 1)
    /\ UNCHANGED <<act, processing, executing, handles, unloaded, calls, history>>

\* Slip: the pending vector is not drained.
HookExitWithoutDrain ==
    /\ stack # <<>> /\ Top.stage \in {"settled", "drain"}
    /\ processing' = FALSE
    /\ stack' = SubSeq(stack, 1, Len(stack) - 1)
    /\ UNCHANGED <<act, queues, executing, handles, unloaded, calls, history>>

\* The end of a pass clears the flag and drains the pending vector.
HookExit ==
    /\ stack # <<>> /\ Top.stage \in {"settled", "drain"}
    /\ processing' = FALSE
    /\ delayed' = delayed \o pending
    /\ pending' = <<>>
    /\ stack' = SubSeq(stack, 1, Len(stack) - 1)
    /\ UNCHANGED <<act, executing, handles, unloaded, calls, history>>

\* The steady clock advances by one millisecond.
Clock ==
    LET waiting == {a \in Actions : /\ act[a].status \in {"Active", "Executing"}
                                    /\ ~act[a].frames
                                    /\ act[a].left > 0}
    IN  /\ waiting # {}
        /\ act' = [a \in Actions |-> IF a \in waiting THEN [act[a] EXCEPT !.left = @ - 1]
                                                      ELSE act[a]]
        /\ UNCHANGED <<queues, stack, processing, executing, handles,
                       unloaded, calls, history>>

-----------------------------------------------------------------------------
(* The API. Every operation runs under the mutex, so it is one step.         *)

ApiCall(m) ==
    /\ calls > 0
    /\ m \in Mods \ unloaded
    /\ LuaCanRun
    /\ calls' = calls - 1
    /\ UNCHANGED <<stack, processing, executing, unloaded, started>>

\* emplace_back into the vector, or into the pending one during a pass.
Enqueue(a, x) ==
    /\ act[a].status = "Free"
    /\ act' = [act EXCEPT ![a] = x]
    /\ delayed' = IF processing THEN delayed ELSE Append(delayed, a)
    /\ pending' = IF processing THEN Append(pending, a) ELSE pending

\* Slip: the lookup covers the main vector only.
WithHandleInMain(h) ==
    {a \in {delayed[i] : i \in DOMAIN delayed} : act[a].status \in Live /\ act[a].handle = h}

\* Live actions with handle h: the lookups over both vectors find these, and
\* skip what is marked PendingRemoval.
WithHandle(h) == {a \in Actions : act[a].status \in Live /\ act[a].handle = h}

TimedAction(m, h, d, loop) ==
    [Blank EXCEPT !.status = "Active", !.owner = m, !.handle = h,
                  !.looping = loop, !.rate = d, !.left = d]

\* Slip: the frame of the call is counted.
FrameActionShort(m, h, n, loop) ==
    [TimedAction(m, h, n, loop) EXCEPT !.method = "EngineTick", !.frames = n > 0,
                                       !.left = n - 1]

\* delay_frames = 0 makes the action time-based and already due.
FrameAction(m, h, n, loop) ==
    [TimedAction(m, h, n, loop) EXCEPT !.method = "EngineTick", !.frames = n > 0]

TakeHandle == nextHandle <= MaxHandle /\ nextHandle' = nextHandle + 1

MakeActionHandle(m) ==
    /\ ApiCall(m)
    /\ TakeHandle
    /\ made' = made \cup {nextHandle}
    /\ UNCHANGED <<act, queues, reading, dropped>>

\* MakeActionHandle takes no lock of its own and process_simple_actions holds
\* none, so that in its callbacks the increment races with the other threads.
UnlockedMakeRead(m) ==
    /\ UnlockedMake
    /\ calls > 0 /\ nextHandle <= MaxHandle
    /\ m \in Mods \ unloaded
    /\ stack # <<>> /\ Top.stage = "simple" /\ reading = 0
    /\ reading' = nextHandle
    /\ calls' = calls - 1
    /\ UNCHANGED <<act, queues, stack, processing, executing, nextHandle, made, unloaded, history>>

UnlockedMakeWrite ==
    /\ reading # 0
    /\ nextHandle' = reading + 1
    /\ made' = made \cup {reading}
    /\ reading' = 0
    /\ UNCHANGED <<act, queues, stack, processing, executing, unloaded, calls, history>>

\* ExecuteInGameThreadWithDelay(delayMs, callback) and LoopInGameThreadWithDelay.
CreateTimed(m, d, loop) ==
    /\ ApiCall(m)
    /\ TakeHandle
    /\ \E a \in Actions : Enqueue(a, TimedAction(m, nextHandle, d, loop))
    /\ UNCHANGED <<made, reading, dropped>>

\* ExecuteInGameThreadAfterFrames and LoopInGameThreadAfterFrames.
CreateFramed(m, n, loop) ==
    /\ "EngineTick" \in Hooks
    /\ ApiCall(m)
    /\ TakeHandle
    /\ \E a \in Actions : Enqueue(a, FrameAction(m, nextHandle, n, loop))
    /\ UNCHANGED <<made, reading, dropped>>

\* ExecuteInGameThreadWithDelay(handle, delayMs, callback): no effect while
\* a live action has the handle.
CreateWithHandle(m, h, d) ==
    /\ ApiCall(m)
    /\ h \in made
    /\ WithHandle(h) = {}
    /\ \E a \in Actions : Enqueue(a, TimedAction(m, h, d, FALSE))
    /\ UNCHANGED <<handles, dropped>>

\* RetriggerableExecuteInGameThreadWithDelay: restart the live action with
\* the handle, whoever owns it, or create one.
Retrigger(m, h, d) ==
    /\ ApiCall(m)
    /\ h \in made
    /\ IF WithHandle(h) # {}
       THEN /\ \E a \in WithHandle(h) :
                  act' = [act EXCEPT ![a].rate = d, ![a].left = d, ![a].status = "Active"]
            /\ UNCHANGED queues
       ELSE \E a \in Actions : Enqueue(a, TimedAction(m, h, d, FALSE))
    /\ UNCHANGED <<handles, dropped>>

\* The control calls look for a live action of the calling mod.
Own(m, a) == act[a].owner = m /\ act[a].status \in Live

ResetDelayedActionTimer(m, a) ==
    /\ ApiCall(m)
    /\ Own(m, a)
    /\ act' = [act EXCEPT ![a].left = act[a].rate, ![a].status = "Active"]
    /\ UNCHANGED <<queues, handles, dropped>>

\* A frame-based action set to 0 frames becomes a time-based one that is due.
SetDelayedActionTimer(m, a, d) ==
    /\ ApiCall(m)
    /\ Own(m, a)
    /\ act' = [act EXCEPT ![a].rate = d, ![a].left = d, ![a].status = "Active",
                          ![a].frames = @ /\ d > 0]
    /\ UNCHANGED <<queues, handles, dropped>>

\* A loop that is executing is paused when its callback has returned.
PauseDelayedAction(m, a) ==
    /\ ApiCall(m)
    /\ act[a].owner = m
    /\ \/ /\ act[a].status = "Active"
          /\ act' = [act EXCEPT ![a].status = "Paused"]
       \/ /\ act[a].status = "Executing" /\ act[a].looping
          /\ act' = [act EXCEPT ![a].pauseAfter = TRUE]
    /\ UNCHANGED <<queues, handles, dropped>>

UnpauseDelayedAction(m, a) ==
    /\ ApiCall(m)
    /\ act[a].owner = m /\ act[a].status = "Paused"
    /\ act' = [act EXCEPT ![a].status = "Active"]
    /\ UNCHANGED <<queues, handles, dropped>>

\* Slip: the action is erased at once instead of being marked.
CancelErasingAtOnce(m, a) ==
    /\ ApiCall(m)
    /\ Own(m, a)
    /\ delayed' \in Kept(delayed, Actions \ {a})
    /\ pending' \in Kept(pending, Actions \ {a})
    /\ act' = [act EXCEPT ![a].status = "Gone"]
    /\ dropped' = dropped \cup {a}
    /\ UNCHANGED handles

CancelDelayedAction(m, a) ==
    /\ ApiCall(m)
    /\ Own(m, a)
    /\ act' = [act EXCEPT ![a].status = "PendingRemoval"]
    /\ dropped' = dropped \cup {a}
    /\ UNCHANGED <<queues, handles>>

ClearAllDelayedActions(m) ==
    /\ ApiCall(m)
    /\ LET mine == {a \in Actions : Own(m, a)}
       IN  /\ mine # {}
           /\ act' = [a \in Actions |->
                 IF a \in mine THEN [act[a] EXCEPT !.status = "PendingRemoval"] ELSE act[a]]
           /\ dropped' = dropped \cup mine
    /\ UNCHANGED <<queues, handles>>

\* Slip: uninstall without the mutex.
UninstallUnlocked(m) ==
    /\ m \in Mods \ unloaded
    /\ LET mine == {a \in Actions : act[a].owner = m /\ act[a].status # "Gone"}
       IN  /\ delayed' \in Kept(delayed, Actions \ mine)
           /\ pending' \in Kept(pending, Actions \ mine)
           /\ act' = [a \in Actions |->
                 IF a \in mine THEN [act[a] EXCEPT !.status = "Gone"] ELSE act[a]]
           /\ dropped' = dropped \cup mine
    /\ unloaded' = unloaded \cup {m}
    /\ UNCHANGED <<stack, processing, executing, handles, calls, started>>

\* LuaMod::uninstall, on the thread that unloads mods: under the mutex it
\* erases the mod's actions from both vectors and closes its Lua state.
Uninstall(m) ==
    /\ m \in Mods \ unloaded
    /\ MutexFree
    /\ LET mine == {a \in Actions : act[a].owner = m /\ act[a].status # "Gone"}
       IN  /\ delayed' \in Kept(delayed, Actions \ mine)
           /\ pending' \in Kept(pending, Actions \ mine)
           /\ act' = [a \in Actions |->
                 IF a \in mine THEN [act[a] EXCEPT !.status = "Gone"] ELSE act[a]]
           /\ dropped' = dropped \cup mine
    /\ unloaded' = unloaded \cup {m}
    /\ UNCHANGED <<stack, processing, executing, handles, calls, started>>

-----------------------------------------------------------------------------

GameThread ==
    \/ \E h \in Hooks : HookEnter(h)
    \/ SimpleCallbackBegin
    \/ SimpleCallbackEnd
    \/ SelectReady
    \/ RunNext
    \/ CallbackReturn
    \/ FinishBatch
    \/ NotifyCallbackBegin
    \/ NotifyCallbackEnd
    \/ HookExit
    \/ UnlockedMakeWrite

Api ==
    \E m \in Mods :
        \/ MakeActionHandle(m)
        \/ UnlockedMakeRead(m)
        \/ \E d \in Delays, loop \in BOOLEAN : CreateTimed(m, d, loop)
        \/ \E d \in Delays, loop \in BOOLEAN : CreateFramed(m, d, loop)
        \/ \E h \in made, d \in Delays : CreateWithHandle(m, h, d)
        \/ \E h \in made, d \in Delays : Retrigger(m, h, d)
        \/ \E a \in Actions : ResetDelayedActionTimer(m, a)
        \/ \E a \in Actions, d \in Delays : SetDelayedActionTimer(m, a, d)
        \/ \E a \in Actions : PauseDelayedAction(m, a)
        \/ \E a \in Actions : UnpauseDelayedAction(m, a)
        \/ \E a \in Actions : CancelDelayedAction(m, a)
        \/ ClearAllDelayedActions(m)
        \/ Uninstall(m)

Next == GameThread \/ Api \/ Clock

Spec == Init /\ [][Next]_vars

\* The engine keeps ticking and callbacks return. Nothing obliges a mod to
\* call the API, or a simple or a NotifyOnNewObject callback to be queued.
Fairness ==
    /\ WF_vars(HookEnter("EngineTick"))
    /\ WF_vars(SimpleCallbackEnd)
    /\ WF_vars(SelectReady)
    /\ WF_vars(RunNext)
    /\ WF_vars(CallbackReturn)
    /\ WF_vars(FinishBatch)
    /\ WF_vars(NotifyCallbackEnd)
    /\ WF_vars(HookExit)
    /\ WF_vars(Clock)

FairSpec == Spec /\ Fairness

-----------------------------------------------------------------------------
(* Properties.                                                               *)

TypeOK ==
    /\ act \in [Actions -> ActionRecord]
    /\ delayed \in Seq(Actions)
    /\ pending \in Seq(Actions)
    /\ stack \in Seq(Frame)
    /\ processing \in BOOLEAN
    /\ executing \in BOOLEAN
    /\ nextHandle \in Nat \ {0}
    /\ made \in SUBSET Nat
    /\ reading \in Nat
    /\ unloaded \in SUBSET Mods
    /\ calls \in Nat
    /\ started \in [Actions -> 0 .. 2]
    /\ dropped \in SUBSET Actions

\* A handle names at most one live action, whether it was generated by the
\* call or passed in, and whichever of the two vectors the action is in: the
\* lookups of every control call stop at the first match.
UniqueHandles ==
    \A a, b \in Actions :
        /\ act[a].status \in Live
        /\ act[b].status \in Live
        /\ act[a].handle = act[b].handle
        => a = b

\* The two vectors hold every action that was created and not yet erased,
\* once: none is lost or duplicated by the drain, the erasures and uninstall.
QueuesHoldLiveActions ==
    LET both == delayed \o pending
    IN  /\ {both[i] : i \in DOMAIN both}
              = {a \in Actions : act[a].status \notin {"Free", "Gone"}}
        /\ \A i, j \in DOMAIN both : both[i] = both[j] => i = j

\* What was created during a pass does not stay in the pending vector when no
\* pass is in progress that would drain it.
PendingIsDrained == pending # <<>> \/ processing => stack # <<>>

\* While a batch of callbacks runs, the positions it collected still designate
\* the actions it collected: phase 3 settles the actions that ran.
ReadyPositionsStable ==
    \A i \in DOMAIN stack : \A r \in stack[i].ready :
        r.index \in DOMAIN delayed /\ delayed[r.index] = r.ref

\* A batch never calls a function whose registry reference was given back.
NoReleasedCallback ==
    \A i \in DOMAIN stack : \A r \in stack[i].ready \ stack[i].ran :
        act[r.ref].status # "Gone"

\* An action marked Executing is one that a batch in progress collected, so
\* that something will take it out of that status.
ExecutingIsInBatch ==
    \A a \in Actions : act[a].status = "Executing" =>
        \E i \in DOMAIN stack : \E r \in stack[i].ready : r.ref = a

\* An action leaves the scheduler only after its callback was called, unless
\* its mod cancelled it or was uninstalled.
NotLostBeforeRunning ==
    \A a \in Actions : act[a].status = "Gone" /\ a \notin dropped => started[a] > 0

\* A one-shot action runs at most once, however often it is reset, set,
\* paused or retriggered.
OneShotRunsOnce ==
    \A a \in Actions : ~act[a].looping => started[a] <= 1

\* Once its mod leaves it alone, a one-shot action ends or is held by a pause.
OneShotEnds ==
    \A a \in Actions :
        act[a].status = "Active" /\ ~act[a].looping ~> act[a].status \in {"Gone", "Paused"}

\* A loop keeps being called for as long as it is neither paused nor removed.
LoopKeepsRunning ==
    \A a \in Actions :
        act[a].status = "Active" /\ act[a].looping
            ~> act[a].status \in {"Executing", "Paused", "PendingRemoval", "Gone"}
=============================================================================
