# Formal verification of UE4SS for Linux (Palworld server)

TLA+ models of the concurrent core of UE4SS, the configurations that check them
with TLC, and theorems about them that TLAPS proves. Paths are relative to the
repository; `LuaMod.cpp` is `UE4SS/src/Mod/LuaMod.cpp`, `DetourInstance.hpp` is
`deps/first/Unreal/include/Unreal/Hooks/Internal/DetourInstance.hpp`.

## 1. The system and its parts

UE4SS is a shared object preloaded into a game server. It finds the engine's
functions in memory, detours some of them, and runs Lua and C++ mods from these
detours and from threads of its own. What can go wrong is concentrated in one
place: mod code is run by several threads, calls back into the machinery that
runs it, and may be unloaded at any time.

| Part | State | Operations | Interaction | Hard behaviour | What makes it correct |
|---|---|---|---|---|---|
| Delayed game-thread actions (`LuaMod.cpp` 4085-4290, 4600-5770) | `m_delayed_game_thread_actions`, its pending vector, `m_is_processing_actions`, `m_is_currently_executing_game_action`, the handle counter | create (ms, frames, loop, given handle), retrigger, reset, set, pause, unpause, cancel, clear; the three-phase `process_delayed_actions` | runs in the `engine_tick_hook` and `process_event_hook` callbacks of the detours; callbacks call the same API | callbacks change the vector that is iterated; nested passes through ProcessEvent; uninstall from another thread | handles unique; a batch's positions and references stay right; an action runs when due, once, and never after it was cancelled |
| Simple game-thread actions (`ExecuteInGameThread`) | `m_game_thread_actions` and pending vectors | queue, `process_simple_actions` | same passes, but callbacks run without `m_thread_actions_mutex` | uninstall against a running callback; deferral while another callback runs | FIFO, exactly once, never after uninstall |
| NotifyOnNewObject queue | triples (callback, object index, serial) | object listener queues, the pass runs | listener on any thread, pass on the game thread | object replaced before its notification; uninstall clears the whole queue | each live object notified, no other |
| Async actions | `m_pending_actions`, `m_delayed_actions`, the mod's thread | `ExecuteAsync`, `LoopAsync`, `update_async` | own thread per mod, joined by uninstall | join while a callback waits for a lock | each runs; uninstall returns |
| Detour callbacks (`DetourInstance.hpp`, `Metadata.hpp`) | `PreHookCallbacks`, `PostHookCallbacks`, `bDirty`, packed `State` of each callback | `AddCallback`, `RemoveCallback`, `CollectGarbage`, `Invoke`, `RemoveSelf`, `TrySetReturnValue`, `PreventOriginalFunctionCall` | game threads call, mods register, a collector thread prunes | lock-free readers, recursion, exceptions | no registration lost; removal final; once means once; garbage collected |
| Script hooks (`RegisterHook`) | callback maps of a UFunction | register, unregister, run | in ProcessEvent | removal while running | removed hooks do not run |
| LuaMod lifecycle | the Lua states, global hook ids | `start_mod`, `uninstall` | event loop, mods themselves | uninstall against running Lua | nothing runs in a closed Lua state |
| Update loop and event queue (`UE4SSProgram.cpp`) | `m_queued_events`, `m_pause_events_processing` | `queue_event`, `update`, reinstall, uninstall | holds `m_event_queue_mutex` while events run | two locks in opposite orders; drops; five events per pass | FIFO, no deadlock, a queued event runs |
| Filesystem watcher and `Sync` | a four-state atomic | request, process, complete | watcher thread and event loop | a late store, spurious reuse | at most one of the two runs |
| Bootstrap, vtable sweep, object listeners, Lua bindings, GUI, debugger, input, crash dumper, settings, generators | - | - | - | - | listed with the reason in section 8 |

## 2. Plan

Most important first. Modules 1 to 6 exist.

1. `DelayedActions`: the scheduler, with every API call, nesting and uninstall.
   Proofs: type correctness, the two vectors, unique handles, safety of a batch,
   one-shots run once. **Done.**
2. `CallbackContract`: what a detour promises about a callback. Its theorem.
   **Done.**
3. `DetourCallbacks`: the lock-free implementation, proved to refine 2, with its
   safety properties. **Done.**
4. `EventQueueContract` and `UpdateLoop`: event queue, pause flag, mod instances,
   async threads and the `Sync` handshake, composed around the two mutexes,
   checked to implement the queue. **Done,** all safety properties proved, and the
   refinement.
5. `GameThreadQueues`: simple actions with deferral and uninstall without the
   mutex, and the NotifyOnNewObject queue with index and serial number. **Done,**
   all safety properties proved.
6. `ScriptHooks`: the callback maps of a native UFunction,
   `scheduled_for_removal` and `bIsMidExecution`. **Done,** all properties proved.
7. `TimerContract`: an abstract timer (created, due, run, ended) that
   `DelayedActions` implements where passes do not nest.
8. The list of async actions with its delays (`m_delayed_actions`,
   `m_pending_actions` under `m_actions_lock`), as a module of its own.
9. Proofs for the modules 7 and 8. No safety property of the modules that exist is
   left without a theorem.

## 3. Modules

| Module | Content |
|---|---|
| `Vectors` | `Kept`, what `erase_if` leaves of a vector; extended by `DelayedActions` and `GameThreadQueues` |
| `DelayedActions` | the delayed-action scheduler; `MCDelayedActions` adds symmetry |
| `DelayedActionsProofs` | `TypeCorrect`, `QueuesComplete`, `PendingServed`, `HandlesUnique` |
| `DelayedBatchProofs` | `BatchesSafe`, `ReferencesHeld`, `NothingLost`, `OneShotsOnce` |
| `CallbackContract` | the abstract promise of a detour |
| `CallbackContractProofs` | `AnsweredStaysQuiet` |
| `DetourCallbacks` | detour vectors, callback State and collector, an implementation of `CallbackContract`; `MCDetourCallbacks` adds symmetry and sets of options |
| `DetourStateProofs` | the State of callbacks: `TypeCorrect`, `CountIsExact`, `RemovalIsFinal`, `OnceIsClaimed` |
| `DetourVectorProofs` | the vectors: `NoRegistrationLost`, `GarbageIsAnnounced`, `VerdictIsFinal`, and the refinement `DetourKeepsContract` |
| `EventQueueContract` | the abstract promise of `queue_event` |
| `UpdateLoop` | the loop, the threads around it and the life of mods, an implementation of `EventQueueContract`; `MCUpdateLoop` instantiates it |
| `UpdateLoopProofs` | `WatcherExcludesLoop`, `TypeCorrect`, the refinement `QueueImplemented`, `DeadlocksAreKnown`, `StatesCloseQuietly`, `OneOfEachRuns` |
| `GameThreadQueues` | simple actions and notifications of new objects; `MCGameThreadQueues` adds symmetry |
| `GameThreadQueuesProofs` | `TypeCorrect`, `NotifiedObject`, `CancelledErased`, `ActionsKept`, `ClosedOnlyTaken`, `RunInOrder` |
| `ScriptHooks` | the hooks of one native UFunction; `MCScriptHooks` adds symmetry |
| `ScriptHooksProofs` | `TypeCorrect`, `CallbacksHaveData`, `IteratorsAreKept`, `HooksAreRemoved`, `PostHooksFollow` |

Definitions commented "Slip" belong to no specification: each is an action or
helper as a plausible mistake would have it, and is substituted for the real one
to see that the property it names is able to fail.

### 3.1 DelayedActions

| Model | Code |
|---|---|
| `act[a]` | the fields of a `DelayedGameThreadAction`; `left` is `execute_at` minus now (ms) or `frames_remaining` |
| `delayed`, `pending`, `processing`, `executing`, `nextHandle` | the members of the same meaning, see the comments on VARIABLES |
| `stack` | the hook passes in progress on the game thread; `stage` is the point a pass has reached, `ready` the vector of `ReadyDelayedExec` |
| `HookEnter`, `HookExit` | entry of `engine_tick_hook` / `process_event_hook`; clearing the flag and draining the pending vector |
| `SelectReady`, `RunNext`, `CallbackReturn`, `FinishBatch` | phases 1, 2, 2, 3 of `process_delayed_actions`. Phase 3's settling and `erase_if` are one step: the mutex is held and no Lua runs between them |
| `SimpleCallback*`, `NotifyCallback*` | the two other kinds of Lua that a pass runs: an optional callback without, and with, the mutex |
| API actions | the Lua global functions of the same names, one step each because each runs under the recursive mutex; `LuaCanRun` says where they can occur (on any thread while the mutex is free, or in the innermost callback) |
| `UnlockedMakeRead/Write` | `MakeActionHandle` in an `ExecuteInGameThread` callback: load and store of a plain integer, with no lock |
| `Uninstall` | `LuaMod::uninstall` under the mutex: erase the mod's actions from both vectors, close its state |
| `started`, `dropped` | history, for the properties only |

Assumptions. All hook passes run on one game thread. A hook that several mods
register runs its pass several times: that is more `HookEnter` steps. A pass
nests only through ProcessEvent, because a callback calls a UFunction
(`UE4SS/src/LuaType/LuaUObject.cpp:277`). Handles that are passed in come from
`MakeActionHandle`, as `docs/lua-api/global-functions/delayedactions.md:31` and
`:49` ask, so a retrigger never meets a frame-based action. A mod that is
installed again is another mod. `Hooks` holds the hooks that are available, and
`DefaultHook` is the result of the fallback. Query functions change no state and
are not modelled.

### 3.2 CallbackContract and DetourCallbacks

| Model | Code |
|---|---|
| `cb[c]` | options and packed `State` of a callback (`invalid` bit, `executors`) |
| `pre`, `post` | the immutable vectors behind the atomic shared pointers |
| `bDirty`, `writer` | the flag; the holder of `WriteMutex` |
| `calls[t]` | the stack of invocations of thread t: `snap` is the vector loaded at the start of a phase, `at` the loop's position, `current` the callback being run, `prevented` and `setter` the iteration data |
| `op[t]` | the point between two atomic operations that thread t has reached |
| `AddCallback`, `CommitCallback` | copy under the lock, publication |
| `RemoveCallback`, `RemoveInvalidate`, `MarkDirty`, `RemoveReturn` | look up, `Invalidate`, `bDirty.store(true)`, `WaitForExecutorsToFinish` |
| `CollectGarbage`, `PrunePre`, `PrunePost` | `bDirty.exchange(false)`, then each vector under the lock |
| `Invoke`, `SkipInvalid`, `TryBeginExecution`, `CallbackReturn`, `CallbackThrow`, `Unwind`, `PreHooksDone`, `OriginalReturn`, `InvokeReturn` | `Invoke` and `InvokeCallbacks`: every atomic access to shared state is a step of its own. A throw is `Invalidate`, `bDirty`, `EndExecution`, in that order, and ends the loop |
| `TrySetReturnValue`, `PreventOriginalFunctionCall`, `RemoveSelf` | what a callback does with its iteration data |

Assumptions. A callback object is added once. `RemoveCallback` is called outside
callbacks only: its comment says "NEVER call this, directly or indirectly, from
within a callback". The invalid bits that `AddCallback` looks at while copying
are read at one moment; a later invalidation sets `bDirty` again and is left to
the next pruning. One collector thread serves this detour. The return value is
represented by the callback that set it. Left out: overflow of the 63-bit
executor count, installation of the detour, error returns that change no state,
sharing of a collector by several detours.

The refinement mapping to `CallbackContract`: a callback is "unknown" until its
commit, then "registered", and "retired" when its invalid bit is set; `running`
is its executor count; `answered` are the callbacks whose removal returned true.
`ExecutorsCounted` says separately that the executor count is the number of
executions really in progress, so that the contract speaks of executions and not
of a counter. TLC checks the refinement on the instance of `DetourThreads`;
`DetourKeepsContract` proves it for every one (section 7).

### 3.3 EventQueueContract and UpdateLoop

| Model | Code |
|---|---|
| `m_mods`, `name`, `stage` | the list of mods, and the life of each instance: constructed, started, Lua state closed. A restart makes a new instance |
| `async`, `stopping` | `m_async_thread` of each instance and its stop token |
| `lua` | the recursive `LuaMod::m_thread_actions_mutex`: holder and count |
| `m_queued_events`, `executed`, `m_pause_events_processing` | the members of the same names; `executed` is `num_events_executed` |
| `phase` | the point of `UE4SSProgram::update`; in "events" the loop holds `m_event_queue_mutex` |
| `sync`, `watcher` | the atomic of `Sync`; the polling thread in `ScopedThreadSynchronizer` |
| `agenda[t]` | what thread t has still to do, nearest first; `<<"leave", i>>` is a Lua callback of instance i that t is inside of |
| `RunLua`, `LeaveLua`, `EnterLua`, `GameCallback`, `CheckStop` | Lua of an instance under the mutex: key binds, async passes, detour callbacks, main.lua. It may request a restart or an uninstall, of its own mod by id or of any by name |
| `taken`, `TakeUnlocked`, `UnlockedAsks`, `ReturnUnlocked` | Lua that the game thread calls without the mutex: the callbacks `process_simple_actions` has moved into its local vector (`LuaMod.cpp:3947-3976`), and the post callback of a script hook (`:431`). The first of `taken` is running; it can make requests, and the mods of the others may end meanwhile |
| `Asked`, `AppendEvent` | `queue_event` and the `queue_...` functions: executed at once on the loop thread, ignored before the loop runs, else appended under the queue's mutex |
| `Handling`, `Teardown`, `Birth`, `RestartAll`, `Matching` | what each event does, with its look-ups at the moment it is executed |
| `StopAsync`, `JoinAsync`, `CloseState` | `LuaMod::uninstall`: stop request, join, then erasure and `lua_close` under the mutex |
| `Construct`, `ChangeMods`, `StartMod` | the constructor, with the next id; `delete_mod`, `m_mods.clear`, a new element, replacement in place; `start_mod` |
| `ScanMods` | the scan of the mods directory, which lists missing mods in any order; each is created and started before the next |
| `StartLoop`, `Fetch`, `RunEvent`, `EndBatch`, `Input` | the stages of a pass of the loop. The events of a batch run inside `remove_if` and are erased together |
| `Answer`, `Awake`, `StoreIdle` | `process_sync_request`: store, wait, store |
| `Notice`, `FallAsleep`, `BeginSection`, `EndSection` | the watcher: request, wait, section, completion. The section reloads a mod (`Reload`) or scans the directory (`Discover`) |
| `GuiRequest` | the buttons of the console, by name |
| `requests`, `notices`, `overwritten`, `inlined` | history, for bounds and properties only |

Each step of an agenda is one that can block, or one between two that can. A
restart of all mods is an agenda of several steps: the loop holds no mutex from
one to the next but that of the queue. The mods that are enabled at the start
are launched in any order, as the directory lists them. `Instances` is large
enough for every instance that the bounded requests and notices can make, so that
it never blocks a creation. Assumptions: the mods on disk do not
change their names; the GUI's requests come from one thread; the C++ mods'
`on_update` is left out, as it enters the machine through the same requests. The
polling thread exists once the loop runs. A file change is a notice, whatever
file it is about; the debounce only delays it.

`UnlockedNames` are the mods that have callbacks which are called without the
mutex. They are taken and returned one after the other, with callbacks under the
mutex (`GameCallback`) nested in them; an unlocked callback that is called from
inside a locked one runs with the mutex that its caller holds, and is not told apart from
that caller. `update_async` also tests a member `m_pause_events_processing`, which is
`LuaMod`'s own (`LuaMod.hpp:223`) and which nothing sets: the assignments are all to
the member of `UE4SSProgram`. `CheckStop` leaves the test out.

The refinement mapping to `EventQueueContract`: pending events are those of the
vector behind the `executed` first ones; the current one is the last executed.

### 3.4 GameThreadQueues

| Model | Code |
|---|---|
| `ready[h]`, `waiting[h]` | the vector of simple actions of a hook method and its pending vector |
| `processing`, `executing`, `registered` | `m_is_processing_actions`, `m_is_currently_executing_game_action`, the sticky flags of the fast path |
| `listeners`, `pending` | the listeners in order; the queue of (listener, index, serial) |
| `slot`, `address`, `constructing` | one entry of `GUObjectArray`, which is recycled: the object in it and its serial number; the address of every object so far; another thread has filled the entry and has not come to its post callback yet |
| `frames` | the game thread's stack of passes and of constructions that call listeners; `items` are what a frame has still to run, `busy` says that it runs Lua |
| `ExecuteInGameThread`, `NotifyOnNewObject`, `Uninstall` | the API functions and the end of a mod; `MayEnter` says which Lua can call them |
| `BeginPass` ... `EndPass` | `engine_tick_hook`, `process_event_hook`: the flag, `process_simple_actions` (moved out under the mutex, run without it, deferred ones put back), a delayed action, the notifications, the drain of the pending vector |
| `CollectNotifications`, `BeginNotification`, `EndNotification`, `EndNotifications` | `process_pending_notify_on_new_object_callbacks` |
| `ConstructElsewhere`, `QueueNotifications` | a construction off the game thread: the object is in the array before the post callback takes the mutex, so also while a batch is delivered |
| `AllocateSerial`, `Destroy` | the engine gives an object a serial number, or destroys it |
| `Construct`, `ConstructUnheard` ... `EndConstruct` | a construction on the game thread, which Lua of a batch can cause too, in this entry or another, and its listeners, with throwing callbacks |
| `address`, `enrolled` ... `spared`, `asOf` | history, for bounds and properties only; `late` are the actions that were queued during a pass, `deferred` those that a pass put back |

Assumptions: all listeners are for the class of the objects (a class chooses
which listeners take part, and nothing else). One entry of the object array
stands for all: what matters is whether it is recycled, and whether the new object
has the address of the old one, because the check before a notification is
delivered compares the pointer only. Delayed actions are
represented by the flag they share with simple ones. `NotifyOnNewObject` takes no
mutex; from a simple action it then races with a holder of the mutex on another
thread (finding 20), and what follows is undefined, so the model lets it wait.

### 3.5 ScriptHooks

| Model | Code |
|---|---|
| `entries`, `requested` | `PreCallbacks`, `PostCallbacks` and their `UnregistrationRequested` |
| `data`, `scheduled` | `g_hooked_script_function_data` and `scheduled_for_removal` |
| `mid` | `bIsMidExecution` |
| `frames` | calls of the function on the stack; `hook` is the iterator's position |
| `RegisterHook`, `UnregisterHook`, `RemoveHook` | the API functions; `remove_if_scheduled` |
| `Call` ... `EndCall` | `UnrealScriptFunctionHook` with `FirePreCallbacks` and `FirePostCallbacks` (`Look`, `Advance`), and the two Lua callbacks (`EnterPre` to `ReturnPost`), with throws |
| `BeginUninstall`, `ReadFlag`, `RemoveEntry`, `EndUninstall` | `LuaMod::uninstall` on the event loop, which holds the Lua mutex but not the maps: the flag is read before an entry is marked or erased |

Registration of both callbacks and their data is one step. Where an iterator's
element or the data of a callback has gone, the code's behaviour is undefined; the
model then has no step for that call, so that no property is about what follows.

## 4. Runs

| Run | Question | Instance |
|---|---|---|
| `DelayedTick` | safety of a pass, with every call at every point and uninstall at any moment | 3 actions, 1 mod, engine tick, delays {0,1}, 4 calls |
| `DelayedNested` | the two vectors and the flag under nesting, and with the unlocked increment | 2 actions, both hooks, depth 3, 3 calls |
| `DelayedLive` | a one-shot ends and a loop keeps running | 2 actions, delays {0,2}, fair |
| `DetourThreads` | all safety properties of a detour, and refinement of the contract | 2 callbacks, 2 threads, 4 kinds of registration |
| `DetourLive` | removal returns, garbage is collected, and exactness under nesting | 1 callback (readonly pre-hook or once post-hook), 2 threads, depth 2, fair |
| `UpdateLoop` | safety of requests, reloads and threads, and refinement of the queue | 2 mods, one with unlocked callbacks, 2 requests, 1 notice, 1 event per pass; 2.0 million states |
| `UpdateLive` | events and notices are served | 1 mod, no unlocked callbacks, 1 request, 2 notices, fair |
| `LoopDeadlockBug` | the circular wait between the two mutexes | violation, finding 9 |
| `GameThreadActions` | simple actions: conservation, order, progress | 2 mods, 2 actions, depth 2, fair |
| `GameThreadNotify` | listeners and notifications, with a recycled entry | 2 mods, 2 listeners, 2 objects at 2 addresses, depth 2; 1.2 million states |
| `ScriptHooks` | the maps and their data under nesting and uninstall | 2 mods, 2 hooks, depth 3 |
| `HookDataBug` | a callback in progress whose data has gone | violation, finding 16 |

Why the bounds are enough. In a batch, the interesting cases relate the action
that runs to another of the same batch and to one that is created or erased
beside it: three actions give all of these, at the first, middle and last
position. Four calls suffice to create three actions and act on one while it
runs. Delays 0 and 1 tell "due" from "not yet due", and 0 frames takes the
branch that turns an action time-based; 2 lets `DelayedLive` see a delay that
survives a tick. Depth 3 is the smallest at which a nested pass is itself
nested. For the detour, every race is between one callback's State, one vector
and two of {caller, remover, adder, thrower, collector}; a second callback gives
position and order, and one thread of each kind can be either of the two
threads. A second level of nesting is the recursion of a function into itself;
deeper levels repeat it. `DetourLive` uses a readonly pre-hook, which has no
iteration data to write, so that the graph for liveness stays small; the return
value has no part in progress and a prevented call only leaves out a step;
`DetourThreads` covers both. `MaxHandle`, `MaxCalls` and `MaxDepth` are the bounds
that appear in guards.

In `UpdateLoop`, two mods are what a restart by name of another mod, a restart of
all, and an order in `m_mods` need. Two requests put one event behind another,
and with one event per pass (the code has five) the second already waits for a
later pass. One notice meets requests in every order; the overwriting of a second
request of the watcher needs two notices, which is `UpdateLive`'s instance.
`MaxRequests` and `MaxNotices` appear in guards; a restart of all counts as one
request for each name. In `GameThreadQueues`, two actions give an order, one can
defer the other, and depth 2 is a pass inside a callback of a pass; two listeners
and two objects are one cancelled beside one that stays, and an entry that is
recycled, at the same address or another. In `ScriptHooks`, two hooks give an iterator a next element and one of
another mod; depth 3 is two nested calls, the inner of which clears the flag for
the middle one. The mod without unlocked callbacks in `UpdateLoop` is one that
needs the mutex everywhere. `MaxActions`, `MaxListeners`, `MaxObjects`, `MaxHooks` and
`MaxDepth` appear in guards.

Deadlock is checked in the runs of `DelayedActions` and `DetourCallbacks`: an
engine that can tick always has a step. It is not in the others: the code of the
update loop does deadlock (finding 9; `DeadlockNeedsRequestFromLua` says where
alone), and the bounded requests of the others, or undefined behaviour in
`ScriptHooks`, leave no step at the end.

Symmetry is used over actions, mods, addresses, callbacks and threads in safety runs only;
`UpdateLoop` has none, because the order of its mods is part of its state.

## 5. Properties

- `UniqueHandles`: the control calls stop at the first action with the handle.
- `ReadyPositionsStable`, `NoReleasedCallback`: what phase 1 collected is valid in
  phases 2 and 3, whatever the callbacks did in between.
- `NotLostBeforeRunning`, `OneShotRunsOnce`: at least once and at most once.
- `QueuesHoldLiveActions`, `PendingIsDrained`: the split into two vectors.
- `OneShotEnds`, `LoopKeepsRunning`: eventually.
- `ValidAreListed`: copy-on-write loses no registration.
- `RemovedIsQuiet`, `OnceRunsOnce`, `ExecutorsCounted`: the State protocol.
- `DirtyCoversInvalid`, `GarbageIsCollected`: the flag protocol.
- `ReadonlySeesVerdict`: what a readonly callback observes does not change any
  more in its phase.
- `RemovalReturns`: nobody waits for ever on an executor count.
- `ImplementsContract`: `DetourCallbacks` implements `CallbackContract`.
- `ClosedStateIsQuiet`: a Lua state is closed only when nothing runs in it and its
  async thread is gone. Exceptions: Lua on the loop thread whose request was
  executed inside it (finding 10), the hot-reload key together with a key bind
  (finding 12), Lua that the game thread calls without the mutex, from
  `process_simple_actions` or as the post callback of a script hook (finding 14), and a
  watcher that runs beside the loop (finding 11). Game-thread Lua under the mutex, key
  binds from elsewhere and async passes are what the property protects.
- `OneInstanceRuns`: no two instances of a mod run, and a running one is listed.
- `SectionExcludesLoop`: mutual exclusion of watcher and loop, but for the
  overwritten request of finding 11.
- `DeadlockNeedsRequestFromLua`: the two ways into a circular wait are all there are.
- `ImplementsQueue`: the vector that is executed inside `remove_if` is a FIFO queue.
- `EventsServed`, `NoticesServed`: an accepted event is executed and a notice dealt
  with, unless the threads wait in a circle or the loop has overwritten a request.
- `ActionsConserved`: an action of ExecuteInGameThread is in exactly one place.
- `ClosedOnlyIfTaken`: its Lua state was closed only if a pass had already taken it
  (finding 14 is that case).
- `ActionsInOrder`: first in, first out, unless one of the two was deferred or only
  the first was queued during a pass. Such an action waits in the pending vector
  of its hook, and the end of any other pass clears the flag: what is queued then
  goes straight to the vector that runs, and passes it.
- `ActionsServed`: eventually done or dropped.
- `CancelledIsErased`: a listener that returned true is off the list after the
  batch, unless a later listener of the same construction threw (finding 15).
- `NotifiedOfTheObject`: a step that calls a listener gives it the object its
  notification was queued for. Exceptions: there was no serial number then, or, after
  the batch was collected, another object was constructed at the same index and
  address (finding 19).
- `EntriesHaveData`: what `FirePreCallbacks` would call has its data.
- `ScheduledAreRemoved`: a call removes what was scheduled before its last stage.
- `PostFollowsPre`: each hook that ran before the function runs after it.
- `IteratorsStand`: the only ways in which an element is erased under an iterator.

## 6. Fairness

`DelayedActions!Fairness` is weak fairness of the engine's tick, of every stage
of a pass and of the clock: the engine calls the tick for as long as it runs,
and a pass is straight-line code. It includes that callbacks return; a mod whose
callback does not return stops the game thread, and no scheduler can help that.
Nothing obliges a mod to call the API, or a simple or notify callback to exist.

`DetourCallbacks!Fairness` is weak fairness of the detour's own steps on every
thread and of the collector, which wakes periodically. The return of a callback
and of the original function has strong fairness, because it is disabled while
the function is called again from there, and it has it at every depth of
invocation separately: returns of nested calls do not count as the return of the
call that contains them. It says that no callback and no original call goes on
calling the function for ever. The operations of mods are under no obligation.
Weak fairness of `RemoveReturn` is enough: once a callback is invalid its
executor count only falls, and the `EndExecution` that brings it to zero wakes
the waiting thread.

`UpdateLoop!FairSpec` has strong fairness of the loop, of the watcher and of each
async thread, because their steps wait for mutexes that other threads release
and take again: `update_async` sleeps between two passes without the Lua mutex
(`LuaMod.cpp:7592`), so every waiting thread gets it in the end. The game thread's
and the GUI's unfinished steps have weak fairness. A step that a
circular wait disables stays disabled, so fairness does not hide the deadlock.
Nothing obliges a mod, a user or the file system to ask for anything, or the game
to call Lua without the mutex or to return from it. No thread waits for such Lua,
which holds no mutex, so `UpdateLive` has none (`UnlockedNames` is empty).

`GameThreadQueues!FairSpec` has weak fairness of the straight-line code of passes
and constructions, strong fairness of the return of callbacks at each depth
separately (as for the detour), and strong fairness of both hooks being called
from the main loop of the game, with an empty stack. The latter assumes that the
game's main loop runs and that it calls ProcessEvent outside Lua, which every
frame of a server does; it does not assume that a hook passes its fast path.

## 7. Proofs

The proofs rest on the named assumptions of their module (`ConstantsAssumption`,
`LoopConstants`, `NobodyIsNoThread`, `HookConstants`, `QueueConstants`), which say
that bounds are numbers, that sets are finite or not empty, and that nobody is not a
thread; and on what the table adds. They hold for any sets of actions, mods, hooks, delays, callbacks and threads
and for any bounds.

| Theorem | Extra assumption | States |
|---|---|---|
| `TypeCorrect` (of `DelayedActions`) | - | `Spec => []TypeOK` |
| `HandlesUnique` | `~UnlockedMake` | `Spec => []UniqueHandles` |
| `QueuesComplete` | - | `Spec => []QueuesHoldLiveActions` |
| `PendingServed` | - | `Spec => []PendingIsDrained` |
| `BatchesSafe` | `"ProcessEvent" \notin Hooks` | `Spec => []ReadyPositionsStable`, and `Executing` only in a batch |
| `ReferencesHeld` | the same | `Spec => []NoReleasedCallback` |
| `NothingLost` | the same | `Spec => []NotLostBeforeRunning` |
| `OneShotsOnce` | the same | `Spec => []OneShotRunsOnce` |
| `AnsweredStaysQuiet` | - | under the contract, a callback whose removal was answered is retired and not running |
| `TypeCorrect` (of `DetourCallbacks`) | - | `Spec => []TypeOK` |
| `CountIsExact` | - | `Spec => []ExecutorsCounted` |
| `RemovalIsFinal` | - | `Spec => []RemovedIsQuiet` |
| `OnceIsClaimed` | - | `Spec => []OnceRunsOnce` |
| `NoRegistrationLost` | - | `Spec => []ValidAreListed` |
| `GarbageIsAnnounced` | - | `Spec => []DirtyCoversInvalid` |
| `DetourKeepsContract` | - | `Spec => ImplementsContract` |
| `VerdictIsFinal` | - | `Spec => ReadonlySeesVerdict` |
| `WatcherExcludesLoop` | - | `Spec => []SectionExcludesLoop` |
| `TypeCorrect` (of `UpdateLoop`) | - | `Spec => []TypeOK` |
| `QueueImplemented` | - | `Spec => ImplementsQueue` |
| `DeadlocksAreKnown` | - | `Spec => []DeadlockNeedsRequestFromLua` |
| `StatesCloseQuietly` | - | `Spec => []ClosedStateIsQuiet` |
| `OneOfEachRuns` | - | `Spec => []OneInstanceRuns` |
| `TypeCorrect` (of `ScriptHooks`) | - | `Spec => []TypeOK` |
| `CallbacksHaveData` | - | `Spec => []EntriesHaveData` |
| `IteratorsAreKept` | - | `Spec => IteratorsStand` |
| `HooksAreRemoved` | - | `Spec => []ScheduledAreRemoved` |
| `PostHooksFollow` | - | `Spec => []PostFollowsPre` |
| `TypeCorrect` (of `GameThreadQueues`) | - | `Spec => []TypeOK` |
| `NotifiedObject` | - | `Spec => NotifiedOfTheObject` |
| `CancelledErased` | - | `Spec => []CancelledIsErased` |
| `ActionsKept` | - | `Spec => []ActionsConserved` |
| `ClosedOnlyTaken` | - | `Spec => []ClosedOnlyIfTaken` |
| `RunInOrder` | - | `Spec => []ActionsInOrder` |

The assumptions are not conveniences, in `DelayedActions`: without them the properties fail in the
ways of findings 5 and 6. The theorems say that the unlocked increment and the
nested pass are the only reasons.

`QueueInv` is about the two vectors: neither has an action twice, they share
none, they hold exactly the actions created and not yet erased, and the pending one
is empty when no pass is in progress. It is inductive only as a whole, since a
drain or an erasure must neither bring an erased action back nor make an action
appear twice. It holds however passes nest, so `QueuesComplete` and `PendingServed`
have no assumption. `Kept`, which stands for `erase_if`, is characterised once, by
the elements and the order it keeps.

`UniqueHandles` is not inductive. `HandleInv` adds that every handle given out
is below the counter (so a fresh one collides with nothing) and that no
increment is half done.

`BatchesSafe`, `ReferencesHeld` and `NothingLost` use `BatchInv`: at most one pass is in progress; what it has
collected is at its position in the vector and not erased; what it ran has
started; outside phase 2 nothing is collected; and an action that is marked
`PendingRemoval` was dropped by a call. Given these, every API call leaves the
collected prefix of the vector where it was (creations go to the pending
vector, cancellations only mark), uninstall waits for the mutex that a batch
holds, and phase 3 erases either what a call dropped or what it just ran. The
mark's origin (`MarkedIsDropped`) is what makes `NotLostBeforeRunning` inductive.
`OnceInv` relates the count of starts to the state of a one-shot: it has not
started, or it started once and has run in the current batch, or it is marked or
gone and collected by nobody. A reset of the action in its own callback makes it
active again, but phase 3 still erases what has run (finding 3).

The detour has four invariants, each used by the next.

`StateInv` is about one callback's `State`. `ExecutorsCounted` is inductive only
together with the facts that the stack of calls has at most `MaxDepth` entries,
that the set of executions is finite, and what a thread knows at each point of an
operation (`OperationOK`): a thread that unwinds is still in a callback, one that
waits for executors has an invalid callback in hand. `RemovedAreDone` (invalid,
and counted zero) then gives `RemovedIsQuiet`: no step begins an invalid callback,
since `TryBeginExecution` reads the bit in the same compare-and-swap that
counts. The proof rests on what `Pruned` and `Inserted` return for a sequence of
any length. Both choose positions, so these lemmas are inductions over sequences,
done first-order: `LeastNat`, the least-number principle, stands for the
induction theorems, whose operator parameters the provers cannot instantiate.

`OnceInv` says that a once callback that ran is invalid: claimed and counted
at once, it is never begun again.

`VectorInv` is about the vectors. A vector holds published callbacks of its type
only; `WriteMutex` is held from the copy of a vector to its replacement
(`WriterOK`), so that the copy still contains whatever is valid in the vector
(`DraftsOK`), and no registration is lost to another one or to the collector.
`DirtyCoversInvalid` is inductive as it stands, given that. With both invariants
every step of the detour is one step of the contract or a stutter, which is
`DetourKeepsContract`; the theorem of the contract, `AnsweredStaysQuiet`, thereby
holds of the detour.

`OrderInv` says that in every vector, draft and snapshot nothing that is not
readonly follows a readonly callback, and that the loop executes the callback at
its position. It needs that options are never changed once a callback has a type
(`OptionsAreFixed`). The verdict changes only in a callback that is not readonly,
so no readonly one of the phase can have been reached: `VerdictIsFinal`.

`SyncInv` is the handshake of `Sync.cpp`: which of the four values each thread
can see at its point, *unless* the loop has stored Idle over a request. That
exception is finding 11; the theorem says that it is
the only way for the watcher to be in its section beside the loop.

`TypesInv` says what agendas, as sequences of any length, can contain: each
thread has steps of its own repertoire only (`Agendas`), about instances that
exist (`SubjectsBorn`); the Lua mutex is counted as often as its holder is inside
of a callback (`MutexCounts`); and a thread that rests has nothing to do
(`Rests`). That is what makes `append` a step no thread takes while it executes
events, and with it every step of the loop maps to one of the FIFO queue:
`RunEvent` to taking the first event that was not executed, `AppendEvent` to
putting one behind the others, `EndBatch`, which erases the executed prefix, to a
stutter, and all others change none of the three variables the mapping reads.

`DeadlocksAreKnown` needs `ShallowStacks`: unless a request was executed inside
Lua, a thread is inside of one callback at most, which ends next, or after the
request it has made is queued. The holder of the Lua mutex therefore never waits
for that mutex or for a join; it waits, if at all, for the queue, while it asks for
a restart. A circle of any number of threads then has to pass through such a
thread, and that is the exception the property names.

`StatesCloseQuietly` and `OneOfEachRuns` share `LivesInv`. Neither property is
inductive: whether a step closes a state too early or starts a mod twice depends on
what its thread did before and is still to do. `InOrder` therefore speaks of whole
agendas: each step of one is `Ready` behind those before it, that is, the async
thread is joined before the state is closed, a mod is ended before it is removed from
`m_mods`, and removed before another of its name is made. The steps that an
event, a request or a scan adds are in that order, and the order of a thread survives its own
steps, because what is taken off the agenda has then been done. It survives those of
others because loop and watcher are the only ones that change mods, and one of
them has nothing on its agenda: this is where `SyncInv` comes in, and why the
invariant, like the properties, ends with an overwritten request. `Entering` says that a
key bind is the first thing on the loop's agenda and its mod runs. `Quiet`
follows from `MutexCounts` and `ShallowStacks`: who closes a state holds the Lua
mutex outside of any callback, so no other thread is inside one that was called under
the mutex. Of Lua that is called without it the theorem says nothing, since an
uninstall does close its state.

`Types` says of `ScriptHooks` that the maps are maps of registered hooks, marks
are on listed entries only, and a call that made another one is in Lua or in the
function. `IteratorsAreKept` follows from it step by step.

`CallbacksHaveData` uses `HookInv`, which adds `LeavingIsCovered` to
`EntriesHaveData`: while a mod is uninstalled, each of
its unmarked entries is still to be removed. Without it the invariant is not
inductive, because `EndUninstall` erases the data of all the mod's hooks at once.
The value of the flag plays no part: marked or erased, an entry is not called
again. That is the half of the comment in `uninstall` that is right; the other half,
about callbacks that are already entered, is finding 16.

`HooksAreRemoved` and `PostHooksFollow` have one invariant. A call owes a callback
to each hook that ran before the function, and a removal to each that was
scheduled when its last stage began (`Owed`). `CallsInv` says of every call on the
stack, not of the innermost alone, that in its last stage what it owes is still
before its iterator (`Ahead`). It is kept because what is owed is in the map, not
marked (`ListInv`), so the iterator, which goes to the next element there is,
cannot pass it over; because hooks registered meanwhile have higher ids and are
owed nothing; and because a hook that was scheduled or lost its data stays so,
whoever did that (`HooksAge`).

`Types` of `GameThreadQueues` says what each frame of the stack has in hand at each
stage (`FrameOK`), and that the serial number in a notification, like that in the
array, is zero or the object's own. What a batch has in hand was collected rightly
(`RightlyGiven`): the address is that of the object wanted, or there was no number.
This stays so whatever is destroyed and constructed (`RightlyStays`), because addresses of
objects never change and new objects come behind those that `asOf` counts.
`NotifiedObject` then follows at the call: the index leads to that address, so to the
object, or to a new one that was put there since. `CancelledErased` is inductive
given the types: what a frame dooms is erased when the frame ends, and is spared
where it ends by a throw.

`Single` says of the actions that no vector and no hand has one twice, that no two
places share one, that each is in a vector of its own method, and that each is
somewhere. Only the conjunction is inductive: a pass that puts deferred actions
back must neither meet them in the vector already nor have them done. `ActionsKept`
is the same fact as a count, and `ClosedOnlyTaken` follows from it, as
an uninstall erases what is in the vectors and marks what is in a hand.

`Ordered` is the invariant of the order. `Before` is the relation the property is
about, and no step extends it to actions that exist (`OrderFades`): they can only be
deferred, which takes them out of it. Vectors and hands are sorted by it; nothing
in the pending vector comes before anything in the vector that runs, since what is there is
late; and nothing that is queued or taken by a nested pass comes before what a
pass below has taken. The last holds because at most one frame runs an action
(`OneActs`, the purpose of `m_is_currently_executing_game_action`): while a pass runs
one, the passes nested in it defer all they take, and what is deferred is in no order.

Only model-checked: liveness, since fairness and ENABLED are outside the prover;
and behaviours of `DelayedActions` with nested passes, where the conclusions of the
theorems about batches are false.

## 8. Not modelled

- The list of async actions with its delays and `m_actions_lock`: planned (section
  2). `UpdateLoop` has the async thread itself, any pass of which may run Lua.
- Script hooks of functions that are not native (`m_script_hook_callbacks`),
  `FireOnInstance` and `RemoveAllCallbacks` (no caller in UE4SS), the values that
  hooks return, and what follows undefined behaviour.
- Installing the global detours, and the loading of scripts: part of a start that
  is one step.
- `fire_update` of C++ mods, shutdown, and how inotify turns file changes into
  notices.
- Linux bootstrap, `Mod` and `CppMod`, settings and signatures: straight-line
  initialisation and operating-system calls.
- Vtable sweep and validation gate: heuristics over a game binary that is not
  part of the repository.
- Object listeners and Lua type bindings: views over engine memory and
  conversions, without a protocol of their own.
- GUI, Lua debugger, event viewer, Kismet debugger, input: not in the Linux
  server build. Crash dumper, webhook and the generators: one-shot output.
- The C++ memory model: atomics are sequentially consistent in `DetourCallbacks`.
  The code uses acquire and release.

## 9. Findings

1. `CancelDelayedAction` answers true for an action already collected in the
   running batch, and its callback runs all the same (`LuaMod.cpp:4173`).
2. In the same window a retrigger, reset or set of the timer does not delay the
   callback.
3. A one-shot action reset in its own callback is erased by phase 3
   (`LuaMod.cpp:4232`).
4. `RetriggerableExecuteInGameThreadWithDelay` restarts an action of any mod that
   has the handle (`LuaMod.cpp:4792`); the documentation says actions are owned.
5. A nested ProcessEvent pass erases and appends while the outer pass holds
   positions, so an action can be settled and erased without having run
   (`LuaMod.cpp:4196`).
6. `MakeActionHandle` increments the counter with no lock (`LuaMod.cpp:5753`).
7. `RemoveSelf` does not set `bDirty`, so that the collector does not know of the
   callback it should prune.
8. An exception in one callback skips all later callbacks of the phase, which the
   postcondition of `Invoke` does not say (`DetourInstance.hpp:440`).

9. Events are executed with `m_event_queue_mutex` held, and an uninstall among them
   joins an async thread and takes the Lua mutex; a Lua callback that asks for a
   restart holds the latter and waits for the former (`UE4SSProgram.cpp:3657`).
   **Run `LoopDeadlockBug`.**
10. A request made by Lua on the loop thread is executed inside the caller, whose
    Lua state it may close (`UE4SSProgram.cpp:4346`); the documentation says that it
    is queued for the next update.
11. `process_sync_request` stores Idle after it wakes, over a new request of the
    watcher (`UE4SS/src/Sync.cpp:20`).
12. `Handler::process_event` calls copies of callbacks, one of which may be of a mod
    that the hot-reload key has just closed
    (`deps/first/Input/src/Handler.cpp:42`).
13. The test for a mod name that is taken is inverted (`UE4SSProgram.cpp:3862`).
14. A simple action that a pass has moved out is called although its mod has been
    uninstalled, or has its state closed while it runs; so has the post callback of a
    script hook. Both are called without the mutex (`LuaMod.cpp:3969`).
15. A listener that returned true is called again for the rest of the batch, and
    stays when a later one of its construction throws (`LuaMod.cpp:4094`).
16. `uninstall` erases the data of a callback that has been entered
    (`LuaMod.cpp:6549`). **Run `HookDataBug`.**
17. `bIsMidExecution` is a flag where calls nest: the inner call clears it, and a
    removal then erases the element under the outer iterator
    (`deps/first/Unreal/src/UFunctionStructs.cpp:37`).
18. The results of hooks share a Lua stack with those of nested calls
    (`LuaMod.cpp:428`). Read in the code, not modelled.
19. The check before a notification is delivered compares the pointer and not the
    serial number (`LuaMod.cpp:4057`), so that another object at the same index and
    address passes.
20. `NotifyOnNewObject` takes no mutex (`LuaMod.cpp:2569`), although simple actions,
    which may call it, run without it. Read in the code, not modelled.

`PROJECT.json` quotes the text each one contradicts. Findings 9 and 16 have a run
that exhibits them. Findings 1 to 8, 10 to 12, 14, 15, 17 and 19 are behaviours of the
models, most of them named as exceptions of the properties in section 5 or assumed
away by the theorems in section 7; 13, 18 and 20 are read in the code.

## 10. Running

    tlc -config DelayedTick.cfg MCDelayedActions.tla
    tlc -config DetourThreads.cfg MCDetourCallbacks.tla
    tlc -config UpdateLoop.cfg MCUpdateLoop.tla
    tlc -config GameThreadActions.cfg MCGameThreadQueues.tla
    tlc -config ScriptHooks.cfg MCScriptHooks.tla
    tlapm DelayedBatchProofs.tla
    tlapm DetourVectorProofs.tla
    tlapm UpdateLoopProofs.tla
    tlapm GameThreadQueuesProofs.tla
    tlapm ScriptHooksProofs.tla
