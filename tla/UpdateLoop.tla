------------------------------ MODULE UpdateLoop ------------------------------
(***************************************************************************)
(* UE4SSProgram's update loop: the event queue, the Lua mods the loop      *)
(* uninstalls, restarts and starts, the filesystem watcher that reloads a  *)
(* mod between two passes of the loop, and the threads whose Lua callbacks *)
(* ask for restarts: the game thread, the async thread of every mod, and   *)
(* the loop itself.                                                        *)
(*                                                                         *)
(* A thread's agenda is what it has still to do, nearest first. A step     *)
(* that can block is a step of its own; an agenda entry <<"leave", i>> is  *)
(* a Lua callback of instance i that the thread is inside of, with         *)
(* m_thread_actions_mutex held. The callbacks that the game thread calls   *)
(* without the mutex are kept apart, in taken.                             *)
(***************************************************************************)
EXTENDS Naturals, FiniteSets, SequencesExt

CONSTANTS
    Names,        \* names of the Lua mods on disk
    UnlockedNames, \* mods with callbacks the game thread calls without the mutex
    NoName,
    Nobody,
    MaxRequests,  \* bound on the restarts and uninstalls asked for
    MaxNotices,   \* bound on the notices the filesystem watcher acts on
    max_events_executed_per_frame

ASSUME LoopConstants ==
    /\ IsFiniteSet(Names) /\ Names # {}
    /\ UnlockedNames \subseteq Names
    /\ NoName \notin Names
    /\ MaxRequests \in Nat
    /\ MaxNotices \in Nat
    /\ max_events_executed_per_frame \in Nat \ {0}

\* The mods on disk, in the order of directory_iterator.
ModNames == SetToSeq(Names)

\* Mod instances, numbered by s_next_mod_id: those of the start, and at most
\* one per request and name and per notice and name.
Instances == 1 .. Len(ModNames) * (1 + MaxNotices) + MaxRequests

Loop == <<"loop", 0>>
Watcher == <<"watcher", 0>>
Game == <<"game", 0>>
Gui == <<"gui", 0>>
Async(i) == <<"async", i>>
Threads == {Loop, Watcher, Game, Gui} \cup {Async(i) : i \in Instances}

ASSUME NobodyIsNoThread == Nobody \notin Threads

VARIABLES
    m_mods,       \* the instances that exist, in order
    name,         \* the name of every instance
    stage,        \* how far the life of every instance is
    stopping,     \* instances whose async thread has been asked to stop
    async,        \* m_async_thread of every instance
    lua,          \* m_thread_actions_mutex: its holder and its count
    m_queued_events,
    executed,     \* num_events_executed, while m_event_queue_mutex is held
    phase,        \* where the loop is
    m_pause_events_processing,
    sync,         \* ThreadState: the watcher's request to the loop
    watcher,      \* where the polling thread is
    agenda,       \* what every thread has still to do
    taken,        \* whose callbacks the game thread took to call without the mutex: it is
                  \* inside the first
    requests,     \* history: requests made, in units of instances they may create
    notices,      \* history: notices the watcher has begun to act on
    overwritten,  \* history: the loop overwrote a new request of the watcher
    inlined       \* history: in what the loop is executing, Lua had a request run inside
                  \* it, or a key bind is called after the hot-reload key

modVars == <<m_mods, name, stage, stopping, async>>
queueVars == <<m_queued_events, executed>>
syncVars == <<sync, watcher, notices, overwritten>>
vars == <<modVars, lua, queueVars, phase, m_pause_events_processing, syncVars, agenda,
          taken, requests, inlined>>

ById(op, i) == [op |-> op, id |-> i, name |-> NoName]
ByName(op, n) == [op |-> op, id |-> 0, name |-> n]

LuaRequests(i) == {ById(op, i) : op \in {"restart", "uninstall"}} \cup
                  {ByName(op, n) : op \in {"restart", "uninstall"}, n \in Names}
GuiRequests == {ByName(op, n) : op \in {"restart", "uninstall", "start"}, n \in Names} \cup
               {ByName("restartAll", NoName)}

Events == [op : {"restart", "uninstall", "start", "restartAll"},
           id : Instances \cup {0}, name : Names \cup {NoName}]

Cost(r) == IF r.op = "restartAll" THEN Len(ModNames) ELSE 1

Init ==
    /\ m_mods = [k \in 1 .. Len(ModNames) |-> k]
    /\ name = [i \in Instances |-> IF i <= Len(ModNames) THEN ModNames[i] ELSE NoName]
    /\ stage = [i \in Instances |-> IF i <= Len(ModNames) THEN "created" ELSE "unborn"]
    /\ stopping = {}
    /\ async = [i \in Instances |-> "none"]
    /\ lua = [by |-> Nobody, count |-> 0]
    /\ m_queued_events = <<>>
    /\ executed = 0
    /\ phase = "boot"
    /\ m_pause_events_processing = FALSE
    /\ sync = "Idle"
    /\ watcher = "poll"
    /\ \E enabled \in SUBSET Names : \E order \in SetToSeqs(enabled) :
          agenda = [t \in Threads |->
                       IF t = Loop THEN [k \in DOMAIN order |-> <<"launch", order[k]>>] ELSE <<>>]
    /\ taken = <<>>
    /\ requests = 0
    /\ notices = 0
    /\ overwritten = FALSE
    /\ inlined = FALSE

-----------------------------------------------------------------------------
(* Agendas: what the loop does for a request, and what the watcher does for *)
(* a notice.                                                                *)

Idle(t) == agenda[t] = <<>>
NextIs(t, op) == agenda[t] # <<>> /\ agenda[t][1][1] = op
Subject(t) == agenda[t][1][2]
Then(t, steps) == agenda' = [agenda EXCEPT ![t] = steps \o (IF Idle(t) THEN <<>> ELSE Tail(@))]

\* Slip: the mod is removed from the list before it is uninstalled.
TeardownDeletesFirst(i) == <<<<"delete", i>>, <<"uninstall", i>>>>

\* queue_uninstall_mod(LuaMod*), and the first half of queue_reinstall_mod.
Teardown(i) == <<<<"uninstall", i>>, <<"delete", i>>>>

\* A new LuaMod at the end of m_mods, then start_mod.
Birth(n) == <<<<"create", n>>, <<"launch", n>>>>

RestartAll ==
    LET ForEachName(step) == [k \in DOMAIN ModNames |-> <<step, ModNames[k]>>]
    IN  [k \in DOMAIN m_mods |-> <<"uninstall", m_mods[k]>>]
        \o <<<<"clear", 0>>>> \o ForEachName("create") \o ForEachName("launch")

\* is_started: nothing ever resets it.
HasStarted(i) == stage[i] \in {"started", "closed"}

\* The mods that find_mod_by_id, or the search by name, can return.
Matching(r) == {k \in DOMAIN m_mods : IF r.id # 0 THEN m_mods[k] = r.id
                                                  ELSE name[m_mods[k]] = r.name}

\* Look-ups happen when the request is executed.
Handling(r) ==
    IF r.op = "restartAll" THEN RestartAll
    ELSE IF Matching(r) = {} THEN (IF r.op = "start" THEN Birth(r.name) ELSE <<>>)
    ELSE LET i == m_mods[CHOOSE k \in Matching(r) : \A l \in Matching(r) : k <= l]
         IN  CASE r.op = "restart"   -> Teardown(i) \o Birth(name[i])
               [] r.op = "uninstall" -> Teardown(i)
               [] r.op = "start"     -> IF HasStarted(i) THEN <<>>
                                        ELSE <<<<"delete", i>>>> \o Birth(r.name)

\* The watcher replaces the instance where it stands in m_mods.
Reload(i) == <<<<"uninstall", i>>, <<"replace", i>>, <<"launch", name[i]>>>>

\* A notice for the mods directory starts the mods that have no instance.
Discover ==
    <<<<"pause", 0>>, <<"scan", {n \in Names : \A k \in DOMAIN m_mods : name[m_mods[k]] # n}>>,
      <<"resume", 0>>>>

-----------------------------------------------------------------------------
(* The steps of an agenda.                                                  *)

CanLock(t) == lua.by \in {Nobody, t}
Lock(t) == lua' = [by |-> t, count |-> lua.count + 1]
Unlock == lua' = IF lua.count = 1 THEN [by |-> Nobody, count |-> 0]
                                  ELSE [lua EXCEPT !.count = @ - 1]

QueueHeld == phase = "events"

\* What comes of a call of a queue_... function on t: on the loop thread the
\* request is executed at once; elsewhere queue_event ignores it unless the
\* loop runs.
Asked(t, r) ==
    IF phase = "boot" THEN <<>>
    ELSE IF t = Loop THEN Handling(r)
    ELSE <<<<"append", r>>>>

\* Lua code of instance i runs on t, with the mutex held, and may make a request.
RunLua(t, i) ==
    /\ CanLock(t)
    /\ Lock(t)
    /\ \/ /\ Then(t, <<<<"leave", i>>>>)
          /\ UNCHANGED <<requests, inlined>>
       \/ /\ requests < MaxRequests
          /\ \E r \in LuaRequests(i) :
                /\ requests + Cost(r) <= MaxRequests
                /\ requests' = requests + Cost(r)
                /\ Then(t, Asked(t, r) \o <<<<"leave", i>>>>)
                /\ inlined' = (inlined \/ (t = Loop /\ phase # "boot"))

LeaveLua(t) ==
    /\ NextIs(t, "leave")
    /\ Unlock
    /\ Then(t, <<>>)
    /\ UNCHANGED <<modVars, queueVars, phase, m_pause_events_processing, syncVars, taken, requests,
                   inlined>>

AppendEvent(t) ==
    /\ NextIs(t, "append")
    /\ ~QueueHeld
    /\ m_queued_events' = Append(m_queued_events, Subject(t))
    /\ Then(t, <<>>)
    /\ UNCHANGED <<modVars, lua, executed, phase, m_pause_events_processing, syncVars, taken,
                   requests, inlined>>

SetPause(t) ==
    /\ NextIs(t, "pause") \/ NextIs(t, "resume")
    /\ m_pause_events_processing' = NextIs(t, "pause")
    /\ Then(t, <<>>)
    /\ UNCHANGED <<modVars, lua, queueVars, phase, syncVars, taken, requests, inlined>>

\* The scan of the mods directory, which lists the missing mods in any order.
ScanMods(t) ==
    /\ NextIs(t, "scan")
    /\ \/ Subject(t) = {} /\ Then(t, <<>>)
       \/ \E n \in Subject(t) : Then(t, Birth(n) \o <<<<"scan", Subject(t) \ {n}>>>>)
    /\ UNCHANGED <<modVars, lua, queueVars, phase, m_pause_events_processing, syncVars, taken,
                   requests, inlined>>

\* Slip: the mutex is taken before the async thread is joined.
StopAsyncUnderLock(t) ==
    /\ NextIs(t, "uninstall")
    /\ CanLock(t)
    /\ Lock(t)
    /\ stopping' = stopping \cup {Subject(t)}
    /\ Then(t, (IF async[Subject(t)] = "none" THEN <<>> ELSE <<<<"join", Subject(t)>>>>)
               \o <<<<"close", Subject(t)>>, <<"leave", Subject(t)>>>>)
    /\ m_pause_events_processing' = TRUE
    /\ UNCHANGED <<m_mods, name, stage, async, queueVars, phase, syncVars, taken, requests, inlined>>

\* Slip: the async thread is not asked to stop.
StopAsyncUnasked(t) ==
    /\ NextIs(t, "uninstall")
    /\ Then(t, (IF async[Subject(t)] = "none" THEN <<>> ELSE <<<<"join", Subject(t)>>>>)
               \o <<<<"close", Subject(t)>>>>)
    /\ m_pause_events_processing' = TRUE
    /\ UNCHANGED <<modVars, lua, queueVars, phase, syncVars, taken, requests, inlined>>

\* LuaMod::uninstall, before the mutex: the async thread is asked to stop...
StopAsync(t) ==
    /\ NextIs(t, "uninstall")
    /\ IF async[Subject(t)] = "none"
       THEN Then(t, <<<<"close", Subject(t)>>>>) /\ UNCHANGED stopping
       ELSE /\ stopping' = stopping \cup {Subject(t)}
            /\ Then(t, <<<<"join", Subject(t)>>, <<"close", Subject(t)>>>>)
    /\ m_pause_events_processing' = TRUE
    /\ UNCHANGED <<m_mods, name, stage, async, lua, queueVars, phase, syncVars, taken, requests, inlined>>

\* Slip: the async thread is detached rather than joined.
JoinAsyncDetached(t) ==
    /\ NextIs(t, "join")
    /\ Then(t, <<>>)
    /\ UNCHANGED <<modVars, lua, queueVars, phase, m_pause_events_processing, syncVars, taken,
                   requests, inlined>>

\* ... and joined...
JoinAsync(t) ==
    /\ NextIs(t, "join")
    /\ async[Subject(t)] = "exited"
    /\ async' = [async EXCEPT ![Subject(t)] = "none"]
    /\ Then(t, <<>>)
    /\ UNCHANGED <<m_mods, name, stage, stopping, lua, queueVars, phase, m_pause_events_processing,
                   syncVars, taken, requests, inlined>>

\* ... and under the mutex the callbacks are erased and the Lua state closed.
CloseState(t) ==
    /\ NextIs(t, "close")
    /\ CanLock(t)
    /\ stage' = [stage EXCEPT ![Subject(t)] = "closed"]
    /\ Then(t, <<>>)
    /\ UNCHANGED <<m_mods, name, stopping, async, lua, queueVars, phase, m_pause_events_processing,
                   syncVars, taken, requests, inlined>>

\* The constructor of LuaMod, with the next id.
Construct(new, n) ==
    /\ stage[new] = "unborn" /\ \A j \in 1 .. new - 1 : stage[j] # "unborn"
    /\ name' = [name EXCEPT ![new] = n]
    /\ stage' = [stage EXCEPT ![new] = "created"]

\* delete_mod, m_mods.clear, and a new or a replaced element. Processing
\* resumes before the new mod is started.
ChangeMods(t) ==
    /\ \/ /\ NextIs(t, "delete")
          /\ \/ \E k \in DOMAIN m_mods : m_mods[k] = Subject(t) /\ m_mods' = RemoveAt(m_mods, k)
             \/ Subject(t) \notin ToSet(m_mods) /\ UNCHANGED m_mods
          /\ UNCHANGED <<name, stage>>
       \/ /\ NextIs(t, "clear")
          /\ m_mods' = <<>>
          /\ UNCHANGED <<name, stage>>
       \/ /\ NextIs(t, "create")
          /\ \E new \in Instances : Construct(new, Subject(t)) /\ m_mods' = Append(m_mods, new)
       \/ /\ NextIs(t, "replace")
          /\ \E new \in Instances : /\ Construct(new, name[Subject(t)])
                                    /\ m_mods' = ReplaceAll(m_mods, Subject(t), new)
    /\ m_pause_events_processing' = (m_pause_events_processing /\ NextIs(t, "create"))
    /\ Then(t, <<>>)
    /\ UNCHANGED <<stopping, async, lua, queueVars, phase, syncVars, taken, requests, inlined>>

\* start_mod of the first instance of that name that has not started: under
\* the mutex, the async thread is started, then main.lua is run.
StartMod(t) ==
    /\ NextIs(t, "launch")
    /\ LET waiting == {k \in DOMAIN m_mods : name[m_mods[k]] = Subject(t) /\ stage[m_mods[k]] = "created"}
       IN  IF waiting = {}
           THEN Then(t, <<>>) /\ UNCHANGED <<stage, async, lua, requests, inlined>>
           ELSE LET i == m_mods[CHOOSE k \in waiting : \A l \in waiting : k <= l]
                IN  /\ RunLua(t, i)
                    /\ stage' = [stage EXCEPT ![i] = "started"]
                    /\ async' = [async EXCEPT ![i] = "running"]
    /\ UNCHANGED <<m_mods, name, stopping, queueVars, phase, m_pause_events_processing, syncVars, taken>>

\* A key bind of instance i on the loop thread, a pass of the async thread
\* over its actions, or a detour callback on the game thread.
EnterLua(t) ==
    /\ NextIs(t, "enter")
    /\ RunLua(t, Subject(t))
    /\ UNCHANGED <<modVars, queueVars, phase, m_pause_events_processing, syncVars, taken>>

\* Only the loop and the watcher have mods to end or to start.
Step(t) ==
    /\ ~Idle(t)
    /\ \/ LeaveLua(t) \/ AppendEvent(t) \/ EnterLua(t)
       \/ /\ t \in {Loop, Watcher}
          /\ \/ SetPause(t) \/ ScanMods(t) \/ StopAsync(t) \/ JoinAsync(t)
             \/ CloseState(t) \/ ChangeMods(t) \/ StartMod(t)

-----------------------------------------------------------------------------
(* The other threads.                                                       *)

\* A pass of update_async: it looks at its stop token without the mutex. The
\* pause flag it reads is a member of LuaMod, which nothing ever sets.
CheckStop(i) ==
    /\ async[i] = "running"
    /\ Idle(Async(i))
    /\ IF i \in stopping
       THEN async' = [async EXCEPT ![i] = "exited"] /\ UNCHANGED agenda
       ELSE Then(Async(i), <<<<"enter", i>>>>) /\ UNCHANGED async
    /\ UNCHANGED <<m_mods, name, stage, stopping, lua, queueVars, phase, m_pause_events_processing,
                   syncVars, taken, requests, inlined>>

\* A callback that instance i registered, looked up and called under the
\* mutex, also from inside one that is called without it.
GameCallback(i) ==
    /\ Idle(Game)
    /\ stage[i] = "started"
    /\ RunLua(Game, i)
    /\ UNCHANGED <<modVars, queueVars, phase, m_pause_events_processing, syncVars, taken>>

\* process_simple_actions moves the due callbacks out of the vector, and the
\* post callback of a script hook finds its data, under the mutex, and releases
\* it before the first is called...
TakeUnlocked ==
    /\ Idle(Game)
    /\ taken = <<>>
    /\ CanLock(Game)
    /\ \E some \in SUBSET {i \in Instances : stage[i] = "started" /\ name[i] \in UnlockedNames} :
          some # {} /\ taken' \in SetToSeqs(some)
    /\ UNCHANGED <<modVars, lua, queueVars, phase, m_pause_events_processing, syncVars, agenda,
                   requests, inlined>>

\* ... which asks for what any Lua code can ask for...
UnlockedAsks ==
    /\ Idle(Game)
    /\ taken # <<>>
    /\ requests < MaxRequests
    /\ \E r \in LuaRequests(Head(taken)) :
          /\ requests + Cost(r) <= MaxRequests
          /\ requests' = requests + Cost(r)
          /\ Then(Game, Asked(Game, r))
    /\ UNCHANGED <<modVars, lua, queueVars, phase, m_pause_events_processing, syncVars, taken, inlined>>

\* ... and returns, and the next is called, whatever has become of its mod.
ReturnUnlocked ==
    /\ Idle(Game)
    /\ taken # <<>>
    /\ taken' = Tail(taken)
    /\ UNCHANGED <<modVars, lua, queueVars, phase, m_pause_events_processing, syncVars, agenda,
                   requests, inlined>>

UnlockedStep == TakeUnlocked \/ UnlockedAsks \/ ReturnUnlocked

GuiRequest ==
    /\ Idle(Gui)
    /\ requests < MaxRequests
    /\ \E r \in GuiRequests :
          /\ requests + Cost(r) <= MaxRequests
          /\ requests' = requests + Cost(r)
          /\ Then(Gui, Asked(Gui, r))
    /\ UNCHANGED <<modVars, lua, queueVars, phase, m_pause_events_processing, syncVars, taken, inlined>>

-----------------------------------------------------------------------------
(* The loop.                                                                *)

\* The init thread has started the enabled mods and starts the loop.
StartLoop ==
    /\ phase = "boot"
    /\ Idle(Loop)
    /\ phase' = "top"
    /\ UNCHANGED <<modVars, lua, queueVars, m_pause_events_processing, syncVars, agenda, taken,
                   requests, inlined>>

\* The head of a pass: m_event_queue_mutex is taken if the queue is not empty.
Fetch ==
    /\ phase = "top"
    /\ ~m_pause_events_processing
    /\ phase' = IF m_queued_events = <<>> THEN "input" ELSE "events"
    /\ UNCHANGED <<modVars, lua, queueVars, m_pause_events_processing, syncVars, agenda, taken,
                   requests, inlined>>

BatchOver == executed = Len(m_queued_events) \/ executed = max_events_executed_per_frame

\* The predicate of remove_if executes an event, which stays in the queue.
RunEvent ==
    /\ phase = "events"
    /\ Idle(Loop)
    /\ ~BatchOver
    /\ executed' = executed + 1
    /\ Then(Loop, Handling(m_queued_events[executed + 1]))
    /\ inlined' = FALSE
    /\ UNCHANGED <<modVars, lua, m_queued_events, phase, m_pause_events_processing, syncVars, taken,
                   requests>>

\* Slip: the count of executed events is not reset.
EndBatchKeepsCount ==
    /\ phase = "events"
    /\ Idle(Loop)
    /\ BatchOver
    /\ m_queued_events' = SubSeq(m_queued_events, executed + 1, Len(m_queued_events))
    /\ phase' = "input"
    /\ UNCHANGED <<modVars, lua, executed, m_pause_events_processing, syncVars, agenda, taken,
                   requests, inlined>>

\* Slip: the whole queue is cleared.
EndBatchClears ==
    /\ phase = "events"
    /\ Idle(Loop)
    /\ BatchOver
    /\ m_queued_events' = <<>>
    /\ executed' = 0
    /\ phase' = "input"
    /\ UNCHANGED <<modVars, lua, m_pause_events_processing, syncVars, agenda, taken, requests, inlined>>

\* The executed events are erased and the mutex is released.
EndBatch ==
    /\ phase = "events"
    /\ Idle(Loop)
    /\ BatchOver
    /\ m_queued_events' = SubSeq(m_queued_events, executed + 1, Len(m_queued_events))
    /\ executed' = 0
    /\ phase' = "input"
    /\ UNCHANGED <<modVars, lua, m_pause_events_processing, syncVars, agenda, taken, requests, inlined>>

\* Handler::process_event copies the callbacks of the pressed key and then
\* calls them: a Lua key bind, the hot-reload key, or the one after the other.
Input ==
    /\ phase = "input"
    /\ phase' = "sync"
    /\ \E reload \in BOOLEAN, binds \in {<<>>} \cup
             {<<<<"enter", i>>>> : i \in {j \in Instances : stage[j] = "started"}} :
          /\ Then(Loop, (IF reload THEN RestartAll ELSE <<>>) \o binds)
          /\ requests' = requests + IF reload THEN Len(ModNames) ELSE 0
          /\ requests' <= MaxRequests
          /\ inlined' = (reload /\ binds # <<>>)
    /\ UNCHANGED <<modVars, lua, queueVars, m_pause_events_processing, syncVars, taken>>

\* Slip: the loop answers without waking the watcher.
AnswerSilently ==
    /\ phase = "sync"
    /\ Idle(Loop)
    /\ IF sync = "WaitForMain"
       THEN sync' = "WaitForOther" /\ phase' = "await"
       ELSE phase' = "top" /\ UNCHANGED sync
    /\ UNCHANGED <<modVars, lua, queueVars, m_pause_events_processing, watcher, notices, overwritten,
                   agenda, taken, requests, inlined>>

\* process_sync_request: the answer to a waiting watcher, and notify_one.
Answer ==
    /\ phase = "sync"
    /\ Idle(Loop)
    /\ IF sync = "WaitForMain"
       THEN /\ sync' = "WaitForOther"
            /\ phase' = "await"
            /\ watcher' = IF watcher = "asleep" THEN "wait" ELSE watcher
       ELSE phase' = "top" /\ UNCHANGED <<sync, watcher>>
    /\ UNCHANGED <<modVars, lua, queueVars, m_pause_events_processing, notices, overwritten, agenda,
                   taken, requests, inlined>>

\* Slip: the loop does not wait for the watcher's section.
AwakeAtOnce ==
    /\ phase = "await"
    /\ phase' = "late"
    /\ UNCHANGED <<modVars, lua, queueVars, m_pause_events_processing, syncVars, agenda, taken,
                   requests, inlined>>

\* The loop finds that the value it waited on has changed...
Awake ==
    /\ phase = "await"
    /\ sync # "WaitForOther"
    /\ phase' = "late"
    /\ UNCHANGED <<modVars, lua, queueVars, m_pause_events_processing, syncVars, agenda, taken,
                   requests, inlined>>

\* ... and stores Idle, whatever the value is by then.
StoreIdle ==
    /\ phase = "late"
    /\ sync' = "Idle"
    /\ overwritten' = (overwritten \/ sync = "WaitForMain")
    /\ phase' = "top"
    /\ UNCHANGED <<modVars, lua, queueVars, m_pause_events_processing, watcher, notices, agenda,
                   taken, requests, inlined>>

LoopStep == StartLoop \/ Fetch \/ RunEvent \/ EndBatch \/ Input \/ Answer \/ Awake \/ StoreIdle

-----------------------------------------------------------------------------
(* The polling thread: ScopedThreadSynchronizer around what a notice does.  *)

Notice ==
    /\ watcher = "poll"
    /\ phase # "boot"
    /\ notices < MaxNotices
    /\ notices' = notices + 1
    /\ sync' = "WaitForMain"
    /\ watcher' = "wait"
    /\ UNCHANGED <<modVars, lua, queueVars, phase, m_pause_events_processing, overwritten, agenda,
                   taken, requests, inlined>>

\* The wait blocks if the value has not changed by now; only a notification
\* wakes the thread.
FallAsleep ==
    /\ watcher = "wait"
    /\ sync = "WaitForMain"
    /\ watcher' = "asleep"
    /\ UNCHANGED <<modVars, lua, queueVars, phase, m_pause_events_processing, sync, notices,
                   overwritten, agenda, taken, requests, inlined>>

\* A notice is about the scripts of a mod, the mods directory, or a library
\* (nothing is done for the last).
BeginSection ==
    /\ watcher = "wait"
    /\ sync # "WaitForMain"
    /\ watcher' = "section"
    /\ \/ \E i \in ToSet(m_mods) : HasStarted(i) /\ Then(Watcher, Reload(i))
       \/ Then(Watcher, Discover)
       \/ UNCHANGED agenda
    /\ UNCHANGED <<modVars, lua, queueVars, phase, m_pause_events_processing, sync, notices,
                   overwritten, taken, requests, inlined>>

EndSection ==
    /\ watcher = "section"
    /\ Idle(Watcher)
    /\ sync' = "Complete"
    /\ watcher' = "poll"
    /\ UNCHANGED <<modVars, lua, queueVars, phase, m_pause_events_processing, notices, overwritten,
                   agenda, taken, requests, inlined>>

WatcherStep == FallAsleep \/ BeginSection \/ EndSection

Next ==
    \/ \E t \in Threads : Step(t)
    \/ LoopStep \/ WatcherStep \/ UnlockedStep \/ Notice \/ GuiRequest
    \/ \E i \in Instances : CheckStop(i) \/ GameCallback(i)

Spec == Init /\ [][Next]_vars

\* A thread that has something to do does it, and a mutex that is released
\* again and again is obtained in the end: the async thread sleeps outside
\* m_thread_actions_mutex for that. Nothing obliges a mod, a user or the file
\* system to ask for anything.
FairSpec ==
    /\ Spec
    /\ SF_vars(LoopStep \/ Step(Loop))
    /\ SF_vars(WatcherStep \/ Step(Watcher))
    /\ WF_vars(Step(Game)) /\ WF_vars(Step(Gui))
    /\ \A i \in Instances : SF_vars(CheckStop(i) \/ Step(Async(i)))

-----------------------------------------------------------------------------
Steps == {"pause", "resume", "scan", "uninstall", "join", "close", "delete", "clear", "create", "replace",
          "launch", "enter", "leave", "append"}

TypeOK ==
    /\ \A k \in DOMAIN m_mods : m_mods[k] \in Instances
    /\ name \in [Instances -> Names \cup {NoName}]
    /\ stage \in [Instances -> {"unborn", "created", "started", "closed"}]
    /\ stopping \subseteq Instances
    /\ async \in [Instances -> {"none", "running", "exited"}]
    /\ lua.by \in Threads \cup {Nobody} /\ lua.count \in Nat
    /\ \A k \in DOMAIN m_queued_events : m_queued_events[k] \in Events
    /\ executed \in 0 .. Len(m_queued_events)
    /\ phase \in {"boot", "top", "events", "input", "sync", "await", "late"}
    /\ m_pause_events_processing \in BOOLEAN
    /\ sync \in {"Idle", "WaitForMain", "WaitForOther", "Complete"}
    /\ watcher \in {"poll", "wait", "asleep", "section"}
    /\ DOMAIN agenda = Threads
    /\ \A t \in Threads : \A k \in DOMAIN agenda[t] : agenda[t][k][1] \in Steps
    /\ \A k \in DOMAIN taken : taken[k] \in Instances
    /\ requests \in 0 .. MaxRequests
    /\ notices \in 0 .. MaxNotices
    /\ overwritten \in BOOLEAN
    /\ inlined \in BOOLEAN

\* t runs Lua code of instance i, with m_thread_actions_mutex held...
InsideOf(t, i) == \E k \in DOMAIN agenda[t] : agenda[t][k] = <<"leave", i>>
LockedIn(t) == {i \in Instances : InsideOf(t, i)}

\* ... or without it.
UnlockedIn(t, i) == t = Game /\ taken # <<>> /\ Head(taken) = i

\* When a Lua state is closed its async thread is gone and no callback of it is
\* running, but where the mutex that LuaMod::uninstall takes cannot help: the
\* loop thread had a request executed inside Lua code, or was given the
\* hot-reload key with a key bind (UE4SSProgram.cpp queue_reinstall_mod); the
\* game thread calls it without the mutex, from process_simple_actions or as
\* the post callback of a script hook; or the watcher ran beside the loop.
ClosedStateIsQuiet ==
    \A i \in Instances : stage[i] = "closed" /\ ~overwritten =>
        /\ async[i] = "none"
        /\ \A t \in Threads : InsideOf(t, i) \/ UnlockedIn(t, i) =>
              (t = Loop /\ inlined) \/ (UnlockedIn(t, i) /\ ~InsideOf(t, i))

\* However restarts, uninstalls, starts by path, reloads and scans of the mods
\* directory are ordered, no two instances of one mod run, and a running one
\* is in m_mods, unless the watcher ran beside the loop.
OneInstanceRuns ==
    ~overwritten =>
        \A i \in Instances : stage[i] = "started" =>
            /\ i \in ToSet(m_mods)
            /\ \A j \in Instances : stage[j] = "started" /\ name[j] = name[i] => j = i

\* The watcher changes mods only while the loop waits for it, unless the loop
\* overwrote a request that was made before it stored Idle (Sync.cpp).
SectionExcludesLoop == watcher = "section" /\ ~overwritten => phase = "await"

\* What t is blocked by, a thread or nothing.
BlockedBy(t) ==
    IF Idle(t) THEN IF t = Loop /\ phase = "await" /\ watcher = "section" THEN {Watcher} ELSE {}
    ELSE CASE agenda[t][1][1] = "append" /\ QueueHeld -> {Loop}
           [] agenda[t][1][1] = "join" /\ async[Subject(t)] # "exited" -> {Async(Subject(t))}
           [] agenda[t][1][1] \in {"close", "enter"} /\ ~CanLock(t) -> {lua.by}
           [] agenda[t][1][1] = "launch" /\ ~CanLock(t) -> {lua.by}
           [] OTHER -> {}

CircularWait ==
    \E S \in SUBSET {t \in Threads : BlockedBy(t) # {}} :
        S # {} /\ \A t \in S : BlockedBy(t) \cap S # {}

\* A circular wait is possible only while a batch of events is being executed
\* and a Lua callback on another thread asks for a restart or an uninstall, or
\* when Lua on the loop thread had a request executed inside it.
DeadlockNeedsRequestFromLua ==
    CircularWait =>
        \/ inlined
        \/ QueueHeld /\ \E t \in Threads : LockedIn(t) # {} /\ NextIs(t, "append")

\* What the comment in LuaMod::uninstall claims of joining the async thread
\* before the mutex is taken: that it avoids deadlock.
NoCircularWait == ~CircularWait

Contract == INSTANCE EventQueueContract WITH
    NoEvent <- <<>>,
    pending <- SubSeq(m_queued_events, executed + 1, Len(m_queued_events)),
    current <- IF executed = 0 THEN <<>> ELSE m_queued_events[executed]

\* The vector that is executed inside remove_if and erased afterwards is a
\* queue: every accepted event runs once, in order (UE4SSProgram::update).
ImplementsQueue == Contract!Spec

\* An event that was accepted is executed, unless the threads are in a circular
\* wait or the watcher ran beside the loop (UE4SSProgram::update).
EventsServed ==
    \A k \in 1 .. MaxRequests :
        Len(m_queued_events) >= k ~> (Len(m_queued_events) < k \/ CircularWait \/ overwritten)

\* A notice the polling thread acts on is dealt with, unless the loop overwrote
\* its request or the threads are in a circular wait (Sync.cpp).
NoticesServed == watcher # "poll" ~> (watcher = "poll" \/ overwritten \/ CircularWait)
=============================================================================
