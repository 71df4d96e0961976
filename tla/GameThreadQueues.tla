--------------------------- MODULE GameThreadQueues ---------------------------
(***************************************************************************)
(* The work that other threads leave for the game thread: the actions of   *)
(* ExecuteInGameThread, and the notifications of objects that were         *)
(* constructed on another thread (NotifyOnNewObject). The EngineTick and   *)
(* ProcessEvent hooks carry them out, in passes that nest when Lua makes   *)
(* the game call a function. Simple actions run without                    *)
(* m_thread_actions_mutex, notifications with it.                          *)
(***************************************************************************)
EXTENDS Naturals, FiniteSets, SequencesExt, Vectors

CONSTANTS
    Mods,
    MaxActions,    \* bound on the calls of ExecuteInGameThread
    MaxListeners,  \* bound on the calls of NotifyOnNewObject
    Addresses,     \* where objects are allocated
    MaxObjects,    \* bound on the objects constructed in the entry of the array
    MaxDepth       \* bound on the nesting of passes and constructions

ASSUME QueueConstants ==
    /\ IsFiniteSet(Mods) /\ Mods # {}
    /\ Addresses # {}
    /\ MaxActions \in Nat /\ MaxListeners \in Nat /\ MaxObjects \in Nat
    /\ MaxDepth \in Nat \ {0}

Methods == {"EngineTick", "ProcessEvent"}
Actions == 1 .. MaxActions
Listeners == 1 .. MaxListeners
Objects == 1 .. MaxObjects

VARIABLES
    open,        \* mods whose Lua state is open
    action,      \* the mod and the method of every action queued so far
    ready,       \* m_engine_tick_actions, m_game_thread_actions
    waiting,     \* m_pending_engine_tick_actions, m_pending_game_thread_actions
    processing,  \* m_is_processing_actions
    executing,   \* m_is_currently_executing_game_action
    registered,  \* the sticky flags that let a hook past its fast path
    listeners,   \* m_static_construct_object_lua_callbacks
    pending,     \* m_pending_notify_on_new_object_callbacks
    slot,        \* an entry of GUObjectArray: the object in it and its serial number
    constructing, \* another thread is still in the constructor of that object
    frames,      \* passes and listener calls on the game thread's stack
    address,     \* history: the addresses of all objects so far
    enrolled,    \* history: the mod of every listener so far
    finished,    \* history: actions that have run
    dropped,     \* history: actions erased when their mod was uninstalled
    late,        \* history: actions that were queued during a pass
    deferred,    \* history: actions that were deferred
    escaped,     \* history: actions on the stack when their mod was uninstalled
    cancelled,   \* history: listeners whose callback returned true
    spared       \* history: cancelled listeners of a construction in which a callback threw

actionVars == <<action, ready, waiting>>
notifyVars == <<listeners, pending, enrolled, cancelled, spared>>
objectVars == <<slot, constructing, address>>
history == <<finished, dropped, late, deferred, escaped>>
vars == <<open, actionVars, processing, executing, registered, notifyVars, objectVars,
          frames, history>>

NoObject == [object |-> 0, serial |-> 0]

Init ==
    /\ open = Mods
    /\ action = <<>>
    /\ ready = [h \in Methods |-> <<>>]
    /\ waiting = [h \in Methods |-> <<>>]
    /\ processing = FALSE
    /\ executing = FALSE
    /\ registered \in {{}, {"delayed"}}
    /\ listeners = <<>>
    /\ pending = <<>>
    /\ slot = NoObject
    /\ frames = <<>>
    /\ constructing = FALSE
    /\ address = <<>>
    /\ enrolled = <<>>
    /\ finished = {}
    /\ dropped = {}
    /\ late = {}
    /\ deferred = {}
    /\ escaped = {}
    /\ cancelled = {}
    /\ spared = {}

-----------------------------------------------------------------------------
(* The game thread's stack. A frame is busy while Lua of its first item     *)
(* runs; the items are actions, notifications or listeners.                 *)

Top == frames[Len(frames)]
At(stage) == frames # <<>> /\ Top.at = stage
SetTop(f) == frames' = ReplaceAt(frames, Len(frames), f)
Push(f) == frames' = Append(frames, f)
Pop == frames' = Front(frames)

Frame(hook, at, items) == [hook |-> hook, at |-> at, items |-> items, deferred |-> <<>>,
                           doomed |-> {}, busy |-> FALSE]

\* The game runs its own code or that of Lua, and may call anything.
GameIsFree == frames # <<>> => Top.busy

\* The game thread holds m_thread_actions_mutex around all callbacks but those
\* of simple actions.
GameHolds ==
    \E k \in DOMAIN frames : \/ frames[k].at \in {"notify", "construct"}
                             \/ frames[k].at = "delayed" /\ frames[k].busy

\* The mods that the Lua code on top of the stack may be of.
Caller ==
    IF frames = <<>> \/ At("delayed") THEN open
    ELSE IF At("simple") THEN {action[Head(Top.items)].mod}
    ELSE IF At("notify") THEN {enrolled[Head(Top.items).listener]}
    ELSE {enrolled[Head(Top.items)]}

\* Another thread, or the game thread when it is free, runs Lua of mod m under
\* the mutex.
MayEnter(m) == m \in open /\ (~GameHolds \/ (GameIsFree /\ m \in Caller))

-----------------------------------------------------------------------------
(* Registration and removal.                                                *)

\* Slip: a new action goes before the others.
ExecuteInGameThreadFirst(m, h) ==
    /\ MayEnter(m)
    /\ Len(action) < MaxActions
    /\ action' = Append(action, [mod |-> m, method |-> h])
    /\ ready' = [ready EXCEPT ![h] = <<Len(action) + 1>> \o @]
    /\ registered' = registered \cup {h}
    /\ UNCHANGED <<open, waiting, processing, executing, notifyVars, objectVars, frames, history>>

ExecuteInGameThread(m, h) ==
    /\ MayEnter(m)
    /\ Len(action) < MaxActions
    /\ action' = Append(action, [mod |-> m, method |-> h])
    /\ IF processing
       THEN /\ waiting' = [waiting EXCEPT ![h] = Append(@, Len(action) + 1)]
            /\ late' = late \cup {Len(action) + 1}
            /\ UNCHANGED ready
       ELSE /\ ready' = [ready EXCEPT ![h] = Append(@, Len(action) + 1)]
            /\ UNCHANGED <<waiting, late>>
    /\ registered' = registered \cup {h}
    /\ UNCHANGED <<open, processing, executing, notifyVars, objectVars, frames, finished, dropped,
                   deferred, escaped>>

\* It takes no mutex itself. From a simple action it is a data race with a
\* holder of the mutex on another thread, which this model leaves out.
NotifyOnNewObject(m) ==
    /\ MayEnter(m)
    /\ Len(enrolled) < MaxListeners
    /\ enrolled' = Append(enrolled, m)
    /\ listeners' = Append(listeners, Len(enrolled) + 1)
    /\ UNCHANGED <<open, actionVars, processing, executing, registered, pending, cancelled, spared,
                   objectVars, frames, history>>

ActionsOf(m) == {a \in DOMAIN action : action[a].mod = m}
ListenersOf(m) == {l \in DOMAIN enrolled : enrolled[l] = m}
OnStack == UNION {ToSet(frames[k].items) \cup ToSet(frames[k].deferred) :
                     k \in {l \in DOMAIN frames : frames[l].at = "simple"}}

\* What is kept of the vectors of both methods.
KeptOfBoth(vectors, keep) ==
    {pair \in [Methods -> UNION {Kept(vectors[h], keep) : h \in Methods}] :
        \A h \in Methods : pair[h] \in Kept(vectors[h], keep)}

\* Slip: the actions in the pending vectors are left there.
UninstallKeepsPending(m) ==
    /\ m \in open
    /\ ~GameHolds
    /\ open' = open \ {m}
    /\ listeners' \in Kept(listeners, DOMAIN enrolled \ ListenersOf(m))
    /\ pending' = <<>>
    /\ ready' \in KeptOfBoth(ready, DOMAIN action \ ActionsOf(m))
    /\ dropped' = dropped \cup {a \in ActionsOf(m) : \E h \in Methods : a \in ToSet(ready[h])}
    /\ escaped' = escaped \cup (ActionsOf(m) \cap OnStack)
    /\ UNCHANGED <<action, waiting, processing, executing, registered, enrolled, cancelled, spared,
                   objectVars, frames, finished, late, deferred>>

\* LuaMod::uninstall under the mutex: the mod's listeners, every pending
\* notification, and the mod's queued actions are erased, the state is closed.
\* What a pass has taken out of the vectors is not there to be erased.
Uninstall(m) ==
    /\ m \in open
    /\ ~GameHolds
    /\ open' = open \ {m}
    /\ listeners' \in Kept(listeners, DOMAIN enrolled \ ListenersOf(m))
    /\ pending' = <<>>
    /\ ready' \in KeptOfBoth(ready, DOMAIN action \ ActionsOf(m))
    /\ waiting' \in KeptOfBoth(waiting, DOMAIN action \ ActionsOf(m))
    /\ dropped' = dropped \cup {a \in ActionsOf(m) :
                                   \E h \in Methods : a \in ToSet(ready[h]) \cup ToSet(waiting[h])}
    /\ escaped' = escaped \cup (ActionsOf(m) \cap OnStack)
    /\ UNCHANGED <<action, processing, executing, registered, enrolled, cancelled, spared,
                   objectVars, frames, finished, late, deferred>>

-----------------------------------------------------------------------------
(* A pass of a hook: simple actions, delayed actions, notifications.        *)

\* engine_tick_hook and process_event_hook past the fast path. Ticks do not
\* nest; ProcessEvent is called by any Lua that calls a function of the game.
BeginPass(h) ==
    /\ GameIsFree
    /\ Len(frames) < MaxDepth
    /\ h = "EngineTick" => frames = <<>>
    /\ registered \cap {h, "delayed", "notify"} # {}
    /\ processing' = TRUE
    /\ Push(Frame(h, "take", <<>>))
    /\ UNCHANGED <<open, actionVars, executing, registered, notifyVars, objectVars, history>>

\* Slip: the vector is copied instead of moved out.
TakeActionsCopy ==
    /\ At("take")
    /\ IF ready[Top.hook] = <<>>
       THEN SetTop([Top EXCEPT !.at = "delayed"])
       ELSE SetTop([Top EXCEPT !.at = "simple", !.items = ready[Top.hook]])
    /\ UNCHANGED <<open, actionVars, processing, executing, registered, notifyVars, objectVars, history>>

\* process_simple_actions moves the vector out under the mutex.
TakeActions ==
    /\ At("take")
    /\ IF ready[Top.hook] = <<>>
       THEN SetTop([Top EXCEPT !.at = "delayed"]) /\ UNCHANGED ready
       ELSE /\ SetTop([Top EXCEPT !.at = "simple", !.items = ready[Top.hook]])
            /\ ready' = [ready EXCEPT ![Top.hook] = <<>>]
    /\ UNCHANGED <<open, action, waiting, processing, executing, registered, notifyVars, objectVars, history>>

\* Without the mutex: an action runs, or is deferred if one runs already.
BeginAction ==
    /\ At("simple") /\ ~Top.busy /\ Top.items # <<>>
    /\ IF executing
       THEN /\ SetTop([Top EXCEPT !.items = Tail(@), !.deferred = Append(@, Head(Top.items))])
            /\ deferred' = deferred \cup {Head(Top.items)}
            /\ UNCHANGED executing
       ELSE /\ SetTop([Top EXCEPT !.busy = TRUE])
            /\ executing' = TRUE
            /\ UNCHANGED deferred
    /\ UNCHANGED <<open, actionVars, processing, registered, notifyVars, objectVars, finished, dropped,
                   late, escaped>>

\* It returns, or throws inside TRY.
EndAction ==
    /\ At("simple") /\ Top.busy
    /\ SetTop([Top EXCEPT !.busy = FALSE, !.items = Tail(@)])
    /\ executing' = FALSE
    /\ finished' = finished \cup {Head(Top.items)}
    /\ UNCHANGED <<open, actionVars, processing, registered, notifyVars, objectVars, dropped, late,
                   deferred, escaped>>

\* The deferred actions go behind what has been queued since.
EndActions ==
    /\ At("simple") /\ ~Top.busy /\ Top.items = <<>>
    /\ ready' = [ready EXCEPT ![Top.hook] = @ \o Top.deferred]
    /\ SetTop(Frame(Top.hook, "delayed", <<>>))
    /\ UNCHANGED <<open, action, waiting, processing, executing, registered, notifyVars, objectVars, history>>

\* process_delayed_actions runs an action, which shares the executing flag.
BeginDelayed ==
    /\ At("delayed") /\ ~Top.busy
    /\ "delayed" \in registered
    /\ ~executing
    /\ executing' = TRUE
    /\ SetTop([Top EXCEPT !.busy = TRUE])
    /\ UNCHANGED <<open, actionVars, processing, registered, notifyVars, objectVars, history>>

EndDelayed ==
    /\ At("delayed")
    /\ executing' = (executing /\ ~Top.busy)
    /\ SetTop(Frame(Top.hook, "collect", <<>>))
    /\ UNCHANGED <<open, actionVars, processing, registered, notifyVars, objectVars, history>>

\* Slip: the serial number is not compared.
StillValidAnySerial(p) == slot.object # 0 /\ p.listener \in ToSet(listeners)

\* The object array still has an object at the index, with the serial number
\* if one was known, and the listener is still registered.
StillValid(p) ==
    /\ slot.object # 0
    /\ p.serial # 0 => slot.serial = p.serial
    /\ p.listener \in ToSet(listeners)

\* process_pending_notify_on_new_object_callbacks takes the queue and the
\* pointers; the mutex is held from here until the batch is done. The member
\* asOf is history: the objects there were by then.
CollectNotifications ==
    /\ At("collect")
    /\ IF pending = <<>>
       THEN SetTop([Top EXCEPT !.at = "finish"])
       ELSE \E valid \in Kept(pending, {p \in ToSet(pending) : StillValid(p)}) :
               SetTop([Top EXCEPT !.at = "notify",
                          !.items = [k \in DOMAIN valid |->
                             [listener |-> valid[k].listener, wanted |-> valid[k].object,
                              serial |-> valid[k].serial, given |-> address[slot.object],
                              asOf |-> Len(address)]]])
    /\ pending' = <<>>
    /\ UNCHANGED <<open, actionVars, processing, executing, registered, listeners, enrolled, cancelled,
                   spared, objectVars, history>>

\* A notification is skipped unless the index still leads to that address.
BeginNotification ==
    /\ At("notify") /\ ~Top.busy /\ Top.items # <<>>
    /\ IF slot.object # 0 /\ address[slot.object] = Head(Top.items).given
       THEN SetTop([Top EXCEPT !.busy = TRUE])
       ELSE SetTop([Top EXCEPT !.items = Tail(@)])
    /\ UNCHANGED <<open, actionVars, processing, executing, registered, notifyVars, objectVars, history>>

\* The callback returns, true to cancel itself, or throws inside TRY.
EndNotification(cancel) ==
    /\ At("notify") /\ Top.busy
    /\ LET l == Head(Top.items).listener
       IN  /\ SetTop([Top EXCEPT !.busy = FALSE, !.items = Tail(@),
                                 !.doomed = IF cancel THEN @ \cup {l} ELSE @])
           /\ cancelled' = IF cancel THEN cancelled \cup {l} ELSE cancelled
    /\ UNCHANGED <<open, actionVars, processing, executing, registered, listeners, pending, enrolled,
                   spared, objectVars, history>>

\* Slip: the cancelled listeners stay.
EndNotificationsForgets ==
    /\ At("notify") /\ ~Top.busy /\ Top.items = <<>>
    /\ SetTop(Frame(Top.hook, "finish", <<>>))
    /\ UNCHANGED <<open, actionVars, processing, executing, registered, notifyVars, objectVars, history>>

\* Only now the cancelled listeners are erased.
EndNotifications ==
    /\ At("notify") /\ ~Top.busy /\ Top.items = <<>>
    /\ listeners' \in Kept(listeners, DOMAIN enrolled \ Top.doomed)
    /\ SetTop(Frame(Top.hook, "finish", <<>>))
    /\ UNCHANGED <<open, actionVars, processing, executing, registered, pending, enrolled, cancelled,
                   spared, objectVars, history>>

\* Slip: what was queued during the pass is not moved over.
EndPassForgets ==
    /\ At("finish")
    /\ processing' = FALSE
    /\ waiting' = [waiting EXCEPT ![Top.hook] = <<>>]
    /\ Pop
    /\ UNCHANGED <<open, action, ready, executing, registered, notifyVars, objectVars, history>>

\* The end of a pass, of a nested one too: the flag is cleared, and what was
\* queued meanwhile for this method becomes ready.
EndPass ==
    /\ At("finish")
    /\ processing' = FALSE
    /\ ready' = [ready EXCEPT ![Top.hook] = @ \o waiting[Top.hook]]
    /\ waiting' = [waiting EXCEPT ![Top.hook] = <<>>]
    /\ Pop
    /\ UNCHANGED <<open, action, executing, registered, notifyVars, objectVars, history>>

Pass ==
    \/ TakeActions \/ BeginAction \/ EndAction \/ EndActions \/ EndDelayed
    \/ CollectNotifications \/ BeginNotification \/ (\E c \in BOOLEAN : EndNotification(c))
    \/ EndNotifications \/ EndPass

-----------------------------------------------------------------------------
(* StaticConstructObject, on another thread and on the game thread.         *)

\* A new object in the empty entry of the array, without a serial number.
Appear(a) ==
    /\ slot.object = 0
    /\ Len(address) < MaxObjects
    /\ address' = Append(address, a)
    /\ slot' = [object |-> Len(address) + 1, serial |-> 0]

\* Another thread constructs an object, and holds no mutex...
ConstructElsewhere ==
    /\ \E a \in Addresses : Appear(a)
    /\ constructing' = TRUE
    /\ UNCHANGED <<open, actionVars, processing, executing, registered, notifyVars, frames, history>>

\* ... and the post callback takes it, unless no mod has ever listened: each
\* listener (all of them listen to the class) gets an entry, with the serial
\* number of that moment.
QueueNotifications ==
    /\ constructing
    /\ enrolled # <<>> => ~GameHolds
    /\ constructing' = FALSE
    /\ pending' = pending \o [k \in DOMAIN listeners |->
                         [listener |-> listeners[k], object |-> slot.object, serial |-> slot.serial]]
    /\ registered' = IF listeners = <<>> THEN registered ELSE registered \cup {"notify"}
    /\ UNCHANGED <<open, actionVars, processing, executing, listeners, enrolled, cancelled, spared, slot,
                   address, frames, history>>

\* Slip: the number is that of the next object.
AllocateSerialNext ==
    /\ slot.object # 0 /\ slot.serial = 0
    /\ slot' = [slot EXCEPT !.serial = Len(address) + 1]
    /\ UNCHANGED <<open, actionVars, processing, executing, registered, notifyVars, constructing, address,
                   frames, history>>

\* AllocateSerialNumber, when somebody takes a weak pointer.
AllocateSerial ==
    /\ slot.object # 0 /\ slot.serial = 0
    /\ slot' = [slot EXCEPT !.serial = slot.object]
    /\ UNCHANGED <<open, actionVars, processing, executing, registered, notifyVars, constructing, address,
                   frames, history>>

Destroy ==
    /\ slot.object # 0 /\ ~constructing
    /\ slot' = NoObject
    /\ UNCHANGED <<open, actionVars, processing, executing, registered, notifyVars, constructing, address,
                   frames, history>>

\* The game thread constructs an object, in this entry or another: the ids of
\* the listeners are collected, and each is looked up again before it is called.
Construct ==
    /\ GameIsFree
    /\ Len(frames) < MaxDepth
    /\ listeners # <<>>
    /\ UNCHANGED <<slot, address>> \/ \E a \in Addresses : Appear(a)
    /\ Push(Frame("construct", "construct", listeners))
    /\ UNCHANGED <<open, actionVars, processing, executing, registered, notifyVars, constructing, history>>

ConstructUnheard ==
    /\ GameIsFree
    /\ listeners = <<>>
    /\ \E a \in Addresses : Appear(a)
    /\ UNCHANGED <<open, actionVars, processing, executing, registered, notifyVars, constructing, frames,
                   history>>

BeginListener ==
    /\ At("construct") /\ ~Top.busy /\ Top.items # <<>>
    /\ IF Head(Top.items) \in ToSet(listeners)
       THEN SetTop([Top EXCEPT !.busy = TRUE])
       ELSE SetTop([Top EXCEPT !.items = Tail(@)])
    /\ UNCHANGED <<open, actionVars, processing, executing, registered, notifyVars, objectVars, history>>

EndListener(cancel) ==
    /\ At("construct") /\ Top.busy
    /\ LET l == Head(Top.items)
       IN  /\ SetTop([Top EXCEPT !.busy = FALSE, !.items = Tail(@),
                                 !.doomed = IF cancel THEN @ \cup {l} ELSE @])
           /\ cancelled' = IF cancel THEN cancelled \cup {l} ELSE cancelled
    /\ UNCHANGED <<open, actionVars, processing, executing, registered, listeners, pending, enrolled,
                   spared, objectVars, history>>

\* call_function throws: one TRY is around it all, so nothing is erased.
ListenerThrows ==
    /\ At("construct") /\ Top.busy
    /\ Pop
    /\ spared' = spared \cup Top.doomed
    /\ UNCHANGED <<open, actionVars, processing, executing, registered, listeners, pending, enrolled,
                   cancelled, objectVars, history>>

EndConstruct ==
    /\ At("construct") /\ ~Top.busy /\ Top.items = <<>>
    /\ listeners' \in Kept(listeners, DOMAIN enrolled \ Top.doomed)
    /\ Pop
    /\ UNCHANGED <<open, actionVars, processing, executing, registered, pending, enrolled, cancelled,
                   spared, objectVars, history>>

Construction ==
    BeginListener \/ (\E c \in BOOLEAN : EndListener(c)) \/ ListenerThrows \/ EndConstruct

Next ==
    \/ \E m \in Mods, h \in Methods : ExecuteInGameThread(m, h)
    \/ \E m \in Mods : NotifyOnNewObject(m) \/ Uninstall(m)
    \/ \E h \in Methods : BeginPass(h)
    \/ Pass \/ BeginDelayed \/ Construct \/ Construction
    \/ ConstructElsewhere \/ QueueNotifications \/ ConstructUnheard \/ AllocateSerial \/ Destroy

Spec == Init /\ [][Next]_vars

Returns ==
    \/ EndAction \/ EndDelayed \/ ListenerThrows
    \/ \E c \in BOOLEAN : EndNotification(c) \/ EndListener(c)

\* The game thread gets on with what it is doing, a callback that makes the
\* game call hooks returns in the end, and the main loop of the game calls both
\* hooks again and again.
FairSpec ==
    /\ Spec
    /\ WF_vars(Pass \/ Construction)
    /\ \A d \in 1 .. MaxDepth : SF_vars(Len(frames) = d /\ Returns)
    /\ \A h \in Methods : SF_vars(frames = <<>> /\ BeginPass(h))

-----------------------------------------------------------------------------
TypeOK ==
    /\ open \subseteq Mods
    /\ \A a \in DOMAIN action : action[a] \in [mod : Mods, method : Methods]
    /\ \A h \in Methods : ToSet(ready[h]) \cup ToSet(waiting[h]) \subseteq DOMAIN action
    /\ processing \in BOOLEAN /\ executing \in BOOLEAN
    /\ registered \subseteq Methods \cup {"delayed", "notify"}
    /\ ToSet(listeners) \subseteq DOMAIN enrolled
    /\ \A k \in DOMAIN pending :
          pending[k] \in [listener : Listeners, object : Objects, serial : Objects \cup {0}]
    /\ slot \in [object : Objects \cup {0}, serial : Objects \cup {0}]
    /\ constructing \in BOOLEAN
    /\ ToSet(address) \subseteq Addresses
    /\ \A k \in DOMAIN frames :
          /\ frames[k].hook \in Methods \cup {"construct"}
          /\ frames[k].at \in {"take", "simple", "delayed", "collect", "notify", "finish", "construct"}
          /\ k < Len(frames) => frames[k].busy
    /\ finished \cup dropped \cup late \cup deferred \cup escaped \subseteq DOMAIN action
    /\ spared \subseteq cancelled

Occurrences(a, s) == Cardinality({k \in DOMAIN s : s[k] = a})

Places(a) ==
    LET h == action[a].method
        held == {k \in DOMAIN frames : frames[k].at = "simple"}
    IN  Occurrences(a, ready[h]) + Occurrences(a, waiting[h])
        + Cardinality({k \in held : a \in ToSet(frames[k].items)})
        + Cardinality({k \in held : a \in ToSet(frames[k].deferred)})
        + Cardinality({a} \cap finished) + Cardinality({a} \cap dropped)

\* Through deferrals, nested passes and the two vectors of each method, an
\* action is never lost and never in two places: it is queued, in the hands of
\* one pass, done, or dropped with its mod (ExecuteInGameThread,
\* process_simple_actions).
ActionsConserved == \A a \in DOMAIN action : Places(a) = 1

\* The Lua state of an action that is about to run or runs was closed only if
\* a pass had the action in its hands when the mod was uninstalled.
ClosedOnlyIfTaken ==
    \A a \in DOMAIN action : a \notin finished \cup dropped \cup escaped => action[a].mod \in open

\* Two actions of one method run in the order they were queued if neither was
\* deferred, unless only the first was queued during a pass: it may still wait
\* when the end of a nested pass, or of one of the other hook, has cleared the
\* flag, and what is queued then passes it (process_simple_actions, EndPass).
ActionsInOrder ==
    \A a, b \in DOMAIN action :
        (/\ a < b /\ action[a].method = action[b].method /\ b \in finished
         /\ {a, b} \cap deferred = {} /\ (a \in late => b \in late))
            => a \in finished \cup dropped

\* A listener whose callback has returned true is off the list as soon as the
\* batch or the construction it was called in is over. One in whose
\* construction a later callback threw is the exception: it stays.
CancelledIsErased ==
    \A l \in cancelled \cap ToSet(listeners) :
        l \in spared \/ \E k \in DOMAIN frames : l \in frames[k].doomed

\* The object that the notification n would be given if it began now.
GivenRightly(n) ==
    \/ slot.object = n.wanted
    \/ n.serial = 0
    \/ slot.object > n.asOf /\ address[slot.object] = address[n.wanted]

\* A listener is notified of the object it was queued for, unless that had no
\* serial number when it was queued, or unless it was destroyed after the batch
\* was collected and another one was constructed at its index and its address
\* since: what is compared before the call is only the pointer
\* (process_pending_notify_on_new_object_callbacks).
NotifiedOfTheObject ==
    [][At("notify") /\ ~Top.busy /\ Len(frames') = Len(frames) /\ frames'[Len(frames)].busy
          => GivenRightly(Head(Top.items))]_vars

\* An action that is queued is done in the end, or dropped with its mod,
\* whatever passes nest and defer it.
ActionsServed ==
    \A a \in Actions : a \in DOMAIN action ~> a \in finished \cup dropped
=============================================================================
