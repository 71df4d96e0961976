------------------------------ MODULE ScriptHooks ------------------------------
(***************************************************************************)
(* The hooks of one native UFunction (RegisterHook): the two maps of       *)
(* UnrealScriptFunctionData with the callbacks to run before and after the *)
(* function, and the LuaUnrealScriptFunctionData each pair of callbacks    *)
(* points to. The game thread runs the callbacks, in calls that nest when  *)
(* Lua or the function itself calls the function again; the event loop     *)
(* uninstalls mods meanwhile. The maps are not guarded by the mutex, only  *)
(* by the flag bIsMidExecution.                                            *)
(***************************************************************************)
EXTENDS Naturals, FiniteSets, SequencesExt

CONSTANTS
    Mods,
    NoMod,
    MaxHooks,  \* bound on the calls of RegisterHook
    MaxDepth   \* bound on the nesting of calls of the function

ASSUME HookConstants ==
    /\ IsFiniteSet(Mods) /\ NoMod \notin Mods
    /\ MaxHooks \in Nat /\ MaxDepth \in Nat \ {0}

Hooks == 1 .. MaxHooks
Nothing == 0  \* the end iterator of a map
Kinds == {"pre", "post"}

VARIABLES
    open,       \* mods whose Lua state is open
    owner,      \* the mod of every hook registered so far, by id
    data,       \* g_hooked_script_function_data
    scheduled,  \* hooks whose data says scheduled_for_removal
    entries,    \* PreCallbacks and PostCallbacks
    requested,  \* entries that say UnregistrationRequested
    mid,        \* bIsMidExecution
    frames,     \* calls of the function on the game thread's stack
    leaving,    \* the mod that the event loop uninstalls, which holds the mutex
    toRemove,   \* entries it has yet to remove
    flagRead    \* what it has read of bIsMidExecution for the next one

loopVars == <<leaving, toRemove, flagRead>>
luaVars == <<open, owner>>
mapVars == <<entries, requested>>
vars == <<luaVars, data, scheduled, mapVars, mid, frames, loopVars>>

Init ==
    /\ open = Mods
    /\ owner = <<>>
    /\ data = {}
    /\ scheduled = {}
    /\ entries = [k \in Kinds |-> {}]
    /\ requested = [k \in Kinds |-> {}]
    /\ mid = FALSE
    /\ frames = <<>>
    /\ leaving = NoMod
    /\ toRemove = {}
    /\ flagRead = "unread"

-----------------------------------------------------------------------------
(* A call on the stack: its stage is a map it iterates, or "original"; hook *)
(* is where the iterator stands; at is how far the callback there has come. *)

Top == frames[Len(frames)]
At(stage, at) == frames # <<>> /\ Top.stage = stage /\ Top.at = at
SetTop(f) == frames' = ReplaceAt(frames, Len(frames), f)

First(s) == IF s = {} THEN Nothing ELSE CHOOSE h \in s : \A g \in s : h <= g
After(s, h) == First({g \in s : g > h})
Begin(f, stage, s) == [f EXCEPT !.stage = stage, !.hook = First(s), !.at = "look"]

\* The iterator may be used: its element has not been erased under it.
Stands(f) == f.stage \in Kinds /\ f.hook # Nothing => f.hook \in entries[f.stage]

\* Lua of the game thread, or the original function, may call anything.
GameIsFree == frames # <<>> => Top.at \in {"lua", "native"}

\* The pre callback holds m_thread_actions_mutex while its Lua runs.
GameHolds == \E k \in DOMAIN frames : frames[k].stage = "pre" /\ frames[k].at = "lua"

\* Lua of mod m takes the mutex: on another thread, or in a callback of m.
MayEnter(m) ==
    /\ m \in open /\ leaving = NoMod
    /\ GameHolds => Top.at = "lua" /\ owner[Top.hook] = m

-----------------------------------------------------------------------------
(* The functions of the Lua API.                                            *)

\* Slip: the callback after the function gets an id the data does not have.
RegisterHookNextId(m) ==
    LET h == Len(owner) + 1
    IN  /\ MayEnter(m)
        /\ h \in Hooks
        /\ owner' = Append(owner, m)
        /\ data' = data \cup {h}
        /\ entries' = [entries EXCEPT !["pre"] = @ \cup {h}, !["post"] = @ \cup {h + 1}]
        /\ UNCHANGED <<open, scheduled, requested, mid, frames, loopVars>>

\* Both callbacks and their data, as one step.
RegisterHook(m) ==
    LET h == Len(owner) + 1
    IN  /\ MayEnter(m)
        /\ h \in Hooks
        /\ owner' = Append(owner, m)
        /\ data' = data \cup {h}
        /\ entries' = [k \in Kinds |-> entries[k] \cup {h}]
        /\ UNCHANGED <<open, scheduled, requested, mid, frames, loopVars>>

\* Only the data is marked; any mod may name any ids.
UnregisterHook(m, h) ==
    /\ MayEnter(m)
    /\ h \in data
    /\ scheduled' = scheduled \cup {h}
    /\ UNCHANGED <<luaVars, data, mapVars, mid, frames, loopVars>>

\* Slip: it is left to the next call to remove the callback before.
RemoveHookPostOnly(h) ==
    /\ IF mid
       THEN requested' = [requested EXCEPT !["post"] = @ \cup {h}] /\ UNCHANGED entries
       ELSE entries' = [entries EXCEPT !["post"] = @ \ {h}] /\ UNCHANGED requested
    /\ data' = data \ {h}

\* Slip: the data stays.
RemoveHookKeepsData(h) ==
    /\ IF mid
       THEN requested' = [k \in Kinds |-> requested[k] \cup ({h} \cap entries[k])] /\ UNCHANGED entries
       ELSE /\ entries' = [k \in Kinds |-> entries[k] \ {h}]
            /\ requested' = [k \in Kinds |-> requested[k] \ {h}]
    /\ UNCHANGED data

\* What remove_if_scheduled does: RemoveCallback for both ids, then the data.
\* RemoveCallback marks the entry while the flag is set, and erases it otherwise.
RemoveHook(h) ==
    /\ IF mid
       THEN requested' = [k \in Kinds |-> requested[k] \cup ({h} \cap entries[k])] /\ UNCHANGED entries
       ELSE /\ entries' = [k \in Kinds |-> entries[k] \ {h}]
            /\ requested' = [k \in Kinds |-> requested[k] \ {h}]
    /\ data' = data \ {h}

-----------------------------------------------------------------------------
(* UnrealScriptFunctionHook on the game thread. Where an iterator or the    *)
(* data has gone the code's behaviour is undefined, and no step is left.    *)

Call ==
    /\ GameIsFree
    /\ Len(frames) < MaxDepth
    /\ mid' = TRUE
    /\ frames' = Append(frames, [stage |-> "pre", hook |-> First(entries["pre"]), at |-> "look",
                                 due |-> {}, ran |-> {}, visited |-> {}])
    /\ UNCHANGED <<luaVars, data, scheduled, mapVars, loopVars>>

\* FirePreCallbacks, FirePostCallbacks: an entry marked for unregistration is
\* erased, another one is called.
Look(k) ==
    /\ At(k, "look") /\ Top.hook # Nothing /\ Stands(Top)
    /\ IF Top.hook \in requested[k]
       THEN /\ entries' = [entries EXCEPT ![k] = @ \ {Top.hook}]
            /\ requested' = [requested EXCEPT ![k] = @ \ {Top.hook}]
            /\ SetTop([Top EXCEPT !.hook = After(entries[k], Top.hook)])
       ELSE /\ SetTop([Top EXCEPT !.at = "entered"])
            /\ UNCHANGED mapVars
    /\ UNCHANGED <<luaVars, data, scheduled, mid, loopVars>>

\* Slip: the iterator that erase returned is incremented.
AdvanceTwice(k) ==
    /\ At(k, "returned") /\ Stands(Top)
    /\ LET gone == {Top.hook} \cap requested[k]
           next == After(entries[k], Top.hook)
       IN  /\ entries' = [entries EXCEPT ![k] = @ \ gone]
           /\ requested' = [requested EXCEPT ![k] = @ \ gone]
           /\ SetTop([Top EXCEPT !.hook = IF gone = {} \/ next = Nothing THEN next
                                          ELSE After(entries[k], next),
                                 !.at = "look"])
    /\ UNCHANGED <<luaVars, data, scheduled, mid, loopVars>>

\* A callback has returned: marked meanwhile, the entry is erased.
Advance(k) ==
    /\ At(k, "returned") /\ Stands(Top)
    /\ LET gone == {Top.hook} \cap requested[k]
       IN  /\ entries' = [entries EXCEPT ![k] = @ \ gone]
           /\ requested' = [requested EXCEPT ![k] = @ \ gone]
    /\ SetTop([Top EXCEPT !.hook = After(entries[k], Top.hook), !.at = "look"])
    /\ UNCHANGED <<luaVars, data, scheduled, mid, loopVars>>

\* lua_unreal_script_function_hook_pre gets the mutex and reads its data.
EnterPre ==
    /\ At("pre", "entered") /\ Top.hook \in data
    /\ leaving = NoMod
    /\ IF Top.hook \in scheduled
       THEN SetTop([Top EXCEPT !.at = "returned"])
       ELSE SetTop([Top EXCEPT !.at = "lua", !.ran = @ \cup {Top.hook}])
    /\ UNCHANGED <<luaVars, data, scheduled, mapVars, mid, loopVars>>

ReturnPre ==
    /\ At("pre", "lua")
    /\ SetTop([Top EXCEPT !.at = "returned"])
    /\ UNCHANGED <<luaVars, data, scheduled, mapVars, mid, loopVars>>

\* The original function follows the callbacks, or the first that threw.
BeginOriginal ==
    /\ At("pre", "lua") \/ (At("pre", "look") /\ Top.hook = Nothing)
    /\ SetTop([Top EXCEPT !.stage = "original", !.hook = Nothing, !.at = "native"])
    /\ UNCHANGED <<luaVars, data, scheduled, mapVars, mid, loopVars>>

BeginPost ==
    /\ At("original", "native")
    /\ SetTop([Begin(Top, "post", entries["post"]) EXCEPT !.due = scheduled \cap data])
    /\ UNCHANGED <<luaVars, data, scheduled, mapVars, mid, loopVars>>

\* It throws: the outer handler does not reset the flag.
OriginalThrows ==
    /\ At("original", "native")
    /\ frames' = Front(frames)
    /\ UNCHANGED <<luaVars, data, scheduled, mapVars, mid, loopVars>>

\* lua_unreal_script_function_hook_post reads its data, under the mutex removes
\* a hook scheduled for removal, and runs Lua without the mutex.
EnterPost ==
    /\ At("post", "entered") /\ Top.hook \in data
    /\ leaving = NoMod
    /\ IF Top.hook \in scheduled
       THEN RemoveHook(Top.hook) /\ SetTop([Top EXCEPT !.at = "returned"])
       ELSE /\ SetTop([Top EXCEPT !.at = "lua", !.visited = @ \cup {Top.hook}])
            /\ UNCHANGED <<data, mapVars>>
    /\ UNCHANGED <<luaVars, scheduled, mid, loopVars>>

ReturnPost ==
    /\ At("post", "lua") /\ Top.hook \in data
    /\ leaving = NoMod
    /\ IF Top.hook \in scheduled THEN RemoveHook(Top.hook) ELSE UNCHANGED <<data, mapVars>>
    /\ SetTop([Top EXCEPT !.at = "returned"])
    /\ UNCHANGED <<luaVars, scheduled, mid, loopVars>>

\* The end of a call, of a nested one too, or a callback after it that threw.
EndCall ==
    /\ At("post", "lua") \/ (At("post", "look") /\ Top.hook = Nothing)
    /\ mid' = FALSE
    /\ frames' = Front(frames)
    /\ UNCHANGED <<luaVars, data, scheduled, mapVars, loopVars>>

-----------------------------------------------------------------------------
(* LuaMod::uninstall on the event loop, with the mutex from begin to end.   *)

HooksOf(m) == {h \in data : owner[h] = m}

\* All hooks of the mod are marked first; then each is to be unregistered.
BeginUninstall(m) ==
    /\ leaving = NoMod /\ ~GameHolds
    /\ m \in open
    /\ leaving' = m
    /\ scheduled' = scheduled \cup HooksOf(m)
    /\ toRemove' = Kinds \X HooksOf(m)
    /\ UNCHANGED <<luaVars, data, mapVars, mid, frames, flagRead>>

\* Hook after hook, the entry before the function first.
IsNext(e) ==
    /\ e \in toRemove
    /\ \A d \in toRemove : e[2] < d[2] \/ (e[2] = d[2] /\ (e[1] = "pre" \/ d = e))

\* RemoveCallback reads bIsMidExecution ...
ReadFlag ==
    /\ toRemove # {} /\ flagRead = "unread"
    /\ flagRead' = IF mid THEN "mid" ELSE "idle"
    /\ UNCHANGED <<luaVars, data, scheduled, mapVars, mid, frames, leaving, toRemove>>

\* Slip: the flag is not looked at.
RemoveEntryErases ==
    /\ flagRead # "unread"
    /\ \E e \in toRemove :
          /\ IsNext(e)
          /\ entries' = [entries EXCEPT ![e[1]] = @ \ {e[2]}]
          /\ requested' = [requested EXCEPT ![e[1]] = @ \ {e[2]}]
          /\ toRemove' = toRemove \ {e}
    /\ flagRead' = "unread"
    /\ UNCHANGED <<luaVars, data, scheduled, mid, frames, leaving>>

\* ... and marks the entry or erases it; a call may have begun in between.
RemoveEntry ==
    /\ flagRead # "unread"
    /\ \E e \in toRemove :
          /\ IsNext(e)
          /\ IF flagRead = "mid"
             THEN /\ requested' = [requested EXCEPT ![e[1]] = @ \cup ({e[2]} \cap entries[e[1]])]
                  /\ UNCHANGED entries
             ELSE /\ entries' = [entries EXCEPT ![e[1]] = @ \ {e[2]}]
                  /\ requested' = [requested EXCEPT ![e[1]] = @ \ {e[2]}]
          /\ toRemove' = toRemove \ {e}
    /\ flagRead' = "unread"
    /\ UNCHANGED <<luaVars, data, scheduled, mid, frames, leaving>>

\* lua_close, then the data is erased and the mutex released.
EndUninstall ==
    /\ leaving # NoMod /\ toRemove = {}
    /\ open' = open \ {leaving}
    /\ data' = data \ HooksOf(leaving)
    /\ leaving' = NoMod
    /\ UNCHANGED <<owner, scheduled, mapVars, mid, frames, toRemove, flagRead>>

Next ==
    \/ \E m \in Mods : RegisterHook(m) \/ (\E h \in Hooks : UnregisterHook(m, h)) \/ BeginUninstall(m)
    \/ ReadFlag \/ RemoveEntry \/ EndUninstall
    \/ Call \/ (\E k \in Kinds : Look(k) \/ Advance(k))
    \/ EnterPre \/ ReturnPre \/ BeginOriginal \/ OriginalThrows
    \/ BeginPost \/ EnterPost \/ ReturnPost \/ EndCall

Spec == Init /\ [][Next]_vars

-----------------------------------------------------------------------------
TypeOK ==
    /\ open \subseteq Mods
    /\ owner \in Seq(Mods) /\ Len(owner) <= MaxHooks
    /\ data \cup scheduled \subseteq DOMAIN owner
    /\ \A k \in Kinds : requested[k] \subseteq entries[k] /\ entries[k] \subseteq DOMAIN owner
    /\ mid \in BOOLEAN
    /\ \A k \in DOMAIN frames :
          /\ frames[k].stage \in Kinds \cup {"original"}
          /\ frames[k].at \in {"look", "entered", "lua", "returned", "native"}
          /\ k < Len(frames) => frames[k].at \in {"lua", "native"}
    /\ leaving \in Mods \cup {NoMod} /\ toRemove \subseteq Kinds \X data
    /\ flagRead \in {"unread", "mid", "idle"}

\* A callback that the next FireCallbacks would call still has its data: a hook
\* is out of both maps, or marked in them, before its data is erased, whatever
\* bIsMidExecution said (remove_if_scheduled, LuaMod::uninstall).
EntriesHaveData == \A k \in Kinds : entries[k] \ requested[k] \subseteq data

\* The element under an iterator is erased only by a nested call, after a nested
\* call has cleared bIsMidExecution, or by an uninstall that read the flag
\* before it was set (RemoveCallback, UnrealScriptFunctionHook).
IteratorsStand ==
    [][\A k \in DOMAIN frames :
          LET f == frames[k]
          IN  (/\ f.stage \in Kinds /\ f.hook \in entries[f.stage]
               /\ k \in DOMAIN frames' /\ frames'[k] = f
               /\ f.hook \notin entries'[f.stage])
                 => k < Len(frames) \/ ~mid \/ flagRead = "idle"]_vars

EndsNormally == At("post", "look") /\ Top.hook = Nothing

\* A call whose callbacks did not throw removes every hook that was scheduled
\* for removal when its last stage began; a mod that is being uninstalled
\* removes its own (UnregisterHook, remove_if_scheduled).
ScheduledAreRemoved ==
    EndsNormally => \A h \in Top.due \cap data : owner[h] = leaving

\* In such a call each hook whose callback ran before the function has the
\* other one entered after it, unless the hook has been unregistered
\* (UnrealScriptFunctionHook).
PostFollowsPre == EndsNormally => Top.ran \subseteq Top.visited \cup scheduled

\* What LuaMod::uninstall says of erasing the data of hooks: no callback is
\* pending any more.
DataOutlivesCallbacks ==
    \A k \in DOMAIN frames :
        (frames[k].stage \in Kinds /\ frames[k].at \in {"entered", "lua"}) => frames[k].hook \in data
=============================================================================
