---------------------------- MODULE DetourCallbacks ----------------------------
(***************************************************************************)
(* TDetourInstance: the pre- and post-hook callbacks of one detoured engine *)
(* function. The function's callers run them from immutable vectors that    *)
(* are replaced under WriteMutex, and synchronise with removal only through *)
(* the packed State of each callback (an invalid bit and a count of         *)
(* executors) and the bDirty flag; a collector prunes the vectors.          *)
(***************************************************************************)
EXTENDS Naturals, Sequences, FiniteSets

CONSTANTS
    Callbacks,   \* identities of TCallbackData objects, each added once
    Threads,     \* threads that call the function or (un)register callbacks
    Collector,   \* the thread of FCallbackGarbageCollector
    NoThread,
    NoCallback,
    Options,     \* the hook types and FCallbackOptions that mods register with
    MaxDepth     \* bound on the nesting of a thread's invocations

ASSUME ConstantsAssumption ==
    /\ Collector \notin Threads
    /\ NoThread \notin Threads \cup {Collector}
    /\ NoCallback \notin Callbacks
    /\ Options \subseteq [type : {"pre", "post"}, once : BOOLEAN, readonly : BOOLEAN]
    /\ MaxDepth \in Nat \ {0}

VARIABLES
    cb,        \* FCallbackMetadata of every callback: options and State
    pre,       \* PreHookCallbacks
    post,      \* PostHookCallbacks
    bDirty,
    writer,    \* the holder of WriteMutex
    calls,     \* the invocations in progress on every thread
    op,        \* the call or the part of a call a thread is in the middle of
    commits,   \* history: vectors committed by AddCallback
    order,     \* history: the commit that published a callback, or 0
    runs,      \* history: executions of once callbacks (0, 1, or 2 for more)
    removed,   \* history: callbacks for which RemoveCallback returned true
    left       \* history: callbacks that called RemoveSelf

vars == <<cb, pre, post, bDirty, writer, calls, op, commits, order, runs, removed, left>>
vectors == <<pre, post>>
history == <<commits, order, runs, removed, left>>

Metadata == [type : {"none", "pre", "post"}, once : BOOLEAN, readonly : BOOLEAN,
             invalid : BOOLEAN, executors : Nat]

Invocation == [phase : {"pre", "original", "post"}, snap : Seq(Callbacks), at : Nat \ {0},
               current : Callbacks \cup {NoCallback},
               prevented : BOOLEAN, setter : Callbacks \cup {NoCallback}]

Operation == [pc : {"free", "commit", "found", "removeMark", "wait", "onceMark",
                    "throwMark", "unwind", "gcLock", "gcPost"},
              arg : Callbacks \cup {NoCallback}, draft : Seq(Callbacks)]

NoOperation == [pc |-> "free", arg |-> NoCallback, draft |-> <<>>]

Init ==
    /\ cb = [c \in Callbacks |-> [type |-> "none", once |-> FALSE, readonly |-> FALSE,
                                  invalid |-> FALSE, executors |-> 0]]
    /\ pre = <<>>
    /\ post = <<>>
    /\ bDirty = FALSE
    /\ writer = NoThread
    /\ calls = [t \in Threads |-> <<>>]
    /\ op = [t \in Threads \cup {Collector} |-> NoOperation]
    /\ commits = 0
    /\ order = [c \in Callbacks |-> 0]
    /\ runs = [c \in Callbacks |-> 0]
    /\ removed = {}
    /\ left = {}

Top(t) == calls[t][Len(calls[t])]
SetTop(t, f) == calls' = [calls EXCEPT ![t][Len(calls[t])] = f]
Step(t, pc, c) == op' = [op EXCEPT ![t] = [pc |-> pc, arg |-> c, draft |-> <<>>]]

Free(t) == op[t].pc = "free"

\* Thread t is in the body of a callback, in the original function, or in no
\* invocation at all.
InBody(t) == Free(t) /\ calls[t] # <<>> /\ Top(t).current # NoCallback
InOriginal(t) == Free(t) /\ calls[t] # <<>> /\ Top(t).phase = "original"
Outside(t) == Free(t) /\ calls[t] = <<>>

Elements(s) == {s[i] : i \in DOMAIN s}

\* The elements of s that are valid, in order.
Pruned(s) ==
    LET valid == {i \in DOMAIN s : ~cb[s[i]].invalid}
        place == CHOOSE f \in [1 .. Cardinality(valid) -> valid] :
                    \A j, k \in DOMAIN f : j < k => f[j] < f[k]
    IN  [k \in 1 .. Cardinality(valid) |-> s[place[k]]]

-----------------------------------------------------------------------------
(* AddCallback, RemoveCallback and CollectGarbage.                           *)

\* A readonly callback goes to the end, another one before the first readonly.
Inserted(s, c, readonly) ==
    LET first == {i \in DOMAIN s : cb[s[i]].readonly /\
                                   \A j \in 1 .. i - 1 : ~cb[s[j]].readonly}
    IN  IF readonly \/ first = {} THEN Append(s, c)
        ELSE LET k == CHOOSE i \in first : TRUE
             IN  SubSeq(s, 1, k - 1) \o <<c>> \o SubSeq(s, k, Len(s))

\* Slip: the old vector is read before WriteMutex is taken.
AddCallbackUnlocked(t, c, o) ==
    /\ Outside(t) \/ InBody(t)
    /\ cb[c].type = "none"
    /\ cb' = [cb EXCEPT ![c].type = o.type, ![c].once = o.once, ![c].readonly = o.readonly]
    /\ LET old == IF o.type = "pre" THEN pre ELSE post
       IN  op' = [op EXCEPT ![t] =
              [pc |-> "commit", arg |-> c,
               draft |-> Inserted(IF bDirty THEN Pruned(old) ELSE old, c, o.readonly)]]
    /\ UNCHANGED <<vectors, bDirty, writer, calls, history>>

\* Under WriteMutex: copy the vector, without what is invalid if bDirty says
\* that there may be some, and with the new callback. It may be called from
\* the body of another callback.
AddCallback(t, c, o) ==
    /\ Outside(t) \/ InBody(t)
    /\ cb[c].type = "none"
    /\ writer = NoThread
    /\ writer' = t
    /\ cb' = [cb EXCEPT ![c].type = o.type, ![c].once = o.once, ![c].readonly = o.readonly]
    /\ LET old == IF o.type = "pre" THEN pre ELSE post
       IN  op' = [op EXCEPT ![t] =
              [pc |-> "commit", arg |-> c,
               draft |-> Inserted(IF bDirty THEN Pruned(old) ELSE old, c, o.readonly)]]
    /\ UNCHANGED <<vectors, bDirty, calls, history>>

CommitCallback(t) ==
    /\ op[t].pc = "commit"
    /\ IF cb[op[t].arg].type = "pre"
       THEN pre' = op[t].draft /\ UNCHANGED post
       ELSE post' = op[t].draft /\ UNCHANGED pre
    /\ writer' = NoThread
    /\ commits' = commits + 1
    /\ order' = [order EXCEPT ![op[t].arg] = commits + 1]
    /\ Step(t, "free", NoCallback)
    /\ UNCHANGED <<cb, bDirty, calls, runs, removed, left>>

\* RemoveCallback looks the callback up in the published vector. Its contract
\* forbids the call in the body of a callback.
RemoveCallback(t, c) ==
    /\ Outside(t)
    /\ c \in Elements(pre) \cup Elements(post)
    /\ Step(t, "found", c)
    /\ UNCHANGED <<cb, vectors, bDirty, writer, calls, history>>

\* Slip: it insists on being the one that invalidates.
RemoveInvalidateRetry(t) ==
    /\ op[t].pc = "found"
    /\ IF cb[op[t].arg].invalid THEN UNCHANGED op ELSE Step(t, "removeMark", op[t].arg)
    /\ cb' = [cb EXCEPT ![op[t].arg].invalid = TRUE]
    /\ UNCHANGED <<vectors, bDirty, writer, calls, history>>

\* Invalidate: only the call that changes the State sets bDirty.
RemoveInvalidate(t) ==
    /\ op[t].pc = "found"
    /\ Step(t, IF cb[op[t].arg].invalid THEN "wait" ELSE "removeMark", op[t].arg)
    /\ cb' = [cb EXCEPT ![op[t].arg].invalid = TRUE]
    /\ UNCHANGED <<vectors, bDirty, writer, calls, history>>

\* Slip: removal does not wait for the executors.
RemoveReturnAtOnce(t) ==
    /\ op[t].pc = "wait"
    /\ removed' = removed \cup {op[t].arg}
    /\ Step(t, "free", NoCallback)
    /\ UNCHANGED <<cb, vectors, bDirty, writer, calls, commits, order, runs, left>>

\* WaitForExecutorsToFinish, then RemoveCallback returns true.
RemoveReturn(t) ==
    /\ op[t].pc = "wait"
    /\ cb[op[t].arg].executors = 0
    /\ removed' = removed \cup {op[t].arg}
    /\ Step(t, "free", NoCallback)
    /\ UNCHANGED <<cb, vectors, bDirty, writer, calls, commits, order, runs, left>>

\* bDirty.store(true), after an Invalidate or a claim that changed the State.
MarkDirty(t) ==
    /\ op[t].pc \in {"removeMark", "onceMark", "throwMark"}
    /\ bDirty' = TRUE
    /\ Step(t, CASE op[t].pc = "removeMark" -> "wait"
                 [] op[t].pc = "onceMark" -> "free"
                 [] op[t].pc = "throwMark" -> "unwind", op[t].arg)
    /\ UNCHANGED <<cb, vectors, writer, calls, history>>

\* CollectGarbage: take the flag first, so that a callback that is invalidated
\* meanwhile sets it again.
CollectGarbage ==
    /\ Free(Collector)
    /\ bDirty
    /\ bDirty' = FALSE
    /\ Step(Collector, "gcLock", NoCallback)
    /\ UNCHANGED <<cb, vectors, writer, calls, history>>

PrunePre ==
    /\ op[Collector].pc = "gcLock"
    /\ writer = NoThread
    /\ writer' = Collector
    /\ pre' = Pruned(pre)
    /\ Step(Collector, "gcPost", NoCallback)
    /\ UNCHANGED <<cb, post, bDirty, calls, history>>

\* Slip: the flag is cleared after the vectors were pruned.
PrunePostClearing ==
    /\ op[Collector].pc = "gcPost"
    /\ writer' = NoThread
    /\ post' = Pruned(post)
    /\ bDirty' = FALSE
    /\ Step(Collector, "free", NoCallback)
    /\ UNCHANGED <<cb, pre, calls, history>>

PrunePost ==
    /\ op[Collector].pc = "gcPost"
    /\ writer' = NoThread
    /\ post' = Pruned(post)
    /\ Step(Collector, "free", NoCallback)
    /\ UNCHANGED <<cb, pre, bDirty, calls, history>>

-----------------------------------------------------------------------------
(* Invoke and InvokeCallbacks.                                               *)

\* The engine calls the function, or a callback or the original function does.
Invoke(t) ==
    /\ Outside(t) \/ InBody(t) \/ InOriginal(t)
    /\ Len(calls[t]) < MaxDepth
    /\ calls' = [calls EXCEPT ![t] = Append(@,
          [phase |-> "pre", snap |-> pre, at |-> 1, current |-> NoCallback,
           prevented |-> FALSE, setter |-> NoCallback])]
    /\ UNCHANGED <<cb, vectors, bDirty, writer, op, history>>

\* The loop over the snapshot is between two callbacks.
AtCallback(t) ==
    /\ Free(t) /\ calls[t] # <<>>
    /\ Top(t).current = NoCallback
    /\ Top(t).phase # "original"

SkipInvalid(t) ==
    /\ AtCallback(t)
    /\ Top(t).at <= Len(Top(t).snap)
    /\ cb[Top(t).snap[Top(t).at]].invalid
    /\ SetTop(t, [Top(t) EXCEPT !.at = @ + 1])
    /\ UNCHANGED <<cb, vectors, bDirty, writer, op, history>>

\* Slip: a once callback is not claimed by the thread that begins it.
TryBeginUnclaimed(t) ==
    /\ AtCallback(t)
    /\ Top(t).at <= Len(Top(t).snap)
    /\ LET c == Top(t).snap[Top(t).at]
       IN  /\ ~cb[c].invalid
           /\ cb' = [cb EXCEPT ![c].executors = @ + 1]
           /\ SetTop(t, [Top(t) EXCEPT !.current = c])
           /\ runs' = [runs EXCEPT ![c] = IF cb[c].once /\ @ < 2 THEN @ + 1 ELSE @]
    /\ UNCHANGED <<vectors, bDirty, writer, op, commits, order, removed, left>>

\* Slip: the invalid bit is not looked at again.
TryBeginStale(t) ==
    /\ AtCallback(t)
    /\ Top(t).at <= Len(Top(t).snap)
    /\ LET c == Top(t).snap[Top(t).at]
       IN  /\ cb' = [cb EXCEPT ![c].executors = @ + 1, ![c].invalid = @ \/ cb[c].once]
           /\ SetTop(t, [Top(t) EXCEPT !.current = c])
           /\ runs' = [runs EXCEPT ![c] = IF cb[c].once /\ @ < 2 THEN @ + 1 ELSE @]
           /\ IF cb[c].once THEN Step(t, "onceMark", NoCallback) ELSE UNCHANGED op
    /\ UNCHANGED <<vectors, bDirty, writer, commits, order, removed, left>>

\* TryBeginExecution counts an executor and claims a once callback, in one
\* compare-and-swap.
TryBeginExecution(t) ==
    /\ AtCallback(t)
    /\ Top(t).at <= Len(Top(t).snap)
    /\ LET c == Top(t).snap[Top(t).at]
       IN  /\ ~cb[c].invalid
           /\ cb' = [cb EXCEPT ![c].executors = @ + 1, ![c].invalid = cb[c].once]
           /\ SetTop(t, [Top(t) EXCEPT !.current = c])
           /\ runs' = [runs EXCEPT ![c] = IF cb[c].once /\ @ < 2 THEN @ + 1 ELSE @]
           /\ IF cb[c].once THEN Step(t, "onceMark", NoCallback) ELSE UNCHANGED op
    /\ UNCHANGED <<vectors, bDirty, writer, commits, order, removed, left>>

CallbackReturn(t) ==
    /\ InBody(t)
    /\ cb' = [cb EXCEPT ![Top(t).current].executors = @ - 1]
    /\ SetTop(t, [Top(t) EXCEPT !.current = NoCallback, !.at = @ + 1])
    /\ UNCHANGED <<vectors, bDirty, writer, op, history>>

\* Slip: an exception that invalidates the callback is not announced.
CallbackThrowUnmarked(t) ==
    /\ InBody(t)
    /\ Step(t, "unwind", NoCallback)
    /\ cb' = [cb EXCEPT ![Top(t).current].invalid = TRUE]
    /\ UNCHANGED <<vectors, bDirty, writer, calls, history>>

\* Slip: a callback that throws is no longer counted before the handler runs.
CallbackThrowEnding(t) ==
    /\ InBody(t)
    /\ Step(t, IF cb[Top(t).current].invalid THEN "unwind" ELSE "throwMark", NoCallback)
    /\ cb' = [cb EXCEPT ![Top(t).current].invalid = TRUE, ![Top(t).current].executors = @ - 1]
    /\ UNCHANGED <<vectors, bDirty, writer, calls, history>>

\* A callback throws: it is invalidated ...
CallbackThrow(t) ==
    /\ InBody(t)
    /\ Step(t, IF cb[Top(t).current].invalid THEN "unwind" ELSE "throwMark", NoCallback)
    /\ cb' = [cb EXCEPT ![Top(t).current].invalid = TRUE]
    /\ UNCHANGED <<vectors, bDirty, writer, calls, history>>

\* Slip: an exception leaves the executor counted.
UnwindStillCounted(t) ==
    /\ op[t].pc = "unwind"
    /\ SetTop(t, [Top(t) EXCEPT !.current = NoCallback, !.at = Len(Top(t).snap) + 1])
    /\ Step(t, "free", NoCallback)
    /\ UNCHANGED <<cb, vectors, bDirty, writer, history>>

\* ... and the handler ends its execution, and with it the loop.
Unwind(t) ==
    /\ op[t].pc = "unwind"
    /\ cb' = [cb EXCEPT ![Top(t).current].executors = @ - 1]
    /\ SetTop(t, [Top(t) EXCEPT !.current = NoCallback, !.at = Len(Top(t).snap) + 1])
    /\ Step(t, "free", NoCallback)
    /\ UNCHANGED <<vectors, bDirty, writer, history>>

\* After the pre-hooks the original function is called unless one of them
\* prevented that; the post-hooks run in either case.
PreHooksDone(t) ==
    /\ AtCallback(t)
    /\ Top(t).phase = "pre" /\ Top(t).at > Len(Top(t).snap)
    /\ IF Top(t).prevented
       THEN SetTop(t, [Top(t) EXCEPT !.phase = "post", !.snap = post, !.at = 1])
       ELSE SetTop(t, [Top(t) EXCEPT !.phase = "original", !.snap = <<>>, !.at = 1])
    /\ UNCHANGED <<cb, vectors, bDirty, writer, op, history>>

OriginalReturn(t) ==
    /\ InOriginal(t)
    /\ SetTop(t, [Top(t) EXCEPT !.phase = "post", !.snap = post, !.at = 1])
    /\ UNCHANGED <<cb, vectors, bDirty, writer, op, history>>

InvokeReturn(t) ==
    /\ AtCallback(t)
    /\ Top(t).phase = "post" /\ Top(t).at > Len(Top(t).snap)
    /\ calls' = [calls EXCEPT ![t] = SubSeq(@, 1, Len(@) - 1)]
    /\ UNCHANGED <<cb, vectors, bDirty, writer, op, history>>

-----------------------------------------------------------------------------
(* What a callback does with its TCallbackIterationData.                     *)

\* Slip: a readonly callback may set the value.
TrySetReturnValueAny(t) ==
    /\ InBody(t)
    /\ Top(t).setter = NoCallback
    /\ SetTop(t, [Top(t) EXCEPT !.setter = Top(t).current])
    /\ UNCHANGED <<cb, vectors, bDirty, writer, op, history>>

\* The first callback to override the return value takes precedence.
TrySetReturnValue(t) ==
    /\ InBody(t)
    /\ ~cb[Top(t).current].readonly
    /\ Top(t).setter = NoCallback
    /\ SetTop(t, [Top(t) EXCEPT !.setter = Top(t).current])
    /\ UNCHANGED <<cb, vectors, bDirty, writer, op, history>>

PreventOriginalFunctionCall(t) ==
    /\ InBody(t)
    /\ ~cb[Top(t).current].readonly
    /\ ~Top(t).prevented
    /\ SetTop(t, [Top(t) EXCEPT !.prevented = TRUE])
    /\ UNCHANGED <<cb, vectors, bDirty, writer, op, history>>

\* RemoveSelf invalidates the callback and leaves bDirty alone.
RemoveSelf(t) ==
    /\ InBody(t)
    /\ ~cb[Top(t).current].invalid
    /\ cb' = [cb EXCEPT ![Top(t).current].invalid = TRUE]
    /\ left' = left \cup {Top(t).current}
    /\ UNCHANGED <<vectors, bDirty, writer, calls, op, commits, order, runs, removed>>

-----------------------------------------------------------------------------

Register(t) == \E c \in Callbacks, o \in Options : AddCallback(t, c, o)

Unregister(t) == \E c \in Callbacks : RemoveCallback(t, c)

CallbackEnds(t) == CallbackReturn(t) \/ CallbackThrow(t)

\* Steps of the detour's own code, which a running thread takes.
Advance(t) ==
    \/ CommitCallback(t)
    \/ RemoveInvalidate(t)
    \/ RemoveReturn(t)
    \/ MarkDirty(t)
    \/ SkipInvalid(t)
    \/ TryBeginExecution(t)
    \/ Unwind(t)
    \/ PreHooksDone(t)
    \/ InvokeReturn(t)

Collect == CollectGarbage \/ PrunePre \/ PrunePost

Next ==
    \/ \E t \in Threads :
          \/ Register(t)
          \/ Unregister(t)
          \/ Invoke(t)
          \/ Advance(t)
          \/ OriginalReturn(t)
          \/ CallbackEnds(t)
          \/ TrySetReturnValue(t)
          \/ PreventOriginalFunctionCall(t)
          \/ RemoveSelf(t)
    \/ Collect

Spec == Init /\ [][Next]_vars

\* Threads run, the collector wakes up periodically, and at every depth the
\* callback or the original function returns, although it may call the
\* function again before that.
Fairness ==
    /\ \A t \in Threads :
          /\ WF_vars(Advance(t))
          /\ \A d \in 1 .. MaxDepth :
                /\ SF_vars(Len(calls[t]) = d /\ OriginalReturn(t))
                /\ SF_vars(Len(calls[t]) = d /\ CallbackEnds(t))
    /\ WF_vars(Collect)

FairSpec == Spec /\ Fairness

-----------------------------------------------------------------------------
(* Properties.                                                               *)

TypeOK ==
    /\ cb \in [Callbacks -> Metadata]
    /\ pre \in Seq(Callbacks)
    /\ post \in Seq(Callbacks)
    /\ bDirty \in BOOLEAN
    /\ writer \in Threads \cup {Collector, NoThread}
    /\ calls \in [Threads -> Seq(Invocation)]
    /\ op \in [Threads \cup {Collector} -> Operation]
    /\ commits \in Nat
    /\ order \in [Callbacks -> Nat]
    /\ runs \in [Callbacks -> 0 .. 2]
    /\ removed \in SUBSET Callbacks
    /\ left \in SUBSET Callbacks

\* No registration is lost to a concurrent one or to the collector: a valid
\* callback that AddCallback committed is in the vector of its type.
ValidAreListed ==
    \A c \in Callbacks : order[c] > 0 /\ ~cb[c].invalid =>
        c \in Elements(IF cb[c].type = "pre" THEN pre ELSE post)

\* Once RemoveCallback has returned true nobody executes the callback, not
\* even from a snapshot taken before: its owner may be unloaded.
RemovedIsQuiet ==
    \A c \in removed :
        /\ cb[c].invalid
        /\ \A t \in Threads : \A i \in DOMAIN calls[t] : calls[t][i].current # c

\* A once callback runs once, with several threads in the function and with
\* the function called again from the callback.
OnceRunsOnce == \A c \in Callbacks : cb[c].once => runs[c] <= 1

\* The executions of c in progress, as threads and depths.
Executions(c) ==
    {e \in Threads \X (1 .. MaxDepth) :
        e[2] \in DOMAIN calls[e[1]] /\ calls[e[1]][e[2]].current = c}

\* State counts the executions in progress, also those that an exception
\* ends: RemoveCallback waits for that count.
ExecutorsCounted == \A c \in Callbacks : cb[c].executors = Cardinality(Executions(c))

\* Thread t has invalidated c and is about to set bDirty.
Marking(t, c) ==
    \/ op[t].pc = "removeMark" /\ op[t].arg = c
    \/ op[t].pc \in {"onceMark", "throwMark"} /\ Top(t).current = c

Collectable(c) ==
    \/ bDirty
    \/ \E t \in Threads : Marking(t, c)
    \/ op[Collector].pc = "gcLock"
    \/ op[Collector].pc = "gcPost" /\ c \in Elements(post)

\* An invalid callback in a vector is announced by bDirty, about to be, or in
\* the collector's hands; RemoveSelf is the exception.
DirtyCoversInvalid ==
    \A c \in Elements(pre) \cup Elements(post) :
        cb[c].invalid /\ c \notin left => Collectable(c)

\* A readonly callback of the invocation's phase was reached.
ReadonlyReached(f) ==
    \E k \in DOMAIN f.snap : /\ cb[f.snap[k]].readonly
                             /\ k < f.at \/ (k = f.at /\ f.current # NoCallback)

\* What a readonly callback sees is final for its phase: neither the return
\* value nor the decision to call the original function changes any more.
ReadonlySeesVerdict ==
    [][\A t \in Threads : \A i \in DOMAIN calls[t] \cap DOMAIN calls'[t] :
          calls'[t][i].phase = calls[t][i].phase /\ ReadonlyReached(calls[t][i]) =>
              /\ calls'[t][i].setter = calls[t][i].setter
              /\ calls'[t][i].prevented = calls[t][i].prevented]_vars

\* RemoveCallback returns, given that callbacks do, whoever else invalidates or
\* removes the same callback.
RemovalReturns ==
    \A t \in Threads : op[t].pc \in {"found", "removeMark", "wait"} ~> Free(t)

\* An invalid callback leaves the vectors, unless it removed itself.
GarbageIsCollected ==
    \A c \in Callbacks :
        cb[c].invalid /\ c \notin left ~> c \notin Elements(pre) \cup Elements(post)

\* The detour keeps the contract of its callbacks.
Contract == INSTANCE CallbackContract WITH
    life <- [c \in Callbacks |-> IF order[c] = 0 THEN "unknown"
                                 ELSE IF cb[c].invalid THEN "retired" ELSE "registered"],
    running <- [c \in Callbacks |-> cb[c].executors],
    answered <- removed

ImplementsContract == Contract!Spec
=============================================================================
