--------------------------- MODULE DetourVectorProofs ---------------------------
(***************************************************************************)
(* Proofs about the vectors of a detour: which callbacks they hold and in  *)
(* which order, and that the detour implements the contract of its         *)
(* callbacks.                                                              *)
(***************************************************************************)
EXTENDS DetourStateProofs

-----------------------------------------------------------------------------
(* What the steps that change the State of a callback do.                   *)

SameOptions(c) ==
    /\ cb'[c].type = cb[c].type
    /\ cb'[c].once = cb[c].once
    /\ cb'[c].readonly = cb[c].readonly

SameVerdict(f, g) == f.setter = g.setter /\ f.prevented = g.prevented

LEMMA TryBeginFacts ==
  ASSUME TypeOK, NEW t \in Threads, TryBeginExecution(t)
  PROVE  /\ Free(t) /\ calls[t] # <<>> /\ Top(t) \in Invocation
         /\ \E c \in Elements(Top(t).snap), f \in Invocation :
              /\ c \in Callbacks /\ ~cb[c].invalid
              /\ SetTop(t, f) /\ f.current = c /\ f.snap = Top(t).snap
              /\ f.at \in DOMAIN f.snap /\ f.snap[f.at] = c
              /\ f.phase # "original" /\ SameVerdict(f, Top(t))
              /\ cb'[c].executors = cb[c].executors + 1
              /\ cb'[c].invalid = cb[c].once
              /\ SameOptions(c)
              /\ \A d \in Callbacks : d # c => cb'[d] = cb[d]
              /\ IF cb[c].once THEN Step(t, "onceMark", NoCallback) ELSE UNCHANGED op
  <1>1. Free(t) /\ calls[t] # <<>>
    BY DEF TryBeginExecution, AtCallback
  <1>2. Top(t) \in Invocation
    BY <1>1, TopFacts
  <1>3. PICK c \in Elements(Top(t).snap) :
           c \in Callbacks /\ c = Top(t).snap[Top(t).at] /\ Top(t).at \in DOMAIN Top(t).snap
    <2>1. Top(t).snap \in Seq(Callbacks) /\ Top(t).at \in Nat \ {0}
      BY <1>2 DEF Invocation
    <2>2. Top(t).at <= Len(Top(t).snap)
      BY DEF TryBeginExecution
    <2>3. Top(t).at \in DOMAIN Top(t).snap
      BY <2>1, <2>2, LenProperties
    <2>4. Top(t).snap[Top(t).at] \in Callbacks
      BY <2>1, <2>2, ElementOfSeq, LenProperties
    <2> QED
      BY <2>3, <2>4 DEF Elements
  <1> DEFINE f == [Top(t) EXCEPT !.current = c]
             m == [cb[c] EXCEPT !.executors = @ + 1, !.invalid = cb[c].once]
  <1>4. /\ ~cb[c].invalid
        /\ cb' = [cb EXCEPT ![c].executors = @ + 1, ![c].invalid = cb[c].once]
        /\ SetTop(t, f)
        /\ IF cb[c].once THEN Step(t, "onceMark", NoCallback) ELSE UNCHANGED op
    BY <1>3 DEF TryBeginExecution
  <1>5. f \in Invocation /\ f.current = c /\ f.snap = Top(t).snap /\ f.at = Top(t).at
    BY <1>2, <1>3 DEF Invocation
  <1>11. f.phase # "original" /\ SameVerdict(f, Top(t))
    BY <1>2 DEF Invocation, SameVerdict, TryBeginExecution, AtCallback
  <1>6. cb \in [Callbacks -> Metadata]
    BY DEF TypeOK
  <1>7. /\ m.executors = cb[c].executors + 1 /\ m.invalid = cb[c].once
        /\ m.type = cb[c].type /\ m.once = cb[c].once /\ m.readonly = cb[c].readonly
    BY <1>3, <1>6 DEF Metadata
  <1>8. cb' = [cb EXCEPT ![c] = m]
    BY <1>4, <1>6
  <1> HIDE DEF f, m, Metadata, Invocation
  <1>9. /\ \A d \in Callbacks : d # c => cb'[d] = cb[d]
        /\ cb'[c] = m
    BY <1>3, <1>6, <1>8
  <1>10. SameOptions(c)
    BY <1>7, <1>9 DEF SameOptions
  <1> QED
    BY <1>1, <1>2, <1>3, <1>4, <1>5, <1>7, <1>9, <1>10, <1>11

LEMMA EndFacts ==
  ASSUME StateInv, NEW t \in Threads, CallbackReturn(t) \/ Unwind(t)
  PROVE  /\ calls[t] # <<>> /\ Top(t) \in Invocation
         /\ op[t].pc \in {"free", "unwind"} /\ Free(t)'
         /\ \A u \in Threads \cup {Collector} : u # t => op'[u] = op[u]
         /\ \E c \in Callbacks, f \in Invocation :
              /\ Top(t).current = c /\ cb[c].executors \in Nat \ {0}
              /\ SetTop(t, f) /\ f.current = NoCallback /\ f.snap = Top(t).snap
              /\ SameVerdict(f, Top(t))
              /\ cb'[c].executors = cb[c].executors - 1
              /\ cb'[c].invalid = cb[c].invalid
              /\ SameOptions(c)
              /\ \A d \in Callbacks : d # c => cb'[d] = cb[d]
  <1>1. TypeOK /\ calls[t] # <<>> /\ Top(t).current # NoCallback
    <2>1. CASE CallbackReturn(t)
      BY <2>1 DEF StateInv, CallbackReturn, InBody
    <2>2. CASE Unwind(t)
      BY <2>2, ConstantsAssumption DEF StateInv, Unwind, OperationsOK, OperationOK
    <2> QED
      BY <2>1, <2>2
  <1>2. Top(t) \in Invocation
    BY <1>1, TopFacts
  <1>3. PICK c \in Callbacks : c = Top(t).current
    BY <1>1, <1>2 DEF Invocation
  <1> DEFINE m == [cb[c] EXCEPT !.executors = @ - 1]
  <1>4. PICK f \in Invocation : /\ SetTop(t, f) /\ f.current = NoCallback /\ f.snap = Top(t).snap
                                /\ SameVerdict(f, Top(t))
    <2>1. \A k \in Nat \ {0} :
             /\ [Top(t) EXCEPT !.current = NoCallback, !.at = k] \in Invocation
             /\ [Top(t) EXCEPT !.current = NoCallback, !.at = k].current = NoCallback
             /\ [Top(t) EXCEPT !.current = NoCallback, !.at = k].snap = Top(t).snap
             /\ SameVerdict([Top(t) EXCEPT !.current = NoCallback, !.at = k], Top(t))
      <3> TAKE k \in Nat \ {0}
      <3> DEFINE g == [Top(t) EXCEPT !.current = NoCallback]
      <3>1. /\ g \in Invocation /\ g.current = NoCallback /\ g.snap = Top(t).snap
            /\ g.setter = Top(t).setter /\ g.prevented = Top(t).prevented
        BY <1>2 DEF Invocation
      <3>2. [Top(t) EXCEPT !.current = NoCallback, !.at = k] = [g EXCEPT !.at = k]
        BY <1>2 DEF Invocation
      <3> HIDE DEF g
      <3>3. /\ [g EXCEPT !.at = k] \in Invocation
            /\ [g EXCEPT !.at = k].current = g.current
            /\ [g EXCEPT !.at = k].snap = g.snap
            /\ [g EXCEPT !.at = k].setter = g.setter
            /\ [g EXCEPT !.at = k].prevented = g.prevented
        BY <3>1 DEF Invocation
      <3> QED
        BY <3>1, <3>2, <3>3 DEF SameVerdict
    <2>2. Top(t).at + 1 \in Nat \ {0} /\ Len(Top(t).snap) + 1 \in Nat \ {0}
      BY <1>2, LenProperties DEF Invocation
    <2>3. CASE CallbackReturn(t)
      <3>1. SetTop(t, [Top(t) EXCEPT !.current = NoCallback, !.at = Top(t).at + 1])
        BY <2>3 DEF CallbackReturn
      <3> QED
        BY <2>1, <2>2, <3>1
    <2>4. CASE Unwind(t)
      <3>1. SetTop(t, [Top(t) EXCEPT !.current = NoCallback, !.at = Len(Top(t).snap) + 1])
        BY <2>4 DEF Unwind
      <3> QED
        BY <2>1, <2>2, <3>1
    <2> QED
      BY <2>3, <2>4
  <1>5. cb' = [cb EXCEPT ![c].executors = @ - 1]
    BY <1>3 DEF CallbackReturn, Unwind
  <1>6. cb[c].executors \in Nat \ {0} /\ cb \in [Callbacks -> Metadata]
    BY <1>1, <1>3, TopIsCounted DEF TypeOK
  <1>7. /\ m.executors = cb[c].executors - 1 /\ m.invalid = cb[c].invalid
        /\ m.type = cb[c].type /\ m.once = cb[c].once /\ m.readonly = cb[c].readonly
    BY <1>3, <1>6 DEF Metadata
  <1>8. cb' = [cb EXCEPT ![c] = m]
    BY <1>5, <1>6
  <1> HIDE DEF m, Metadata, Invocation
  <1>9. /\ \A d \in Callbacks : d # c => cb'[d] = cb[d]
        /\ cb'[c] = m
    BY <1>3, <1>6, <1>8
  <1>10. SameOptions(c)
    BY <1>7, <1>9 DEF SameOptions
  <1>11. /\ op[t].pc \in {"free", "unwind"} /\ Free(t)'
         /\ \A u \in Threads \cup {Collector} : u # t => op'[u] = op[u]
    <2>1. CASE CallbackReturn(t)
      BY <2>1 DEF CallbackReturn, InBody, Free
    <2>2. CASE Unwind(t)
      <3>1. Step(t, "free", NoCallback) /\ op[t].pc = "unwind"
        BY <2>2 DEF Unwind
      <3>2. op'[t].pc = "free" /\ \A u \in Threads \cup {Collector} : u # t => op'[u] = op[u]
        BY <1>1, <3>1, StepFacts
      <3> QED
        BY <3>1, <3>2 DEF Free
    <2> QED
      BY <2>1, <2>2
  <1> QED
    BY <1>1, <1>2, <1>3, <1>4, <1>6, <1>7, <1>9, <1>10, <1>11

\* RemoveCallback, an exception, or the callback itself invalidates c.
LEMMA InvalidateFacts ==
  ASSUME StateInv, NEW t \in Threads, RemoveInvalidate(t) \/ CallbackThrow(t) \/ RemoveSelf(t)
  PROVE  \E c \in Callbacks :
            /\ RemoveInvalidate(t) => c = op[t].arg
            /\ CallbackThrow(t) \/ RemoveSelf(t) =>
                  Free(t) /\ calls[t] # <<>> /\ c = Top(t).current
            /\ cb'[c].invalid /\ cb'[c].executors = cb[c].executors
            /\ SameOptions(c)
            /\ \A d \in Callbacks : d # c => cb'[d] = cb[d]
  <1>1. TypeOK /\ cb \in [Callbacks -> Metadata]
    BY DEF StateInv, TypeOK
  <1>2. PICK c \in Callbacks :
           /\ RemoveInvalidate(t) => c = op[t].arg
           /\ CallbackThrow(t) \/ RemoveSelf(t) =>
                 Free(t) /\ calls[t] # <<>> /\ c = Top(t).current
           /\ cb' = [cb EXCEPT ![c].invalid = TRUE]
    <2>1. CASE RemoveInvalidate(t)
      <3>1. op[t].arg \in Callbacks /\ cb' = [cb EXCEPT ![op[t].arg].invalid = TRUE]
        BY <2>1 DEF RemoveInvalidate, StateInv, OperationsOK, OperationOK
      <3>2. ~Free(t) /\ ~CallbackThrow(t) /\ ~RemoveSelf(t)
        BY <2>1 DEF RemoveInvalidate, Free, CallbackThrow, RemoveSelf, InBody
      <3> QED
        BY <3>1, <3>2
    <2>2. CASE CallbackThrow(t) \/ RemoveSelf(t)
      <3>1. Free(t) /\ calls[t] # <<>> /\ Top(t).current # NoCallback
        BY <2>2 DEF CallbackThrow, RemoveSelf, InBody
      <3>2. Top(t).current \in Callbacks
        BY <1>1, <3>1, TopFacts DEF Invocation
      <3>3. cb' = [cb EXCEPT ![Top(t).current].invalid = TRUE]
        BY <2>2 DEF CallbackThrow, RemoveSelf
      <3>4. ~RemoveInvalidate(t)
        BY <3>1 DEF RemoveInvalidate, Free
      <3> QED
        BY <3>1, <3>2, <3>3, <3>4
    <2> QED
      BY <2>1, <2>2
  <1> DEFINE m == [cb[c] EXCEPT !.invalid = TRUE]
  <1>3. /\ m.executors = cb[c].executors /\ m.invalid
        /\ m.type = cb[c].type /\ m.once = cb[c].once /\ m.readonly = cb[c].readonly
    BY <1>1, <1>2 DEF Metadata
  <1>4. cb' = [cb EXCEPT ![c] = m]
    BY <1>1, <1>2
  <1> HIDE DEF m, Metadata
  <1>5. /\ \A d \in Callbacks : d # c => cb'[d] = cb[d]
        /\ cb'[c] = m
    BY <1>1, <1>2, <1>4
  <1> QED
    BY <1>2, <1>3, <1>5 DEF SameOptions

\* Steps of an invocation and of a callback that leave every State alone.
LoopStep(t) ==
    \/ SkipInvalid(t) \/ PreHooksDone(t) \/ OriginalReturn(t)
    \/ TrySetReturnValue(t) \/ PreventOriginalFunctionCall(t)

\* f is g in its next phase, without a callback.
NewPhase(f, g) ==
    /\ f.snap \in {<<>>, post}
    /\ g.current = NoCallback \/ g.phase = "original"
    /\ SameVerdict(f, g)

\* f is g in the same phase; the verdict changes in a callback that is not
\* readonly, and the position only between callbacks.
Kept(f, g) ==
    /\ f.snap = g.snap /\ f.phase = g.phase
    /\ \/ g.current = NoCallback /\ SameVerdict(f, g)
       \/ g.current # NoCallback /\ f.at = g.at /\ ~cb[g.current].readonly

LEMMA LoopFacts ==
  ASSUME TypeOK, NEW t \in Threads, LoopStep(t)
  PROVE  /\ Free(t) /\ calls[t] # <<>> /\ Top(t) \in Invocation
         /\ UNCHANGED <<cb, vectors, bDirty, writer, op, history>>
         /\ \E f \in Invocation : /\ SetTop(t, f) /\ f.current = Top(t).current
                                  /\ NewPhase(f, Top(t)) \/ Kept(f, Top(t))
  <1>1. Free(t) /\ calls[t] # <<>>
    BY DEF LoopStep, SkipInvalid, PreHooksDone, OriginalReturn, AtCallback, InOriginal,
           TrySetReturnValue, PreventOriginalFunctionCall, InBody
  <1>2. Top(t) \in Invocation
    BY <1>1, TopFacts
  <1>3. UNCHANGED <<cb, vectors, bDirty, writer, op, history>>
    BY DEF LoopStep, SkipInvalid, PreHooksDone, OriginalReturn, TrySetReturnValue,
           PreventOriginalFunctionCall
  <1>4. \A p \in {"original", "post"}, q \in {<<>>, post} :
          LET f == [Top(t) EXCEPT !.phase = p, !.snap = q, !.at = 1]
          IN  /\ f \in Invocation /\ f.current = Top(t).current
              /\ f.snap = q /\ SameVerdict(f, Top(t))
    <2> TAKE p \in {"original", "post"}, q \in {<<>>, post}
    <2> DEFINE f == [Top(t) EXCEPT !.phase = p, !.snap = q, !.at = 1]
    <2>1. q \in Seq(Callbacks)
      BY EmptySeq DEF TypeOK
    <2>2. f \in Invocation /\ f.current = Top(t).current
      BY <1>2, <2>1, NextPhase
    <2>3. f.snap = q /\ SameVerdict(f, Top(t))
      BY <1>2 DEF Invocation, SameVerdict
    <2> QED
      BY <2>2, <2>3
  <1>5. CASE PreHooksDone(t)
    <2>1. Top(t).current = NoCallback
      BY <1>5 DEF PreHooksDone, AtCallback
    <2>2. \/ SetTop(t, [Top(t) EXCEPT !.phase = "post", !.snap = post, !.at = 1])
          \/ SetTop(t, [Top(t) EXCEPT !.phase = "original", !.snap = <<>>, !.at = 1])
      BY <1>5 DEF PreHooksDone
    <2> HIDE DEF Invocation
    <2> QED
      BY <1>1, <1>2, <1>3, <1>4, <2>1, <2>2 DEF NewPhase
  <1>6. CASE OriginalReturn(t)
    <2>1. /\ Top(t).phase = "original"
          /\ SetTop(t, [Top(t) EXCEPT !.phase = "post", !.snap = post, !.at = 1])
      BY <1>6 DEF OriginalReturn, InOriginal
    <2> HIDE DEF Invocation
    <2> QED
      BY <1>1, <1>2, <1>3, <1>4, <2>1 DEF NewPhase
  <1>7. CASE SkipInvalid(t)
    <2> DEFINE f == [Top(t) EXCEPT !.at = @ + 1]
    <2>1. SetTop(t, f) /\ Top(t).current = NoCallback
      BY <1>7 DEF SkipInvalid, AtCallback
    <2>2. /\ f \in Invocation /\ f.current = Top(t).current
          /\ f.snap = Top(t).snap /\ f.phase = Top(t).phase /\ SameVerdict(f, Top(t))
      BY <1>2 DEF Invocation, SameVerdict
    <2> HIDE DEF f
    <2> QED
      BY <1>1, <1>2, <1>3, <2>1, <2>2 DEF Kept
  <1>8. CASE TrySetReturnValue(t) \/ PreventOriginalFunctionCall(t)
    <2>1. Top(t).current # NoCallback /\ ~cb[Top(t).current].readonly
      BY <1>8 DEF TrySetReturnValue, PreventOriginalFunctionCall, InBody
    <2>2. PICK f \in Invocation :
             /\ SetTop(t, f) /\ f.current = Top(t).current
             /\ f.snap = Top(t).snap /\ f.phase = Top(t).phase /\ f.at = Top(t).at
      <3>1. CASE TrySetReturnValue(t)
        <4> DEFINE f == [Top(t) EXCEPT !.setter = Top(t).current]
        <4>1. SetTop(t, f)
          BY <3>1 DEF TrySetReturnValue
        <4>2. /\ f \in Invocation /\ f.current = Top(t).current
              /\ f.snap = Top(t).snap /\ f.phase = Top(t).phase /\ f.at = Top(t).at
          BY <1>2 DEF Invocation
        <4> HIDE DEF f, Invocation
        <4> QED
          BY <4>1, <4>2
      <3>2. CASE PreventOriginalFunctionCall(t)
        <4> DEFINE f == [Top(t) EXCEPT !.prevented = TRUE]
        <4>1. SetTop(t, f)
          BY <3>2 DEF PreventOriginalFunctionCall
        <4>2. /\ f \in Invocation /\ f.current = Top(t).current
              /\ f.snap = Top(t).snap /\ f.phase = Top(t).phase /\ f.at = Top(t).at
          BY <1>2 DEF Invocation
        <4> HIDE DEF f, Invocation
        <4> QED
          BY <4>1, <4>2
      <3> QED
        BY <1>8, <3>1, <3>2
    <2> HIDE DEF Invocation
    <2> QED
      BY <1>1, <1>2, <1>3, <2>1, <2>2 DEF Kept
  <1> QED
    BY <1>5, <1>6, <1>7, <1>8 DEF LoopStep

-----------------------------------------------------------------------------
(* Callbacks in sight are published.                                        *)

Published == {c \in Callbacks : order[c] > 0}

Of(type) == {c \in Published : cb[c].type = type}

Vector(type) == IF type = "pre" THEN pre ELSE post

VectorsTyped == Elements(pre) \subseteq Of("pre") /\ Elements(post) \subseteq Of("post")

\* A callback that was not published has not been touched.
UnknownUntouched ==
    \A c \in Callbacks : /\ order[c] = 0 => ~cb[c].invalid
                         /\ cb[c].type = "none" => order[c] = 0

FrameOK(f) == Elements(f.snap) \subseteq Published /\ f.current \in Published \cup {NoCallback}

FramesOK == \A t \in Threads : \A i \in DOMAIN calls[t] : FrameOK(calls[t][i])

ArgumentsPublished ==
    \A t \in Threads : op[t].pc \in {"found", "removeMark", "wait"} => op[t].arg \in Published

\* WriteMutex is held from the copy of a vector to its replacement.
WriterOK ==
    /\ \A t \in Threads : op[t].pc = "commit" => writer = t
    /\ op[Collector].pc = "gcPost" => writer = Collector

\* What AddCallback is about to publish in place of the vector of its type.
DraftOK(t) ==
    LET c == op[t].arg
        vector == Vector(cb[c].type)
    IN  op[t].pc = "commit" =>
          /\ cb[c].type \in {"pre", "post"} /\ order[c] = 0
          /\ c \in Elements(op[t].draft)
          /\ Elements(op[t].draft) \subseteq Elements(vector) \cup {c}
          /\ \A d \in Elements(vector) : ~cb[d].invalid => d \in Elements(op[t].draft)

DraftsOK == \A t \in Threads : DraftOK(t)

VectorInv ==
    /\ VectorsTyped
    /\ UnknownUntouched
    /\ FramesOK
    /\ ArgumentsPublished
    /\ WriterOK
    /\ DraftsOK
    /\ ValidAreListed
    /\ DirtyCoversInvalid

LEMMA VectorInvInit == Init => VectorInv
  <1> SUFFICES ASSUME Init PROVE VectorInv
    OBVIOUS
  <1>1. Elements(pre) = {} /\ Elements(post) = {}
    BY EmptySeq DEF Init, Elements
  <1>2. \A t \in Threads : calls[t] = <<>> /\ DOMAIN calls[t] = {}
    BY EmptySeq DEF Init
  <1>3. \A x \in Threads \cup {Collector} : op[x].pc = "free"
    BY DEF Init, NoOperation
  <1>4. \A c \in Callbacks : order[c] = 0 /\ ~cb[c].invalid
    BY DEF Init
  <1>5. VectorsTyped /\ UnknownUntouched /\ FramesOK
    BY <1>1, <1>2, <1>4 DEF VectorsTyped, UnknownUntouched, FramesOK
  <1>6. ArgumentsPublished /\ WriterOK /\ DraftsOK
    BY <1>3 DEF ArgumentsPublished, WriterOK, DraftsOK, DraftOK
  <1>7. ValidAreListed /\ DirtyCoversInvalid
    BY <1>1, <1>4 DEF ValidAreListed, DirtyCoversInvalid
  <1> QED
    BY <1>5, <1>6, <1>7 DEF VectorInv

-----------------------------------------------------------------------------
(* What the steps that leave the vectors alone preserve.                    *)

\* Options stay, callbacks stay invalid, and only published ones get invalid.
StatesGrow ==
    \A c \in Callbacks :
        /\ SameOptions(c)
        /\ cb[c].invalid => cb'[c].invalid
        /\ cb'[c].invalid => cb[c].invalid \/ c \in Published

\* Of the operations in progress only that of x changes.
OnlyOp(x) == \A u \in Threads \cup {Collector} : u # x => op'[u] = op[u]

LEMMA QuietStep ==
  ASSUME StateInv, VectorInv, NEW x \in Threads \cup {Collector},
         UNCHANGED <<pre, post, order, writer>>, StatesGrow, OnlyOp(x),
         op[x].pc \notin {"commit", "gcPost"} /\ op'[x].pc \notin {"commit", "gcPost"},
         FramesOK', ArgumentsPublished', DirtyCoversInvalid'
  PROVE  VectorInv'
  <1>1. \A c \in Callbacks : cb'[c].type = cb[c].type
    BY DEF StatesGrow, SameOptions
  <1>2. Published' = Published /\ Of("pre")' = Of("pre") /\ Of("post")' = Of("post")
    BY <1>1 DEF Published, Of
  <1>3. VectorsTyped'
    BY <1>2 DEF VectorInv, VectorsTyped
  <1>4. UnknownUntouched'
    BY <1>1 DEF VectorInv, UnknownUntouched, StatesGrow, Published
  <1>5. WriterOK'
    BY DEF VectorInv, WriterOK, OnlyOp
  <1>6. DraftsOK'
    <2> SUFFICES ASSUME NEW t \in Threads, op'[t].pc = "commit" PROVE DraftOK(t)'
      BY DEF DraftsOK, DraftOK
    <2>1. op'[t] = op[t] /\ op[t].pc = "commit"
      BY DEF OnlyOp
    <2>2. op[t].arg \in Callbacks
      BY <2>1 DEF StateInv, OperationsOK, OperationOK
    <2>3. DraftOK(t)
      BY DEF VectorInv, DraftsOK
    <2>4. Vector(cb[op[t].arg].type)' = Vector(cb[op[t].arg].type)
      BY <1>1, <2>1, <2>2 DEF Vector
    <2>5. Vector(cb[op[t].arg].type) \in {pre, post}
      BY DEF Vector
    <2>6. \A d \in Elements(Vector(cb[op[t].arg].type)) : d \in Callbacks
      BY <2>5 DEF VectorInv, VectorsTyped, Of, Published
    <2>7. \A d \in Elements(Vector(cb[op[t].arg].type)) : cb[d].invalid => cb'[d].invalid
      BY <2>6 DEF StatesGrow
    <2> QED
      BY <1>1, <2>1, <2>2, <2>3, <2>4, <2>7 DEF DraftOK
  <1>7. ValidAreListed'
    BY <1>1 DEF VectorInv, ValidAreListed, StatesGrow
  <1> QED
    BY <1>3, <1>4, <1>5, <1>6, <1>7 DEF VectorInv

LEMMA FramesStay ==
  ASSUME FramesOK, UNCHANGED <<calls, order>>
  PROVE  FramesOK'
  BY DEF FramesOK, FrameOK, Published

LEMMA FramesTop ==
  ASSUME TypeOK, FramesOK, UNCHANGED order, NEW t \in Threads, calls[t] # <<>>,
         NEW f \in Invocation, FrameOK(f), SetTop(t, f)
  PROVE  FramesOK'
  <1>1. Published' = Published
    BY DEF Published
  <1>2. ASSUME NEW u \in Threads, NEW i \in DOMAIN calls'[u] PROVE FrameOK(calls'[u][i])
    <2>1. i \in DOMAIN calls[u]
      BY <1>2, SetTopFacts
    <2>2. CASE u = t /\ i = Len(calls[t])
      BY <2>2, SetTopFacts
    <2>3. CASE ~(u = t /\ i = Len(calls[t]))
      <3>1. calls'[u][i] = calls[u][i]
        BY <2>1, <2>3, SetTopFacts
      <3> QED
        BY <2>1, <3>1 DEF FramesOK
    <2> QED
      BY <2>2, <2>3
  <1> QED
    BY <1>1, <1>2 DEF FramesOK, FrameOK

\* The innermost invocation of a thread is one of its invocations.
LEMMA TopFrame ==
  ASSUME TypeOK, FramesOK, NEW t \in Threads, calls[t] # <<>>
  PROVE  FrameOK(Top(t))
  BY TopFacts DEF FramesOK, Top

LEMMA ArgumentsStay ==
  ASSUME ArgumentsPublished, UNCHANGED order, NEW x \in Threads \cup {Collector}, OnlyOp(x),
         op'[x].pc \in {"found", "removeMark", "wait"} => op'[x].arg \in Published
  PROVE  ArgumentsPublished'
  BY DEF ArgumentsPublished, Published, OnlyOp

\* A thread that is not announcing anything takes no announcement back.
LEMMA CollectableStays ==
  ASSUME NEW t \in Threads, UNCHANGED bDirty, UNCHANGED post \/ op[Collector].pc # "gcPost",
         OnlyOp(t), \A u \in Threads : u # t => calls'[u] = calls[u],
         op[t].pc \notin {"removeMark", "onceMark", "throwMark"},
         NEW c, Collectable(c)
  PROVE  Collectable(c)'
  <1>1. op'[Collector] = op[Collector]
    BY ConstantsAssumption DEF OnlyOp
  <1>2. ASSUME NEW u \in Threads, Marking(u, c) PROVE Marking(u, c)'
    <2>1. u # t
      BY <1>2 DEF Marking
    <2> QED
      BY <1>2, <2>1 DEF Marking, Top, OnlyOp
  <1> QED
    BY <1>1, <1>2 DEF Collectable

LEMMA DirtyStays ==
  ASSUME DirtyCoversInvalid,
         NEW t \in Threads, UNCHANGED <<bDirty, pre, post>>,
         OnlyOp(t), \A u \in Threads : u # t => calls'[u] = calls[u],
         op[t].pc \notin {"removeMark", "onceMark", "throwMark"},
         left \subseteq left',
         \A c \in Elements(pre) \cup Elements(post) :
            cb'[c].invalid => cb[c].invalid \/ c \in left' \/ Collectable(c)'
  PROVE  DirtyCoversInvalid'
  <1> SUFFICES ASSUME NEW c \in Elements(pre) \cup Elements(post), cb'[c].invalid, c \notin left'
               PROVE  Collectable(c)'
    BY DEF DirtyCoversInvalid
  <1>1. CASE cb[c].invalid
    <2>1. Collectable(c)
      BY <1>1 DEF DirtyCoversInvalid
    <2> QED
      BY <2>1, CollectableStays
  <1>2. CASE ~cb[c].invalid
    BY <1>2
  <1> QED
    BY <1>1, <1>2

-----------------------------------------------------------------------------
(* Every step preserves the invariant.                                      *)

LEMMA RemoveCallbackVectors ==
  ASSUME StateInv, VectorInv, NEW t \in Threads, NEW c \in Callbacks, RemoveCallback(t, c)
  PROVE  VectorInv'
  <1>1. TypeOK /\ Step(t, "found", c) /\ Free(t)
    BY DEF StateInv, RemoveCallback, Outside
  <1>2. OnlyOp(t) /\ op'[t].pc = "found" /\ op'[t].arg = c
    BY <1>1, StepFacts DEF OnlyOp
  <1>3. UNCHANGED <<cb, vectors, bDirty, writer, calls, history>>
    BY DEF RemoveCallback
  <1>4. c \in Published
    BY DEF RemoveCallback, VectorInv, VectorsTyped, Of
  <1>5. FramesOK'
    BY <1>3, FramesStay DEF VectorInv, history
  <1>6. ArgumentsPublished'
    BY <1>2, <1>3, <1>4, ArgumentsStay DEF VectorInv, history
  <1>7. DirtyCoversInvalid'
    BY <1>1, <1>2, <1>3, DirtyStays DEF VectorInv, history, vectors, Free
  <1>8. StatesGrow
    BY <1>3 DEF StatesGrow, SameOptions
  <1> QED
    BY <1>1, <1>2, <1>3, <1>5, <1>6, <1>7, <1>8, QuietStep DEF Free, history, vectors

LEMMA InvalidateVectors ==
  ASSUME StateInv, VectorInv, NEW t \in Threads,
         RemoveInvalidate(t) \/ CallbackThrow(t) \/ RemoveSelf(t)
  PROVE  VectorInv'
  <1>1. PICK c \in Callbacks :
            /\ RemoveInvalidate(t) => c = op[t].arg
            /\ CallbackThrow(t) \/ RemoveSelf(t) =>
                  Free(t) /\ calls[t] # <<>> /\ c = Top(t).current
            /\ cb'[c].invalid
            /\ SameOptions(c)
            /\ \A d \in Callbacks : d # c => cb'[d] = cb[d]
    BY InvalidateFacts
  <1>2. TypeOK
    BY DEF StateInv
  <1>3. UNCHANGED <<calls, vectors, bDirty, writer, commits, order, runs, removed>>
    BY DEF RemoveInvalidate, CallbackThrow, RemoveSelf, history
  <1>4. c \in Published
    <2>1. CASE RemoveInvalidate(t)
      BY <1>1, <2>1 DEF RemoveInvalidate, VectorInv, ArgumentsPublished
    <2>2. CASE CallbackThrow(t) \/ RemoveSelf(t)
      BY <1>1, <1>2, <2>2, TopFrame, ConstantsAssumption DEF VectorInv, FrameOK
    <2> QED
      BY <2>1, <2>2
  <1>5. /\ OnlyOp(t)
        /\ op[t].pc \in {"free", "found"}
        /\ op'[t].pc \in {"wait", "removeMark", "unwind", "throwMark", "free"}
        /\ op'[t].pc \in {"wait", "removeMark"} => op'[t].arg = c
        /\ ~cb[c].invalid /\ RemoveInvalidate(t) => op'[t].pc = "removeMark"
        /\ ~cb[c].invalid /\ CallbackThrow(t) => op'[t].pc = "throwMark"
    <2>1. CASE RemoveInvalidate(t)
      <3>1. op[t].pc = "found" /\ Step(t, IF cb[c].invalid THEN "wait" ELSE "removeMark", c)
        BY <1>1, <2>1 DEF RemoveInvalidate
      <3>2. ~CallbackThrow(t)
        BY <3>1 DEF CallbackThrow, InBody, Free
      <3>3. CASE cb[c].invalid
        BY <1>2, <3>1, <3>2, <3>3, StepFacts DEF OnlyOp
      <3>4. CASE ~cb[c].invalid
        BY <1>2, <3>1, <3>2, <3>4, StepFacts DEF OnlyOp
      <3> QED
        BY <3>3, <3>4
    <2>2. CASE CallbackThrow(t)
      <3>1. op[t].pc = "free" /\ Step(t, IF cb[c].invalid THEN "unwind" ELSE "throwMark", NoCallback)
        BY <1>1, <2>2 DEF CallbackThrow, Free
      <3>2. ~RemoveInvalidate(t)
        BY <3>1 DEF RemoveInvalidate
      <3>3. CASE cb[c].invalid
        BY <1>2, <3>1, <3>2, <3>3, StepFacts DEF OnlyOp
      <3>4. CASE ~cb[c].invalid
        BY <1>2, <3>1, <3>2, <3>4, StepFacts DEF OnlyOp
      <3> QED
        BY <3>3, <3>4
    <2>3. CASE RemoveSelf(t) /\ ~CallbackThrow(t)
      <3>1. op' = op /\ op[t].pc = "free" /\ ~RemoveInvalidate(t)
        BY <1>1, <2>3 DEF RemoveSelf, Free, RemoveInvalidate
      <3> QED
        BY <2>3, <3>1 DEF OnlyOp
    <2> QED
      BY <2>1, <2>2, <2>3
  <1>6. left \subseteq left' /\ (RemoveSelf(t) => c \in left')
    <2>1. CASE RemoveSelf(t)
      BY <1>1, <2>1 DEF RemoveSelf
    <2>2. CASE ~RemoveSelf(t)
      BY <2>2 DEF RemoveInvalidate, CallbackThrow, history
    <2> QED
      BY <2>1, <2>2
  <1>7. FramesOK'
    BY <1>3, FramesStay DEF VectorInv
  <1>8. ArgumentsPublished'
    BY <1>3, <1>4, <1>5, ArgumentsStay DEF VectorInv
  <1>9. ~cb[c].invalid => c \in left' \/ Collectable(c)'
    <2>1. CASE RemoveInvalidate(t)
      BY <1>5, <2>1 DEF Collectable, Marking
    <2>2. CASE CallbackThrow(t)
      <3>1. ~cb[c].invalid => Marking(t, c)'
        BY <1>1, <1>3, <1>5, <2>2 DEF Marking, Top
      <3> QED
        BY <3>1 DEF Collectable
    <2>3. CASE RemoveSelf(t)
      BY <1>6, <2>3
    <2> QED
      BY <2>1, <2>2, <2>3
  <1>10. DirtyCoversInvalid'
    <2>1. \A d \in Elements(pre) \cup Elements(post) :
             cb'[d].invalid => cb[d].invalid \/ d \in left' \/ Collectable(d)'
      BY <1>1, <1>9 DEF VectorInv, VectorsTyped, Of, Published
    <2> QED
      BY <1>3, <1>5, <1>6, <2>1, DirtyStays DEF VectorInv, vectors
  <1>11. StatesGrow
    BY <1>1, <1>4 DEF StatesGrow, SameOptions
  <1> QED
    BY <1>3, <1>5, <1>7, <1>8, <1>10, <1>11, QuietStep DEF vectors

LEMMA RemoveReturnVectors ==
  ASSUME StateInv, VectorInv, NEW t \in Threads, RemoveReturn(t)
  PROVE  VectorInv'
  <1>1. TypeOK /\ Step(t, "free", NoCallback) /\ op[t].pc = "wait"
    BY DEF StateInv, RemoveReturn
  <1>2. OnlyOp(t) /\ op'[t].pc = "free"
    BY <1>1, StepFacts DEF OnlyOp
  <1>3. UNCHANGED <<cb, pre, post, bDirty, writer, calls, order, left>>
    BY DEF RemoveReturn, vectors
  <1>4. FramesOK' /\ ArgumentsPublished'
    BY <1>2, <1>3, FramesStay, ArgumentsStay DEF VectorInv
  <1>5. DirtyCoversInvalid'
    BY <1>1, <1>2, <1>3, DirtyStays DEF VectorInv
  <1>6. StatesGrow
    BY <1>3 DEF StatesGrow, SameOptions
  <1> QED
    BY <1>1, <1>2, <1>3, <1>4, <1>5, <1>6, QuietStep

LEMMA MarkDirtyVectors ==
  ASSUME StateInv, VectorInv, NEW t \in Threads, MarkDirty(t)
  PROVE  VectorInv'
  <1>1. TypeOK
    BY DEF StateInv
  <1>2. /\ OnlyOp(t)
        /\ op'[t].pc \in {"wait", "free", "unwind"} /\ op'[t].arg = op[t].arg
        /\ op'[t].pc = "wait" => op[t].pc = "removeMark"
    <2> DEFINE next == CASE op[t].pc = "removeMark" -> "wait"
                         [] op[t].pc = "onceMark" -> "free"
                         [] op[t].pc = "throwMark" -> "unwind"
    <2>1. Step(t, next, op[t].arg)
      BY DEF MarkDirty
    <2>2. op[t].pc \in {"removeMark", "onceMark", "throwMark"}
      BY DEF MarkDirty
    <2>3. next \in {"wait", "free", "unwind"} /\ (next = "wait" => op[t].pc = "removeMark")
      BY <2>2
    <2>4. op[t].arg \in Callbacks \cup {NoCallback}
      BY <1>1 DEF TypeOK, Operation
    <2> HIDE DEF next
    <2> QED
      BY <1>1, <2>1, <2>3, <2>4, StepFacts DEF OnlyOp
  <1>3. bDirty' = TRUE /\ UNCHANGED <<cb, pre, post, writer, calls, order, left>>
    BY DEF MarkDirty, vectors, history
  <1>4. FramesOK'
    BY <1>3, FramesStay DEF VectorInv
  <1>5. ArgumentsPublished'
    <2>1. op'[t].pc = "wait" => op'[t].arg \in Published
      BY <1>2 DEF VectorInv, ArgumentsPublished
    <2> QED
      BY <1>2, <1>3, <2>1, ArgumentsStay DEF VectorInv
  <1>6. DirtyCoversInvalid'
    BY <1>3 DEF DirtyCoversInvalid, Collectable
  <1>7. StatesGrow
    BY <1>3 DEF StatesGrow, SameOptions
  <1>8. op[t].pc \notin {"commit", "gcPost"}
    BY DEF MarkDirty
  <1> QED
    BY <1>2, <1>3, <1>4, <1>5, <1>6, <1>7, <1>8, QuietStep

\* Steps of an invocation that leave every State alone.
LEMMA FrameStep ==
  ASSUME StateInv, VectorInv, NEW t \in Threads, Free(t),
         UNCHANGED <<cb, vectors, bDirty, writer, op, history>>,
         \A u \in Threads : u # t => calls'[u] = calls[u],
         FramesOK'
  PROVE  VectorInv'
  <1>1. UNCHANGED <<cb, pre, post, bDirty, writer, op, order, left>>
    BY DEF vectors, history
  <1>2. OnlyOp(t) /\ StatesGrow /\ op[t].pc = "free"
    BY <1>1 DEF OnlyOp, StatesGrow, SameOptions, Free
  <1>3. ArgumentsPublished'
    BY <1>1 DEF VectorInv, ArgumentsPublished, Published
  <1>4. DirtyCoversInvalid'
    BY <1>1, <1>2, DirtyStays DEF VectorInv
  <1> QED
    BY <1>1, <1>2, <1>3, <1>4, QuietStep

LEMMA LoopVectors ==
  ASSUME StateInv, VectorInv, NEW t \in Threads, LoopStep(t)
  PROVE  VectorInv'
  <1>1. TypeOK
    BY DEF StateInv
  <1>2. /\ Free(t) /\ calls[t] # <<>> /\ Top(t) \in Invocation
        /\ UNCHANGED <<cb, vectors, bDirty, writer, op, history>>
    BY <1>1, LoopFacts
  <1>3. PICK f \in Invocation :
           /\ SetTop(t, f) /\ f.current = Top(t).current
           /\ f.snap \in {Top(t).snap, <<>>, post}
    BY <1>1, LoopFacts DEF Kept, NewPhase
  <1>4. FrameOK(Top(t))
    BY <1>1, <1>2, TopFrame DEF VectorInv
  <1>5. Elements(<<>>) = {}
    BY EmptySeq DEF Elements
  <1>6. FrameOK(f)
    BY <1>3, <1>4, <1>5 DEF FrameOK, VectorInv, VectorsTyped, Of
  <1> HIDE DEF Invocation
  <1>7. FramesOK'
    BY <1>1, <1>2, <1>3, <1>6, FramesTop DEF VectorInv, history
  <1>8. \A u \in Threads : u # t => calls'[u] = calls[u]
    BY <1>1, <1>2, <1>3, SetTopFacts
  <1> QED
    BY <1>2, <1>7, <1>8, FrameStep

LEMMA InvokeVectors ==
  ASSUME StateInv, VectorInv, NEW t \in Threads, Invoke(t)
  PROVE  VectorInv'
  <1> DEFINE n == Len(calls[t])
             f == [phase |-> "pre", snap |-> pre, at |-> 1, current |-> NoCallback,
                   prevented |-> FALSE, setter |-> NoCallback]
  <1>1. TypeOK /\ Free(t)
    BY DEF StateInv, Invoke, Outside, InBody, InOriginal
  <1>2. calls \in [Threads -> Seq(Invocation)] /\ n \in Nat /\ DOMAIN calls[t] = 1 .. n
    BY <1>1, LenProperties DEF TypeOK
  <1>3. f \in Invocation /\ FrameOK(f)
    BY <1>1 DEF TypeOK, Invocation, FrameOK, VectorInv, VectorsTyped, Of
  <1>4. /\ calls' = [calls EXCEPT ![t] = Append(calls[t], f)]
        /\ UNCHANGED <<cb, vectors, bDirty, writer, op, history>>
    BY DEF Invoke
  <1> HIDE DEF f, n, Invocation
  <1>5. /\ DOMAIN Append(calls[t], f) = 1 .. n + 1
        /\ \A i \in 1 .. n : Append(calls[t], f)[i] = calls[t][i]
        /\ Append(calls[t], f)[n + 1] = f
    BY <1>2, <1>3, AppendProperties, LenProperties DEF n
  <1>6. /\ calls'[t] = Append(calls[t], f)
        /\ \A u \in Threads : u # t => calls'[u] = calls[u]
    BY <1>2, <1>4
  <1>7. ASSUME NEW u \in Threads, NEW i \in DOMAIN calls'[u] PROVE FrameOK(calls'[u][i])
    <2>1. CASE u # t
      BY <1>6, <2>1 DEF VectorInv, FramesOK
    <2>2. CASE u = t
      <3>1. i \in 1 .. n \/ i = n + 1
        BY <1>2, <1>5, <1>6, <2>2
      <3> QED
        BY <1>2, <1>3, <1>5, <1>6, <2>2, <3>1 DEF VectorInv, FramesOK
    <2> QED
      BY <2>1, <2>2
  <1>8. FramesOK'
    BY <1>4, <1>7 DEF FramesOK, FrameOK, Published, history
  <1> QED
    BY <1>1, <1>4, <1>6, <1>8, FrameStep

LEMMA InvokeReturnVectors ==
  ASSUME StateInv, VectorInv, NEW t \in Threads, InvokeReturn(t)
  PROVE  VectorInv'
  <1> DEFINE n == Len(calls[t])
             r == SubSeq(calls[t], 1, n - 1)
  <1>1. TypeOK /\ Free(t) /\ calls[t] # <<>>
    BY DEF StateInv, InvokeReturn, AtCallback
  <1>2. calls \in [Threads -> Seq(Invocation)]
    BY <1>1 DEF TypeOK
  <1>3. n \in Nat \ {0} /\ DOMAIN calls[t] = 1 .. n
    BY <1>1, TopFacts
  <1>4. /\ calls' = [calls EXCEPT ![t] = r]
        /\ UNCHANGED <<cb, vectors, bDirty, writer, op, history>>
    BY DEF InvokeReturn
  <1> HIDE DEF n, Invocation
  <1>5. /\ r \in Seq(Invocation) /\ Len(r) = n - 1
        /\ \A i \in 1 .. n - 1 : r[i] = calls[t][i]
    BY <1>2, <1>3, SubSeqProperties DEF n
  <1> HIDE DEF r
  <1>6. DOMAIN r = 1 .. n - 1
    BY <1>5, LenProperties
  <1>7. calls'[t] = r /\ \A u \in Threads : u # t => calls'[u] = calls[u]
    BY <1>2, <1>4
  <1>8. ASSUME NEW u \in Threads, NEW i \in DOMAIN calls'[u] PROVE FrameOK(calls'[u][i])
    BY <1>3, <1>5, <1>6, <1>7 DEF VectorInv, FramesOK
  <1>9. FramesOK'
    BY <1>4, <1>8 DEF FramesOK, FrameOK, Published, history
  <1> QED
    BY <1>1, <1>4, <1>7, <1>9, FrameStep

LEMMA TryBeginVectors ==
  ASSUME StateInv, VectorInv, NEW t \in Threads, TryBeginExecution(t)
  PROVE  VectorInv'
  <1>1. TypeOK
    BY DEF StateInv
  <1>2. Free(t) /\ calls[t] # <<>> /\ Top(t) \in Invocation
    BY <1>1, TryBeginFacts
  <1>3. PICK c \in Elements(Top(t).snap), f \in Invocation :
           /\ c \in Callbacks /\ ~cb[c].invalid
           /\ SetTop(t, f) /\ f.current = c /\ f.snap = Top(t).snap
           /\ cb'[c].invalid = cb[c].once
           /\ SameOptions(c)
           /\ \A d \in Callbacks : d # c => cb'[d] = cb[d]
           /\ IF cb[c].once THEN Step(t, "onceMark", NoCallback) ELSE UNCHANGED op
    BY <1>1, TryBeginFacts
  <1>4. FrameOK(Top(t))
    BY <1>1, <1>2, TopFrame DEF VectorInv
  <1>5. c \in Published /\ FrameOK(f)
    BY <1>3, <1>4 DEF FrameOK
  <1>6. UNCHANGED <<pre, post, bDirty, writer, order, left>>
    BY DEF TryBeginExecution, vectors
  <1> HIDE DEF Invocation
  <1>7. FramesOK'
    BY <1>1, <1>2, <1>3, <1>5, <1>6, FramesTop DEF VectorInv
  <1>8. /\ Top(t)' = f /\ calls'[t] # <<>>
        /\ \A u \in Threads : u # t => calls'[u] = calls[u]
    BY <1>1, <1>2, <1>3, SetTopFacts
  <1>9. /\ OnlyOp(t) /\ op'[t].pc \in {"free", "onceMark"}
        /\ cb[c].once => op'[t].pc = "onceMark"
    <2>1. CASE cb[c].once
      BY <1>1, <1>3, <2>1, StepFacts DEF OnlyOp
    <2>2. CASE ~cb[c].once
      BY <1>2, <1>3, <2>2 DEF OnlyOp, Free
    <2> QED
      BY <2>1, <2>2
  <1>10. ArgumentsPublished'
    BY <1>6, <1>9, ArgumentsStay DEF VectorInv
  <1>11. cb'[c].invalid => Collectable(c)'
    BY <1>3, <1>8, <1>9 DEF Collectable, Marking
  <1>12. DirtyCoversInvalid'
    <2>1. \A d \in Elements(pre) \cup Elements(post) :
             cb'[d].invalid => cb[d].invalid \/ d \in left' \/ Collectable(d)'
      BY <1>3, <1>11 DEF VectorInv, VectorsTyped, Of, Published
    <2> QED
      BY <1>2, <1>6, <1>8, <1>9, <2>1, DirtyStays DEF VectorInv, Free
  <1>13. StatesGrow
    BY <1>3, <1>5 DEF StatesGrow, SameOptions
  <1> QED
    BY <1>2, <1>6, <1>7, <1>9, <1>10, <1>12, <1>13, QuietStep DEF Free

LEMMA EndVectors ==
  ASSUME StateInv, VectorInv, NEW t \in Threads, CallbackReturn(t) \/ Unwind(t)
  PROVE  VectorInv'
  <1>1. TypeOK
    BY DEF StateInv
  <1>2. /\ calls[t] # <<>> /\ Top(t) \in Invocation
        /\ op[t].pc \in {"free", "unwind"} /\ Free(t)'
        /\ OnlyOp(t)
    BY EndFacts DEF OnlyOp
  <1>3. PICK c \in Callbacks, f \in Invocation :
           /\ SetTop(t, f) /\ f.current = NoCallback /\ f.snap = Top(t).snap
           /\ cb'[c].invalid = cb[c].invalid
           /\ SameOptions(c)
           /\ \A d \in Callbacks : d # c => cb'[d] = cb[d]
    BY EndFacts
  <1>4. FrameOK(f)
    BY <1>1, <1>2, <1>3, TopFrame DEF VectorInv, FrameOK
  <1>5. UNCHANGED <<pre, post, bDirty, writer, order, left>>
    BY DEF CallbackReturn, Unwind, vectors, history
  <1> HIDE DEF Invocation
  <1>6. FramesOK'
    BY <1>1, <1>2, <1>3, <1>4, <1>5, FramesTop DEF VectorInv
  <1>7. \A u \in Threads : u # t => calls'[u] = calls[u]
    BY <1>1, <1>2, <1>3, SetTopFacts
  <1>8. ArgumentsPublished'
    BY <1>2, <1>5, ArgumentsStay DEF VectorInv, Free
  <1>9. DirtyCoversInvalid'
    <2>1. \A d \in Elements(pre) \cup Elements(post) : cb'[d].invalid => cb[d].invalid
      BY <1>3 DEF VectorInv, VectorsTyped, Of, Published
    <2> QED
      BY <1>2, <1>5, <1>7, <2>1, DirtyStays DEF VectorInv
  <1>10. StatesGrow
    BY <1>3 DEF StatesGrow, SameOptions
  <1> QED
    BY <1>2, <1>5, <1>6, <1>8, <1>9, <1>10, QuietStep DEF Free

\* AddCallback copies the vector: whatever is valid in it, and the callback.
LEMMA AddCallbackVectors ==
  ASSUME StateInv, VectorInv, NEW t \in Threads, NEW c \in Callbacks, NEW o \in Options,
         AddCallback(t, c, o)
  PROVE  VectorInv'
  <1> DEFINE old == IF o.type = "pre" THEN pre ELSE post
             base == IF bDirty THEN Pruned(old) ELSE old
             draft == Inserted(base, c, o.readonly)
             new == [pc |-> "commit", arg |-> c, draft |-> draft]
             m == [cb[c] EXCEPT !.type = o.type, !.once = o.once, !.readonly = o.readonly]
  <1>1. TypeOK /\ o.type \in {"pre", "post"} /\ o.once \in BOOLEAN /\ o.readonly \in BOOLEAN
    BY ConstantsAssumption DEF StateInv
  <1>2. /\ cb[c].type = "none" /\ writer = NoThread /\ writer' = t /\ Free(t)
        /\ cb' = [cb EXCEPT ![c].type = o.type, ![c].once = o.once, ![c].readonly = o.readonly]
        /\ op' = [op EXCEPT ![t] = new]
        /\ UNCHANGED <<pre, post, bDirty, calls, order, left>>
    BY DEF AddCallback, Outside, InBody, vectors, history
  <1>3. /\ cb'[c].type = o.type /\ cb'[c].invalid = cb[c].invalid
        /\ \A d \in Callbacks : d # c => cb'[d] = cb[d]
    <2>1. cb \in [Callbacks -> Metadata]
      BY <1>1 DEF TypeOK
    <2>2. m.type = o.type /\ m.invalid = cb[c].invalid
      BY <2>1 DEF Metadata
    <2>3. cb' = [cb EXCEPT ![c] = m]
      BY <1>2, <2>1
    <2> HIDE DEF m
    <2> QED
      BY <2>1, <2>2, <2>3
  <1>4. order[c] = 0 /\ c \notin Published /\ ~cb[c].invalid
    BY <1>2 DEF VectorInv, UnknownUntouched, Published
  <1>5. old \in Seq(Callbacks) /\ Elements(old) \subseteq Of(o.type)
    BY <1>1 DEF TypeOK, VectorInv, VectorsTyped
  <1> HIDE DEF old
  <1>6. /\ base \in Seq(Callbacks) /\ Elements(base) \subseteq Elements(old)
        /\ \A d \in Elements(old) : ~cb[d].invalid => d \in Elements(base)
    BY <1>5, PrunedProperties
  <1> HIDE DEF base
  <1>7. Elements(draft) = Elements(base) \cup {c}
    BY <1>1, <1>6, InsertedElements
  <1> HIDE DEF draft
  <1>8. /\ OnlyOp(t)
        /\ op'[t].pc = "commit" /\ op'[t].arg = c /\ op'[t].draft = draft
    <2> HIDE DEF new
    <2>1. op'[t] = new /\ OnlyOp(t)
      BY <1>1, <1>2 DEF TypeOK, OnlyOp
    <2> QED
      BY <2>1 DEF new
  <1>9. /\ Published' = Published
        /\ Of("pre") \subseteq Of("pre")' /\ Of("post") \subseteq Of("post")'
    BY <1>2, <1>3, <1>4 DEF Published, Of
  <1>10. VectorsTyped'
    BY <1>2, <1>9 DEF VectorInv, VectorsTyped
  <1>11. UnknownUntouched'
    BY <1>1, <1>2, <1>3, <1>4 DEF VectorInv, UnknownUntouched
  <1>12. FramesOK'
    BY <1>2, FramesStay DEF VectorInv
  <1>13. ArgumentsPublished'
    BY <1>2, <1>8, ArgumentsStay DEF VectorInv
  <1>14. /\ \A u \in Threads : u # t => op'[u].pc # "commit"
         /\ op'[Collector].pc # "gcPost"
    BY <1>2, <1>8, ConstantsAssumption DEF VectorInv, WriterOK, OnlyOp
  <1>15. WriterOK'
    BY <1>2, <1>14 DEF WriterOK
  <1>16. DraftsOK'
    <2>1. DraftOK(t)'
      <3>1. Vector(cb[op[t].arg].type)' = old
        BY <1>2, <1>3, <1>8 DEF Vector, old
      <3>2. \A d \in Elements(old) : cb'[d].invalid = cb[d].invalid
        BY <1>3, <1>4, <1>5 DEF Of, Published
      <3> QED
        BY <1>1, <1>2, <1>3, <1>4, <1>6, <1>7, <1>8, <3>1, <3>2 DEF DraftOK
    <2> QED
      BY <1>14, <2>1 DEF DraftsOK, DraftOK
  <1>17. ValidAreListed'
    <2> SUFFICES ASSUME NEW d \in Callbacks, order[d] > 0, ~cb'[d].invalid
                 PROVE  d \in Elements(IF cb'[d].type = "pre" THEN pre ELSE post)
      BY <1>2 DEF ValidAreListed
    <2>1. d # c
      BY <1>4
    <2> QED
      BY <1>3, <2>1 DEF VectorInv, ValidAreListed
  <1>18. DirtyCoversInvalid'
    <2>1. \A d \in Elements(pre) \cup Elements(post) : cb'[d].invalid => cb[d].invalid
      BY <1>3 DEF VectorInv, VectorsTyped, Of, Published
    <2> QED
      BY <1>2, <1>8, <2>1, DirtyStays DEF VectorInv, Free
  <1> QED
    BY <1>10, <1>11, <1>12, <1>13, <1>15, <1>16, <1>17, <1>18 DEF VectorInv

\* The vector that it publishes lacks only what is invalid.
LEMMA CommitCallbackVectors ==
  ASSUME StateInv, VectorInv, NEW t \in Threads, CommitCallback(t)
  PROVE  VectorInv'
  <1>0. PICK c \in Callbacks, draft \in Seq(Callbacks) : c = op[t].arg /\ draft = op[t].draft
    BY DEF StateInv, TypeOK, Operation, OperationsOK, OperationOK, CommitCallback
  <1>1. TypeOK
    BY DEF StateInv
  <1>2. /\ cb[c].type \in {"pre", "post"} /\ order[c] = 0
        /\ c \in Elements(draft)
        /\ Elements(draft) \subseteq Elements(Vector(cb[c].type)) \cup {c}
        /\ \A d \in Elements(Vector(cb[c].type)) : ~cb[d].invalid => d \in Elements(draft)
    BY <1>0 DEF VectorInv, DraftsOK, DraftOK, CommitCallback
  <1>3. /\ writer = t /\ \A u \in Threads : u # t => op[u].pc # "commit"
        /\ op[Collector].pc # "gcPost"
    BY ConstantsAssumption DEF VectorInv, WriterOK, CommitCallback
  <1>4. /\ Step(t, "free", NoCallback)
        /\ UNCHANGED <<cb, bDirty, calls, left>>
        /\ order' = [order EXCEPT ![c] = commits + 1]
        /\ IF cb[c].type = "pre" THEN pre' = draft /\ UNCHANGED post
                                 ELSE post' = draft /\ UNCHANGED pre
    BY <1>0 DEF CommitCallback
  <1>5. OnlyOp(t) /\ op'[t].pc = "free"
    BY <1>1, <1>4, StepFacts DEF OnlyOp
  <1>6. order'[c] > 0 /\ \A d \in Callbacks : d # c => order'[d] = order[d]
    BY <1>1, <1>4 DEF TypeOK
  <1>7. ~cb[c].invalid
    BY <1>1, <1>2 DEF VectorInv, UnknownUntouched
  <1>8. Published \subseteq Published' /\ c \in Published'
    BY <1>1, <1>2, <1>6 DEF Published
  <1>9. /\ Of("pre") \subseteq Of("pre")' /\ Of("post") \subseteq Of("post")'
        /\ c \in Of(cb[c].type)'
    BY <1>4, <1>8 DEF Of
  <1>10. /\ Elements(pre') \subseteq Elements(pre) \cup {c}
         /\ Elements(post') \subseteq Elements(post) \cup {c}
    BY <1>2, <1>4 DEF Vector
  <1>11. VectorsTyped'
    <2>1. CASE cb[c].type = "pre"
      BY <1>2, <1>4, <1>9, <2>1 DEF Vector, VectorInv, VectorsTyped
    <2>2. CASE cb[c].type = "post"
      BY <1>2, <1>4, <1>9, <2>2 DEF Vector, VectorInv, VectorsTyped
    <2> QED
      BY <1>2, <2>1, <2>2
  <1>12. UnknownUntouched'
    BY <1>2, <1>4, <1>6 DEF VectorInv, UnknownUntouched
  <1>13. FramesOK'
    BY <1>4, <1>8 DEF VectorInv, FramesOK, FrameOK
  <1>14. ArgumentsPublished'
    BY <1>5, <1>8 DEF VectorInv, ArgumentsPublished, OnlyOp
  <1>15. op'[Collector] = op[Collector]
    BY <1>5, ConstantsAssumption DEF OnlyOp
  <1>16. WriterOK' /\ DraftsOK'
    BY <1>3, <1>5, <1>15 DEF WriterOK, DraftsOK, DraftOK, OnlyOp
  <1>17. ValidAreListed'
    <2> SUFFICES ASSUME NEW d \in Callbacks, order'[d] > 0, ~cb[d].invalid
                 PROVE  d \in Elements(IF cb[d].type = "pre" THEN pre' ELSE post')
      BY <1>4 DEF ValidAreListed
    <2>1. CASE d = c
      BY <1>2, <1>4, <2>1
    <2>2. CASE d # c
      <3>1. order[d] > 0
        BY <1>6, <2>2
      <3>2. d \in Elements(IF cb[d].type = "pre" THEN pre ELSE post)
        BY <3>1 DEF VectorInv, ValidAreListed
      <3>3. CASE cb[c].type = "pre"
        BY <1>2, <1>4, <3>2, <3>3 DEF Vector
      <3>4. CASE cb[c].type # "pre"
        BY <1>2, <1>4, <3>2, <3>4 DEF Vector
      <3> QED
        BY <3>3, <3>4
    <2> QED
      BY <2>1, <2>2
  <1>18. DirtyCoversInvalid'
    <2> SUFFICES ASSUME NEW d \in Elements(pre') \cup Elements(post'), cb[d].invalid, d \notin left
                 PROVE  Collectable(d)'
      BY <1>4 DEF DirtyCoversInvalid
    <2>1. d \in Elements(pre) \cup Elements(post)
      BY <1>7, <1>10
    <2>2. Collectable(d)
      BY <2>1 DEF VectorInv, DirtyCoversInvalid
    <2>3. op[t].pc = "commit"
      BY DEF CommitCallback
    <2> QED
      BY <1>3, <1>4, <1>5, <2>2, <2>3, CollectableStays
  <1> QED
    BY <1>11, <1>12, <1>13, <1>14, <1>16, <1>17, <1>18 DEF VectorInv

LEMMA CollectGarbageVectors ==
  ASSUME StateInv, VectorInv, CollectGarbage
  PROVE  VectorInv'
  <1>1. TypeOK /\ Step(Collector, "gcLock", NoCallback) /\ op[Collector].pc = "free"
    BY DEF StateInv, CollectGarbage, Free
  <1>2. OnlyOp(Collector) /\ op'[Collector].pc = "gcLock"
    BY <1>1, StepFacts DEF OnlyOp
  <1>3. UNCHANGED <<cb, pre, post, writer, calls, order, left>>
    BY DEF CollectGarbage, vectors, history
  <1>4. FramesOK' /\ ArgumentsPublished'
    BY <1>2, <1>3, FramesStay, ArgumentsStay DEF VectorInv
  <1>5. DirtyCoversInvalid'
    BY <1>2 DEF DirtyCoversInvalid, Collectable
  <1>6. StatesGrow
    BY <1>3 DEF StatesGrow, SameOptions
  <1> QED
    BY <1>1, <1>2, <1>3, <1>4, <1>5, <1>6, QuietStep

\* What the two halves of a collection have in common: nobody is between the
\* copy of a vector and its replacement.
LEMMA PruneVectors ==
  ASSUME StateInv, VectorInv,
         NEW pc \in {"gcPost", "free"}, Step(Collector, pc, NoCallback),
         pc = "gcPost" => writer' = Collector,
         UNCHANGED <<cb, calls, order>>,
         \A t \in Threads : op[t].pc # "commit",
         Elements(pre') \subseteq Elements(pre) /\ Elements(post') \subseteq Elements(post),
         \A c \in Elements(pre) : ~cb[c].invalid => c \in Elements(pre'),
         \A c \in Elements(post) : ~cb[c].invalid => c \in Elements(post'),
         DirtyCoversInvalid'
  PROVE  VectorInv'
  <1>1. TypeOK
    BY DEF StateInv
  <1>2. OnlyOp(Collector) /\ op'[Collector].pc = pc
    BY <1>1, StepFacts DEF OnlyOp
  <1>3. \A t \in Threads : op'[t] = op[t]
    BY <1>2, ConstantsAssumption DEF OnlyOp
  <1>4. VectorsTyped' /\ UnknownUntouched'
    BY DEF VectorInv, VectorsTyped, UnknownUntouched, Of, Published
  <1>5. FramesOK' /\ ArgumentsPublished'
    BY <1>2, <1>3, FramesStay DEF VectorInv, ArgumentsPublished, Published
  <1>6. WriterOK' /\ DraftsOK'
    BY <1>2, <1>3 DEF WriterOK, DraftsOK, DraftOK
  <1>7. ValidAreListed'
    BY DEF VectorInv, ValidAreListed
  <1> QED
    BY <1>4, <1>5, <1>6, <1>7 DEF VectorInv

LEMMA PrunePreVectors ==
  ASSUME StateInv, VectorInv, PrunePre
  PROVE  VectorInv'
  <1>1. /\ Step(Collector, "gcPost", NoCallback)
        /\ writer = NoThread /\ writer' = Collector /\ pre' = Pruned(pre)
        /\ UNCHANGED <<cb, post, bDirty, calls, order, left>>
    BY DEF PrunePre, history
  <1>2. TypeOK
    BY DEF StateInv
  <1>3. \A t \in Threads : op[t].pc # "commit"
    BY <1>1, ConstantsAssumption DEF VectorInv, WriterOK
  <1>4. Elements(pre') = {c \in Elements(pre) : ~cb[c].invalid}
    BY <1>1, <1>2, PrunedProperties DEF TypeOK
  <1>5. op'[Collector].pc = "gcPost"
    BY <1>1, <1>2, StepFacts
  <1>6. DirtyCoversInvalid'
    <2> SUFFICES ASSUME NEW c \in Elements(pre') \cup Elements(post), cb[c].invalid
                 PROVE  Collectable(c)'
      BY <1>1 DEF DirtyCoversInvalid
    <2>1. c \in Elements(post')
      BY <1>1, <1>4
    <2> QED
      BY <1>5, <2>1 DEF Collectable
  <1> QED
    BY <1>1, <1>3, <1>4, <1>6, PruneVectors

\* A callback that the first half left in a vector was invalidated since, and
\* whoever did that sets the flag.
LEMMA PrunePostVectors ==
  ASSUME StateInv, VectorInv, PrunePost
  PROVE  VectorInv'
  <1>1. /\ Step(Collector, "free", NoCallback)
        /\ op[Collector].pc = "gcPost" /\ post' = Pruned(post)
        /\ UNCHANGED <<cb, pre, bDirty, calls, order, left>>
    BY DEF PrunePost, history
  <1>2. TypeOK
    BY DEF StateInv
  <1>3. \A t \in Threads : op[t].pc # "commit"
    BY <1>1, ConstantsAssumption DEF VectorInv, WriterOK
  <1>4. Elements(post') = {c \in Elements(post) : ~cb[c].invalid}
    BY <1>1, <1>2, PrunedProperties DEF TypeOK
  <1>5. \A t \in Threads : op'[t] = op[t]
    BY <1>1, <1>2, StepFacts, ConstantsAssumption
  <1>6. DirtyCoversInvalid'
    <2> SUFFICES ASSUME NEW c \in Elements(pre) \cup Elements(post'), cb[c].invalid, c \notin left
                 PROVE  Collectable(c)'
      BY <1>1 DEF DirtyCoversInvalid
    <2>1. c \in Elements(pre)
      BY <1>4
    <2>2. c \notin Elements(post)
      BY <2>1 DEF VectorInv, VectorsTyped, Of
    <2>3. Collectable(c)
      BY <2>1 DEF VectorInv, DirtyCoversInvalid
    <2>4. bDirty \/ \E t \in Threads : Marking(t, c)
      BY <1>1, <2>2, <2>3 DEF Collectable
    <2>5. \A t \in Threads : Marking(t, c) => Marking(t, c)'
      BY <1>1, <1>5 DEF Marking, Top
    <2> QED
      BY <1>1, <2>4, <2>5 DEF Collectable
  <1> QED
    BY <1>1, <1>3, <1>4, <1>6, PruneVectors

LEMMA VectorInvNext == StateInv /\ VectorInv /\ [Next]_vars => VectorInv'
  <1> SUFFICES ASSUME StateInv, VectorInv, [Next]_vars PROVE VectorInv'
    OBVIOUS
  <1>1. ASSUME NEW t \in Threads, Register(t) \/ Unregister(t) PROVE VectorInv'
    BY <1>1, AddCallbackVectors, RemoveCallbackVectors DEF Register, Unregister
  <1>2. ASSUME NEW t \in Threads, Invoke(t) PROVE VectorInv'
    BY <1>2, InvokeVectors
  <1>3. ASSUME NEW t \in Threads, Advance(t) PROVE VectorInv'
    BY <1>3, CommitCallbackVectors, InvalidateVectors, RemoveReturnVectors, MarkDirtyVectors,
       LoopVectors, TryBeginVectors, EndVectors, InvokeReturnVectors DEF Advance, LoopStep
  <1>4. ASSUME NEW t \in Threads, CallbackEnds(t) PROVE VectorInv'
    BY <1>4, EndVectors, InvalidateVectors DEF CallbackEnds
  <1>5. ASSUME NEW t \in Threads,
               OriginalReturn(t) \/ TrySetReturnValue(t) \/ PreventOriginalFunctionCall(t)
        PROVE  VectorInv'
    BY <1>5, LoopVectors DEF LoopStep
  <1>6. ASSUME NEW t \in Threads, RemoveSelf(t) PROVE VectorInv'
    BY <1>6, InvalidateVectors
  <1>7. CASE Collect
    BY <1>7, CollectGarbageVectors, PrunePreVectors, PrunePostVectors DEF Collect
  <1>8. CASE UNCHANGED vars
    <2>1. UNCHANGED <<cb, pre, post, bDirty, writer, calls, op, order, left>>
      BY <1>8 DEF vars
    <2>2. VectorsTyped' /\ UnknownUntouched' /\ FramesOK' /\ ArgumentsPublished'
      BY <2>1 DEF VectorInv, VectorsTyped, UnknownUntouched, FramesOK, FrameOK,
                  ArgumentsPublished, Of, Published
    <2>3. WriterOK' /\ DraftsOK' /\ ValidAreListed'
      BY <2>1 DEF VectorInv, WriterOK, DraftsOK, DraftOK, Vector, ValidAreListed
    <2>4. DirtyCoversInvalid'
      BY <2>1 DEF VectorInv, DirtyCoversInvalid, Collectable, Marking, Top
    <2> QED
      BY <2>2, <2>3, <2>4 DEF VectorInv
  <1> QED
    BY <1>1, <1>2, <1>3, <1>4, <1>5, <1>6, <1>7, <1>8 DEF Next

\* Every reachable state satisfies the invariant about the vectors.
THEOREM VectorInvariant == Spec => []VectorInv
  <1> QED
    BY VectorInvInit, VectorInvNext, StateInvariant, PTL DEF Spec

\* No registration gets lost, neither to another one nor to the collector.
THEOREM NoRegistrationLost == Spec => []ValidAreListed
  <1>1. VectorInv => ValidAreListed
    BY DEF VectorInv
  <1> QED
    BY <1>1, VectorInvariant, PTL

\* No invalid callback but one that removed itself is overlooked by the
\* collector: bDirty is set, about to be set, or its collection is under way.
THEOREM GarbageIsAnnounced == Spec => []DirtyCoversInvalid
  <1>1. VectorInv => DirtyCoversInvalid
    BY DEF VectorInv
  <1> QED
    BY <1>1, VectorInvariant, PTL

-----------------------------------------------------------------------------
(* The refinement.                                                          *)

\* The step maps to one of the contract, or stutters.
ContractStep == [Contract!Next]_(Contract!contract)

LEMMA InitRefines == Init => Contract!Init
  BY DEF Init, Contract!Init

LEMMA NoContractStep ==
  ASSUME UNCHANGED <<order, removed>>,
         \A c \in Callbacks : cb'[c].invalid = cb[c].invalid /\ cb'[c].executors = cb[c].executors
  PROVE  ContractStep
  BY DEF ContractStep, Contract!contract

LEMMA CommitRegisters ==
  ASSUME StateInv, VectorInv, NEW t \in Threads, CommitCallback(t)
  PROVE  ContractStep
  <1>1. PICK c \in Callbacks : c = op[t].arg
    BY DEF StateInv, OperationsOK, OperationOK, CommitCallback
  <1>2. order[c] = 0 /\ ~cb[c].invalid
    BY <1>1 DEF CommitCallback, VectorInv, DraftsOK, DraftOK, UnknownUntouched
  <1>3. UNCHANGED <<cb, removed>> /\ order' = [order EXCEPT ![c] = commits + 1]
    BY <1>1 DEF CommitCallback
  <1>4. order'[c] # 0 /\ \A d \in Callbacks : d # c => order'[d] = order[d]
    BY <1>3 DEF StateInv, TypeOK
  <1>5. Contract!Register(c)
    BY <1>2, <1>3, <1>4 DEF Contract!Register
  <1> QED
    BY <1>5 DEF ContractStep, Contract!Next

LEMMA InvalidateRetires ==
  ASSUME StateInv, VectorInv, NEW t \in Threads,
         RemoveInvalidate(t) \/ CallbackThrow(t) \/ RemoveSelf(t)
  PROVE  ContractStep
  <1>1. PICK c \in Callbacks :
            /\ RemoveInvalidate(t) => c = op[t].arg
            /\ CallbackThrow(t) \/ RemoveSelf(t) =>
                  Free(t) /\ calls[t] # <<>> /\ c = Top(t).current
            /\ cb'[c].invalid /\ cb'[c].executors = cb[c].executors
            /\ \A d \in Callbacks : d # c => cb'[d] = cb[d]
    BY InvalidateFacts
  <1>2. UNCHANGED <<order, removed>>
    BY DEF RemoveInvalidate, CallbackThrow, RemoveSelf, history
  <1>3. order[c] # 0
    <2>1. CASE RemoveInvalidate(t)
      BY <1>1, <2>1 DEF RemoveInvalidate, VectorInv, ArgumentsPublished, Published
    <2>2. CASE CallbackThrow(t) \/ RemoveSelf(t)
      <3>1. FrameOK(Top(t))
        BY <1>1, <2>2, TopFrame DEF StateInv, VectorInv
      <3> QED
        BY <1>1, <2>2, <3>1, ConstantsAssumption DEF FrameOK, Published
    <2> QED
      BY <2>1, <2>2
  <1>4. CASE cb[c].invalid
    BY <1>1, <1>2, <1>4, NoContractStep DEF StateInv, TypeOK, Metadata
  <1>5. CASE ~cb[c].invalid
    <2>1. Contract!Retire(c)
      BY <1>1, <1>2, <1>3, <1>5 DEF Contract!Retire
    <2> QED
      BY <2>1 DEF ContractStep, Contract!Next
  <1> QED
    BY <1>4, <1>5

LEMMA TryBeginBegins ==
  ASSUME StateInv, VectorInv, NEW t \in Threads, TryBeginExecution(t)
  PROVE  ContractStep
  <1>1. TypeOK
    BY DEF StateInv
  <1>2. PICK c \in Elements(Top(t).snap) :
           /\ c \in Callbacks /\ ~cb[c].invalid
           /\ cb'[c].executors = cb[c].executors + 1
           /\ \A d \in Callbacks : d # c => cb'[d] = cb[d]
    BY <1>1, TryBeginFacts
  <1>3. FrameOK(Top(t))
    BY <1>1, TryBeginFacts, TopFrame DEF VectorInv
  <1>4. order[c] # 0
    BY <1>2, <1>3 DEF FrameOK, Published
  <1>5. UNCHANGED <<order, removed>>
    BY DEF TryBeginExecution
  <1>6. Contract!Begin(c)
    <2>1. CASE cb'[c].invalid
      BY <1>2, <1>4, <1>5, <2>1 DEF Contract!Begin
    <2>2. CASE ~cb'[c].invalid
      BY <1>2, <1>4, <1>5, <2>2 DEF Contract!Begin
    <2> QED
      BY <2>1, <2>2
  <1> QED
    BY <1>2, <1>6 DEF ContractStep, Contract!Next

LEMMA EndEnds ==
  ASSUME StateInv, NEW t \in Threads, CallbackReturn(t) \/ Unwind(t)
  PROVE  ContractStep
  <1>1. PICK c \in Callbacks :
              /\ cb[c].executors \in Nat \ {0}
              /\ cb'[c].executors = cb[c].executors - 1
              /\ cb'[c].invalid = cb[c].invalid
              /\ \A d \in Callbacks : d # c => cb'[d] = cb[d]
    BY EndFacts
  <1>2. UNCHANGED <<order, removed>>
    BY DEF CallbackReturn, Unwind, history
  <1>3. /\ cb[c].executors > 0
        /\ \A d \in Callbacks : cb'[d].invalid = cb[d].invalid
        /\ \A d \in Callbacks : cb'[d].executors =
              IF d = c THEN cb[d].executors - 1 ELSE cb[d].executors
    BY <1>1
  <1>4. Contract!End(c)
    BY <1>2, <1>3 DEF Contract!End
  <1> QED
    BY <1>4 DEF ContractStep, Contract!Next

LEMMA RemoveReturnAnswers ==
  ASSUME StateInv, VectorInv, NEW t \in Threads, RemoveReturn(t)
  PROVE  ContractStep
  <1>1. PICK c \in Callbacks : c = op[t].arg
    BY DEF StateInv, OperationsOK, OperationOK, RemoveReturn
  <1>2. cb[c].invalid /\ order[c] # 0
    BY <1>1 DEF StateInv, OperationsOK, OperationOK, RemoveReturn,
                VectorInv, ArgumentsPublished, Published
  <1>3. cb[c].executors = 0 /\ removed' = removed \cup {c} /\ UNCHANGED <<cb, order>>
    BY <1>1 DEF RemoveReturn
  <1>4. Contract!Answer(c)
    BY <1>2, <1>3 DEF Contract!Answer
  <1> QED
    BY <1>4 DEF ContractStep, Contract!Next

LEMMA NextRefines == StateInv /\ VectorInv /\ [Next]_vars => ContractStep
  <1> SUFFICES ASSUME StateInv, VectorInv, [Next]_vars PROVE ContractStep
    OBVIOUS
  <1>1. ASSUME NEW t \in Threads, Register(t) PROVE ContractStep
    <2>1. PICK c \in Callbacks, o \in Options : AddCallback(t, c, o)
      BY <1>1 DEF Register
    <2>2. cb' = [cb EXCEPT ![c].type = o.type, ![c].once = o.once, ![c].readonly = o.readonly]
      BY <2>1 DEF AddCallback
    <2>3. \A d \in Callbacks : cb'[d].invalid = cb[d].invalid /\ cb'[d].executors = cb[d].executors
      <3> DEFINE m == [cb[c] EXCEPT !.type = o.type, !.once = o.once, !.readonly = o.readonly]
      <3>1. cb \in [Callbacks -> Metadata]
        BY DEF StateInv, TypeOK
      <3>2. m.invalid = cb[c].invalid /\ m.executors = cb[c].executors
        BY <3>1 DEF Metadata
      <3>3. cb' = [cb EXCEPT ![c] = m]
        BY <2>2, <3>1
      <3> HIDE DEF m
      <3> QED
        BY <3>1, <3>2, <3>3
    <2> QED
      BY <2>1, <2>3, NoContractStep DEF AddCallback, history
  <1>2. ASSUME NEW t \in Threads,
               \/ Unregister(t) \/ Invoke(t) \/ MarkDirty(t) \/ SkipInvalid(t) \/ PreHooksDone(t)
               \/ InvokeReturn(t) \/ OriginalReturn(t) \/ TrySetReturnValue(t)
               \/ PreventOriginalFunctionCall(t)
        PROVE  UNCHANGED <<cb, order, removed>>
    BY <1>2 DEF Unregister, RemoveCallback, Invoke, MarkDirty, SkipInvalid, PreHooksDone, InvokeReturn,
                OriginalReturn, TrySetReturnValue, PreventOriginalFunctionCall, history
  <1>3. Collect \/ UNCHANGED vars => UNCHANGED <<cb, order, removed>>
    BY DEF Collect, CollectGarbage, PrunePre, PrunePost, history, vars
  <1>4. ASSUME UNCHANGED <<cb, order, removed>> PROVE ContractStep
    BY <1>4, NoContractStep
  <1>5. ASSUME NEW t \in Threads, Advance(t) PROVE ContractStep
    BY <1>2, <1>4, <1>5, CommitRegisters, InvalidateRetires, RemoveReturnAnswers,
       TryBeginBegins, EndEnds DEF Advance
  <1>6. ASSUME NEW t \in Threads, CallbackEnds(t) \/ RemoveSelf(t) PROVE ContractStep
    BY <1>6, EndEnds, InvalidateRetires DEF CallbackEnds
  <1> QED
    BY <1>1, <1>2, <1>3, <1>4, <1>5, <1>6 DEF Next

\* The detour keeps the contract: a callback runs only from its registration
\* to its retirement, and not after its removal was answered.
THEOREM DetourKeepsContract == Spec => ImplementsContract
  <1>1. StateInv /\ VectorInv /\ [Next]_vars => [Contract!Next]_(Contract!contract)
    BY NextRefines DEF ContractStep
  <1> QED
    BY <1>1, InitRefines, StateInvariant, VectorInvariant, PTL
       DEF Spec, ImplementsContract, Contract!Spec

-----------------------------------------------------------------------------
(* Readonly callbacks come last, and see what is final.                     *)

Sorted(s) == \A j, k \in DOMAIN s : j < k /\ cb[s[j]].readonly => cb[s[k]].readonly

\* The loop executes the callback at its position, and none in the original.
FrameSorted(f) ==
    /\ Sorted(f.snap)
    /\ f.current # NoCallback => f.at \in DOMAIN f.snap /\ f.snap[f.at] = f.current
    /\ f.phase = "original" => f.current = NoCallback

OrderInv ==
    /\ Sorted(pre) /\ Sorted(post)
    /\ \A t \in Threads : op[t].pc = "commit" => Sorted(op[t].draft)
    /\ \A t \in Threads : \A i \in DOMAIN calls[t] : FrameSorted(calls[t][i])

Typed == {c \in Callbacks : cb[c].type # "none"}

ReadonlyStays == \A c \in Typed : cb'[c].readonly = cb[c].readonly

SortedNext(s) == \A j, k \in DOMAIN s : j < k /\ cb'[s[j]].readonly => cb'[s[k]].readonly

LEMMA SortedStays ==
  ASSUME ReadonlyStays, NEW s, Elements(s) \subseteq Typed, Sorted(s)
  PROVE  SortedNext(s)
  BY DEF ReadonlyStays, Elements, Sorted, SortedNext

LEMMA PublishedAreTyped ==
  ASSUME TypeOK, VectorInv
  PROVE  /\ Published \subseteq Typed
         /\ Elements(pre) \subseteq Typed /\ Elements(post) \subseteq Typed
  BY DEF VectorInv, UnknownUntouched, VectorsTyped, Of, Published, Typed

LEMMA OrderInvInit == Init => OrderInv
  <1> SUFFICES ASSUME Init PROVE OrderInv
    OBVIOUS
  <1>1. DOMAIN <<>> = {}
    BY EmptySeq
  <1>2. pre = <<>> /\ post = <<>> /\ \A t \in Threads : calls[t] = <<>> /\ op[t].pc = "free"
    BY DEF Init, NoOperation
  <1> QED
    BY <1>1, <1>2 DEF OrderInv, Sorted

\* Only AddCallback says what is readonly, of a callback that is new.
LEMMA OptionsAreFixed ==
  ASSUME StateInv, [Next]_vars
  PROVE  ReadonlyStays
  <1>1. cb \in [Callbacks -> Metadata]
    BY DEF StateInv, TypeOK
  <1>2. ASSUME NEW t \in Threads, Register(t) PROVE ReadonlyStays
    <2>1. PICK c \in Callbacks, o \in Options : AddCallback(t, c, o)
      BY <1>2 DEF Register
    <2>2. /\ cb[c].type = "none"
          /\ cb' = [cb EXCEPT ![c].type = o.type, ![c].once = o.once, ![c].readonly = o.readonly]
      BY <2>1 DEF AddCallback
    <2> QED
      BY <1>1, <2>2 DEF ReadonlyStays, Typed
  <1>3. ASSUME NEW t \in Threads,
               RemoveInvalidate(t) \/ CallbackThrow(t) \/ RemoveSelf(t) \/ TryBeginExecution(t)
                 \/ CallbackReturn(t) \/ Unwind(t)
        PROVE  ReadonlyStays
    <2>1. TypeOK
      BY DEF StateInv
    <2>2. \E c \in Callbacks : SameOptions(c) /\ \A d \in Callbacks : d # c => cb'[d] = cb[d]
      <3>1. CASE RemoveInvalidate(t) \/ CallbackThrow(t) \/ RemoveSelf(t)
        BY <3>1, InvalidateFacts
      <3>2. CASE TryBeginExecution(t)
        BY <2>1, <3>2, TryBeginFacts
      <3>3. CASE CallbackReturn(t) \/ Unwind(t)
        BY <3>3, EndFacts
      <3> QED
        BY <1>3, <3>1, <3>2, <3>3
    <2> QED
      BY <2>2 DEF ReadonlyStays, Typed, SameOptions
  <1>4. ASSUME NEW t \in Threads,
               \/ CommitCallback(t) \/ Unregister(t) \/ Invoke(t) \/ MarkDirty(t) \/ RemoveReturn(t)
               \/ InvokeReturn(t) \/ LoopStep(t)
        PROVE  UNCHANGED cb
    BY <1>4 DEF CommitCallback, Unregister, RemoveCallback, Invoke, MarkDirty, RemoveReturn,
                InvokeReturn, LoopStep, SkipInvalid, PreHooksDone, OriginalReturn,
                TrySetReturnValue, PreventOriginalFunctionCall
  <1>5. Collect \/ UNCHANGED vars => UNCHANGED cb
    BY DEF Collect, CollectGarbage, PrunePre, PrunePost, vars
  <1>6. ASSUME UNCHANGED cb PROVE ReadonlyStays
    BY <1>6 DEF ReadonlyStays
  <1> QED
    BY <1>2, <1>3, <1>4, <1>5, <1>6 DEF Next, Advance, CallbackEnds, LoopStep

\* What it takes to preserve the order.
LEMMA OrderStep ==
  ASSUME StateInv, VectorInv, OrderInv, ReadonlyStays,
         NEW x \in Threads \cup {Collector}, OnlyOp(x),
         Sorted(pre)' /\ Sorted(post)',
         op'[x].pc = "commit" => Sorted(op[x].draft)',
         \A u \in Threads : \A i \in DOMAIN calls'[u] :
            FrameSorted(calls'[u][i]) /\ Elements(calls'[u][i].snap) \subseteq Published
  PROVE  OrderInv'
  <1>1. Published \subseteq Typed
    BY PublishedAreTyped DEF StateInv
  <1>2. ASSUME NEW u \in Threads, NEW i \in DOMAIN calls'[u] PROVE FrameSorted(calls[u][i])'
    <2>1. SortedNext(calls'[u][i].snap)
      BY <1>1, SortedStays DEF FrameSorted
    <2> QED
      BY <2>1 DEF FrameSorted, Sorted, SortedNext
  <1>3. ASSUME NEW u \in Threads, op'[u].pc = "commit", u # x PROVE Sorted(op[u].draft)'
    <2>1. op'[u] = op[u] /\ op[u].pc = "commit"
      BY <1>3 DEF OnlyOp
    <2>2. PICK c \in Callbacks : c = op[u].arg
      BY <2>1 DEF StateInv, OperationsOK, OperationOK
    <2>3. /\ cb[c].type \in {"pre", "post"}
          /\ Elements(op[u].draft) \subseteq Elements(Vector(cb[c].type)) \cup {c}
      BY <2>1, <2>2 DEF VectorInv, DraftsOK, DraftOK
    <2>4. Elements(op[u].draft) \subseteq Typed
      BY <2>3, PublishedAreTyped DEF StateInv, Vector, Typed
    <2>5. SortedNext(op[u].draft)
      BY <2>1, <2>4, SortedStays DEF OrderInv
    <2> QED
      BY <2>1, <2>5 DEF Sorted, SortedNext
  <1> QED
    BY <1>2, <1>3 DEF OrderInv

LEMMA VectorsStaySorted ==
  ASSUME StateInv, VectorInv, OrderInv, ReadonlyStays
  PROVE  /\ pre' = pre => Sorted(pre)'
         /\ post' = post => Sorted(post)'
  <1>1. SortedNext(pre) /\ SortedNext(post)
    BY PublishedAreTyped, SortedStays DEF OrderInv, StateInv
  <1> QED
    BY <1>1 DEF Sorted, SortedNext

LEMMA FramesAreSorted ==
  ASSUME VectorInv, OrderInv, NEW u \in Threads, NEW i \in DOMAIN calls[u]
  PROVE  FrameSorted(calls[u][i]) /\ Elements(calls[u][i].snap) \subseteq Published
  BY DEF VectorInv, FramesOK, FrameOK, OrderInv

LEMMA TopIsSorted ==
  ASSUME StateInv, VectorInv, OrderInv, NEW t \in Threads, calls[t] # <<>>
  PROVE  FrameSorted(Top(t)) /\ Elements(Top(t).snap) \subseteq Published
  BY TopFacts, FramesAreSorted DEF StateInv, Top

\* Steps of the innermost invocation, and steps of no invocation.
LEMMA OrderTop ==
  ASSUME StateInv, VectorInv, OrderInv, ReadonlyStays, NEW t \in Threads, calls[t] # <<>>,
         NEW f \in Invocation, SetTop(t, f), FrameSorted(f), Elements(f.snap) \subseteq Published,
         OnlyOp(t), op'[t].pc # "commit", UNCHANGED <<pre, post>>
  PROVE  OrderInv'
  <1>1. TypeOK
    BY DEF StateInv
  <1>2. ASSUME NEW u \in Threads, NEW i \in DOMAIN calls'[u]
        PROVE  FrameSorted(calls'[u][i]) /\ Elements(calls'[u][i].snap) \subseteq Published
    <2>1. i \in DOMAIN calls[u]
      BY <1>1, <1>2, SetTopFacts
    <2>2. CASE u = t /\ i = Len(calls[t])
      <3>1. calls'[u][i] = f
        BY <1>1, <2>2, SetTopFacts
      <3> QED
        BY <3>1
    <2>3. CASE ~(u = t /\ i = Len(calls[t]))
      <3>1. calls'[u][i] = calls[u][i]
        BY <1>1, <2>1, <2>3, SetTopFacts
      <3> QED
        BY <2>1, <3>1, FramesAreSorted
    <2> QED
      BY <2>2, <2>3
  <1>3. Sorted(pre)' /\ Sorted(post)'
    BY VectorsStaySorted
  <1> QED
    BY <1>2, <1>3, OrderStep

LEMMA OrderElsewhere ==
  ASSUME StateInv, VectorInv, OrderInv, ReadonlyStays, NEW x \in Threads \cup {Collector},
         OnlyOp(x), op'[x].pc # "commit", UNCHANGED calls,
         Sorted(pre)' /\ Sorted(post)'
  PROVE  OrderInv'
  <1>1. \A u \in Threads : \A i \in DOMAIN calls'[u] :
            FrameSorted(calls'[u][i]) /\ Elements(calls'[u][i].snap) \subseteq Published
    BY FramesAreSorted
  <1> QED
    BY <1>1, OrderStep

LEMMA PrunedSorted ==
  ASSUME NEW s \in Seq(Callbacks), Sorted(s)
  PROVE  Sorted(Pruned(s))
  <1>1. PICK p \in [DOMAIN Pruned(s) -> DOMAIN s] :
               /\ \A k \in DOMAIN Pruned(s) : Pruned(s)[k] = s[p[k]]
               /\ \A j, k \in DOMAIN Pruned(s) : j < k => p[j] < p[k]
    BY PrunedProperties
  <1> DEFINE r == Pruned(s)
  <1> HIDE DEF r
  <1>2. p \in [DOMAIN r -> DOMAIN s]
        /\ (\A k \in DOMAIN r : r[k] = s[p[k]])
        /\ (\A j, k \in DOMAIN r : j < k => p[j] < p[k])
    BY <1>1 DEF r
  <1>3. Sorted(r)
    BY <1>2 DEF Sorted
  <1> QED
    BY <1>3 DEF r

\* The new callback goes where the order asks for.
LEMMA InsertedSorted ==
  ASSUME NEW s \in Seq(Callbacks), NEW c \in Callbacks, NEW ro \in BOOLEAN, Sorted(s),
         Elements(s) \subseteq Typed, ReadonlyStays, cb'[c].readonly = ro
  PROVE  SortedNext(Inserted(s, c, ro))
  <1> DEFINE r == Inserted(s, c, ro)
             n == Len(s)
  <1>1. n \in Nat /\ DOMAIN s = 1 .. n
    BY LenProperties
  <1>2. DOMAIN r = 1 .. n + 1
    BY <1>1, InsertedShape, LenProperties
  <1>3. PICK k \in 1 .. n + 1 : InsertedAt(s, c, ro, r, k)
    BY InsertedShape
  <1>11. /\ ro => k = n + 1
         /\ ~ro => \A j \in 1 .. k - 1 : ~cb[s[j]].readonly
         /\ \A i \in 1 .. n + 1 : r[i] = IF i < k THEN s[i] ELSE IF i = k THEN c ELSE s[i - 1]
    BY <1>3 DEF InsertedAt
  <1> HIDE DEF r, n
  <1>4. \A i \in 1 .. n : cb'[s[i]].readonly = cb[s[i]].readonly
    BY <1>1 DEF Elements, ReadonlyStays
  <1>5. \A i, j \in 1 .. n : i < j /\ cb'[s[i]].readonly => cb'[s[j]].readonly
    BY <1>1, <1>4 DEF Sorted
  <1>6. SUFFICES ASSUME NEW i \in 1 .. n + 1, NEW j \in 1 .. n + 1, i < j, cb'[r[i]].readonly
                 PROVE  cb'[r[j]].readonly
    BY <1>2 DEF SortedNext, r
  <1>7. CASE i < k
    <2>1. r[i] = s[i] /\ i \in 1 .. n
      BY <1>1, <1>11, <1>7
    <2>2. i \in 1 .. k - 1
      BY <1>1, <1>11, <1>7
    <2>3. ro
      <3>1. cb[s[i]].readonly
        BY <1>4, <1>6, <2>1
      <3> QED
        BY <1>11, <2>2, <3>1
    <2>4. k = n + 1
      BY <1>11, <2>3, Zenon
    <2>5. CASE j = k
      <3>1. r[j] = c
        BY <1>11, <2>5
      <3> QED
        BY <2>3, <3>1
    <2>6. CASE j < k
      <3>1. r[j] = s[j] /\ j \in 1 .. n
        BY <1>1, <1>11, <2>6
      <3> QED
        BY <1>5, <1>6, <2>1, <3>1
    <2> QED
      BY <1>1, <2>4, <2>5, <2>6
  <1>8. CASE i = k
    <2>1. r[i] = c /\ k # n + 1
      BY <1>1, <1>11, <1>6, <1>8
    <2> QED
      BY <1>11, <1>6, <2>1
  <1>9. CASE i > k
    <2>1. r[i] = s[i - 1] /\ i - 1 \in 1 .. n
      BY <1>1, <1>11, <1>9
    <2>2. r[j] = s[j - 1] /\ j - 1 \in 1 .. n /\ i - 1 < j - 1
      BY <1>1, <1>11, <1>6, <1>9
    <2> QED
      BY <1>5, <1>6, <2>1, <2>2
  <1> QED
    BY <1>1, <1>11, <1>7, <1>8, <1>9

LEMMA AddCallbackOrder ==
  ASSUME StateInv, VectorInv, OrderInv, ReadonlyStays,
         NEW t \in Threads, NEW c \in Callbacks, NEW o \in Options, AddCallback(t, c, o)
  PROVE  OrderInv'
  <1> DEFINE old == IF o.type = "pre" THEN pre ELSE post
             base == IF bDirty THEN Pruned(old) ELSE old
             draft == Inserted(base, c, o.readonly)
             new == [pc |-> "commit", arg |-> c, draft |-> draft]
             m == [cb[c] EXCEPT !.type = o.type, !.once = o.once, !.readonly = o.readonly]
  <1>1. TypeOK /\ o.readonly \in BOOLEAN
    BY ConstantsAssumption DEF StateInv
  <1>2. /\ cb' = [cb EXCEPT ![c].type = o.type, ![c].once = o.once, ![c].readonly = o.readonly]
        /\ op' = [op EXCEPT ![t] = new]
        /\ UNCHANGED <<pre, post, calls>>
    BY DEF AddCallback, vectors
  <1>3. cb'[c].readonly = o.readonly
    <2>1. cb \in [Callbacks -> Metadata]
      BY <1>1 DEF TypeOK
    <2>2. m.readonly = o.readonly
      BY <2>1 DEF Metadata
    <2>3. cb' = [cb EXCEPT ![c] = m]
      BY <1>2, <2>1
    <2> HIDE DEF m
    <2> QED
      BY <2>1, <2>2, <2>3
  <1>4. old \in Seq(Callbacks) /\ Sorted(old) /\ Elements(old) \subseteq Typed
    BY <1>1, PublishedAreTyped DEF TypeOK, OrderInv
  <1> HIDE DEF old
  <1>5. base \in Seq(Callbacks) /\ Sorted(base) /\ Elements(base) \subseteq Typed
    BY <1>4, PrunedProperties, PrunedSorted
  <1> HIDE DEF base
  <1>6. SortedNext(draft)
    BY <1>1, <1>3, <1>5, InsertedSorted
  <1> HIDE DEF draft
  <1>7. OnlyOp(t) /\ op'[t].draft = draft
    <2> HIDE DEF new
    <2>1. op'[t] = new /\ OnlyOp(t)
      BY <1>1, <1>2 DEF TypeOK, OnlyOp
    <2> QED
      BY <2>1 DEF new
  <1>8. Sorted(op[t].draft)'
    BY <1>6, <1>7 DEF Sorted, SortedNext
  <1>9. \A u \in Threads : \A i \in DOMAIN calls'[u] :
            FrameSorted(calls'[u][i]) /\ Elements(calls'[u][i].snap) \subseteq Published
    BY <1>2, FramesAreSorted
  <1>10. Sorted(pre)' /\ Sorted(post)'
    BY <1>2, VectorsStaySorted
  <1> QED
    BY <1>7, <1>8, <1>9, <1>10, OrderStep

LEMMA CommitCallbackOrder ==
  ASSUME StateInv, VectorInv, OrderInv, ReadonlyStays, NEW t \in Threads, CommitCallback(t)
  PROVE  OrderInv'
  <1>1. TypeOK /\ Step(t, "free", NoCallback) /\ op[t].pc = "commit"
    BY DEF StateInv, CommitCallback
  <1>2. OnlyOp(t) /\ op'[t].pc = "free"
    BY <1>1, StepFacts DEF OnlyOp
  <1>3. Sorted(op[t].draft)
    BY <1>1 DEF OrderInv
  <1>4. /\ UNCHANGED <<cb, calls>>
        /\ pre' \in {pre, op[t].draft} /\ post' \in {post, op[t].draft}
    BY DEF CommitCallback
  <1>5. Sorted(pre)' /\ Sorted(post)'
    BY <1>3, <1>4 DEF OrderInv, Sorted
  <1> QED
    BY <1>2, <1>4, <1>5, OrderElsewhere

LEMMA CollectOrder ==
  ASSUME StateInv, VectorInv, OrderInv, ReadonlyStays, Collect
  PROVE  OrderInv'
  <1>1. TypeOK
    BY DEF StateInv
  <1>2. OnlyOp(Collector) /\ op'[Collector].pc # "commit"
    <2>1. \E pc \in {"gcLock", "gcPost", "free"} : Step(Collector, pc, NoCallback)
      BY DEF Collect, CollectGarbage, PrunePre, PrunePost
    <2> QED
      BY <1>1, <2>1, StepFacts DEF OnlyOp
  <1>3. /\ UNCHANGED <<cb, calls>>
        /\ pre' \in {pre, Pruned(pre)} /\ post' \in {post, Pruned(post)}
    BY DEF Collect, CollectGarbage, PrunePre, PrunePost, vectors
  <1>4. Sorted(Pruned(pre)) /\ Sorted(Pruned(post))
    BY <1>1, PrunedSorted DEF TypeOK, OrderInv
  <1>5. Sorted(pre)' /\ Sorted(post)'
    BY <1>3, <1>4 DEF OrderInv, Sorted
  <1> QED
    BY <1>2, <1>3, <1>5, OrderElsewhere

\* Operations of threads that leave vectors and invocations alone.
LEMMA OperationOrder ==
  ASSUME StateInv, VectorInv, OrderInv, ReadonlyStays, NEW t \in Threads,
         Unregister(t) \/ RemoveInvalidate(t) \/ RemoveReturn(t) \/ MarkDirty(t)
           \/ CallbackThrow(t) \/ RemoveSelf(t)
  PROVE  OrderInv'
  <1>1. TypeOK
    BY DEF StateInv
  <1>2. UNCHANGED <<pre, post, calls>>
    BY DEF Unregister, RemoveCallback, RemoveInvalidate, RemoveReturn, MarkDirty, CallbackThrow,
           RemoveSelf, vectors
  <1>3. OnlyOp(t) /\ op'[t].pc # "commit"
    <2>1. CASE RemoveSelf(t)
      BY <2>1 DEF RemoveSelf, InBody, Free, OnlyOp
    <2>2. CASE ~RemoveSelf(t)
      <3>1. PICK pc \in {"found", "removeMark", "wait", "free", "throwMark", "unwind"},
                 c \in Callbacks \cup {NoCallback} : Step(t, pc, c)
        <4>1. op[t].arg \in Callbacks \cup {NoCallback}
          BY <1>1 DEF TypeOK, Operation
        <4>2. MarkDirty(t) => \E pc \in {"wait", "free", "unwind"} : Step(t, pc, op[t].arg)
          BY DEF MarkDirty
        <4> QED
          BY <2>2, <4>1, <4>2 DEF Unregister, RemoveCallback, RemoveInvalidate, RemoveReturn,
                                  CallbackThrow
      <3> QED
        BY <1>1, <3>1, StepFacts DEF OnlyOp
    <2> QED
      BY <2>1, <2>2
  <1>4. Sorted(pre)' /\ Sorted(post)'
    BY <1>2, VectorsStaySorted
  <1> QED
    BY <1>2, <1>3, <1>4, OrderElsewhere

LEMMA LoopOrder ==
  ASSUME StateInv, VectorInv, OrderInv, ReadonlyStays, NEW t \in Threads, LoopStep(t)
  PROVE  OrderInv'
  <1>1. TypeOK
    BY DEF StateInv
  <1>2. /\ Free(t) /\ calls[t] # <<>> /\ Top(t) \in Invocation
        /\ UNCHANGED <<cb, vectors, bDirty, writer, op, history>>
    BY <1>1, LoopFacts
  <1>3. PICK f \in Invocation :
           SetTop(t, f) /\ f.current = Top(t).current /\ (NewPhase(f, Top(t)) \/ Kept(f, Top(t)))
    BY <1>1, LoopFacts
  <1>4. FrameSorted(Top(t)) /\ Elements(Top(t).snap) \subseteq Published
    BY <1>2, TopIsSorted
  <1>5. Elements(<<>>) = {} /\ Sorted(<<>>)
    BY EmptySeq DEF Elements, Sorted
  <1>6. FrameSorted(f) /\ Elements(f.snap) \subseteq Published
    <2>1. CASE NewPhase(f, Top(t))
      <3>1. f.snap \in {<<>>, post} /\ f.current = NoCallback
        BY <1>3, <1>4, <2>1 DEF NewPhase, FrameSorted
      <3> QED
        BY <1>5, <3>1 DEF FrameSorted, OrderInv, VectorInv, VectorsTyped, Of
    <2>2. CASE Kept(f, Top(t))
      BY <1>3, <1>4, <2>2 DEF Kept, FrameSorted
    <2> QED
      BY <1>3, <2>1, <2>2
  <1>7. OnlyOp(t) /\ op'[t].pc # "commit" /\ UNCHANGED <<pre, post>>
    BY <1>2 DEF OnlyOp, Free, vectors
  <1> HIDE DEF Invocation
  <1> QED
    BY <1>2, <1>3, <1>6, <1>7, OrderTop

LEMMA TryBeginOrder ==
  ASSUME StateInv, VectorInv, OrderInv, ReadonlyStays, NEW t \in Threads, TryBeginExecution(t)
  PROVE  OrderInv'
  <1>1. TypeOK
    BY DEF StateInv
  <1>2. Free(t) /\ calls[t] # <<>>
    BY <1>1, TryBeginFacts
  <1>3. PICK c \in Elements(Top(t).snap), f \in Invocation :
           /\ SetTop(t, f) /\ f.current = c /\ f.snap = Top(t).snap
           /\ f.at \in DOMAIN f.snap /\ f.snap[f.at] = c
           /\ f.phase # "original"
           /\ IF cb[c].once THEN Step(t, "onceMark", NoCallback) ELSE UNCHANGED op
    BY <1>1, TryBeginFacts
  <1>4. FrameSorted(f) /\ Elements(f.snap) \subseteq Published
    BY <1>2, <1>3, TopIsSorted DEF FrameSorted
  <1>5. OnlyOp(t) /\ op'[t].pc # "commit"
    <2>1. CASE cb[c].once
      BY <1>1, <1>3, <2>1, StepFacts DEF OnlyOp
    <2>2. CASE ~cb[c].once
      BY <1>2, <1>3, <2>2 DEF OnlyOp, Free
    <2> QED
      BY <2>1, <2>2
  <1>6. UNCHANGED <<pre, post>>
    BY DEF TryBeginExecution, vectors
  <1> HIDE DEF Invocation
  <1> QED
    BY <1>2, <1>3, <1>4, <1>5, <1>6, OrderTop

LEMMA EndOrder ==
  ASSUME StateInv, VectorInv, OrderInv, ReadonlyStays, NEW t \in Threads,
         CallbackReturn(t) \/ Unwind(t)
  PROVE  OrderInv'
  <1>1. calls[t] # <<>> /\ OnlyOp(t) /\ op'[t].pc # "commit"
    BY EndFacts DEF OnlyOp, Free
  <1>2. PICK f \in Invocation : SetTop(t, f) /\ f.current = NoCallback /\ f.snap = Top(t).snap
    BY EndFacts
  <1>3. FrameSorted(f) /\ Elements(f.snap) \subseteq Published
    BY <1>1, <1>2, TopIsSorted DEF FrameSorted
  <1>4. UNCHANGED <<pre, post>>
    BY DEF CallbackReturn, Unwind, vectors
  <1> HIDE DEF Invocation
  <1> QED
    BY <1>1, <1>2, <1>3, <1>4, OrderTop

\* Invoke and InvokeReturn: the invocations that stay are those that were.
LEMMA InvokeFacts ==
  ASSUME StateInv, NEW t \in Threads, Invoke(t) \/ InvokeReturn(t)
  PROVE  /\ Free(t) /\ UNCHANGED <<cb, vectors, bDirty, writer, op, history>>
         /\ \A u \in Threads : \A i \in DOMAIN calls'[u] :
               \/ i \in DOMAIN calls[u] /\ calls'[u][i] = calls[u][i]
               \/ /\ i \notin DOMAIN calls[u]
                  /\ calls'[u][i].snap = pre /\ calls'[u][i].phase = "pre"
                  /\ calls'[u][i].current = NoCallback
  <1> DEFINE n == Len(calls[t])
             r == SubSeq(calls[t], 1, n - 1)
             f == [phase |-> "pre", snap |-> pre, at |-> 1, current |-> NoCallback,
                   prevented |-> FALSE, setter |-> NoCallback]
  <1>1. TypeOK /\ calls \in [Threads -> Seq(Invocation)]
    BY DEF StateInv, TypeOK
  <1>2. n \in Nat /\ DOMAIN calls[t] = 1 .. n
    BY <1>1, LenProperties
  <1>3. CASE Invoke(t)
    <2>1. Free(t) /\ UNCHANGED <<cb, vectors, bDirty, writer, op, history>>
      BY <1>3 DEF Invoke, Outside, InBody, InOriginal
    <2>2. f \in Invocation /\ f.snap = pre /\ f.phase = "pre" /\ f.current = NoCallback
      BY <1>1 DEF TypeOK, Invocation
    <2>3. calls' = [calls EXCEPT ![t] = Append(calls[t], f)]
      BY <1>3 DEF Invoke
    <2> HIDE DEF f, n, Invocation
    <2>4. /\ DOMAIN Append(calls[t], f) = 1 .. n + 1
          /\ \A i \in 1 .. n : Append(calls[t], f)[i] = calls[t][i]
          /\ Append(calls[t], f)[n + 1] = f
      BY <1>1, <2>2, AppendProperties, LenProperties DEF n
    <2>5. /\ calls'[t] = Append(calls[t], f)
          /\ \A u \in Threads : u # t => calls'[u] = calls[u]
      BY <1>1, <2>3
    <2>6. ASSUME NEW i \in DOMAIN calls'[t]
          PROVE  \/ i \in DOMAIN calls[t] /\ calls'[t][i] = calls[t][i]
                 \/ i \notin DOMAIN calls[t] /\ calls'[t][i] = f
      <3>1. i \in 1 .. n \/ i = n + 1
        BY <1>2, <2>4, <2>5, <2>6
      <3> QED
        BY <1>2, <2>4, <2>5, <3>1
    <2> QED
      BY <2>1, <2>2, <2>5, <2>6
  <1>4. CASE InvokeReturn(t)
    <2>1. /\ Free(t) /\ calls[t] # <<>>
          /\ UNCHANGED <<cb, vectors, bDirty, writer, op, history>>
      BY <1>4 DEF InvokeReturn, AtCallback
    <2>2. calls' = [calls EXCEPT ![t] = r]
      BY <1>4 DEF InvokeReturn
    <2>3. n \in Nat \ {0}
      BY <1>1, <2>1, TopFacts
    <2> HIDE DEF f, n, Invocation
    <2>8. calls[t] \in Seq(Invocation)
      BY <1>1
    <2>4. /\ r \in Seq(Invocation) /\ Len(r) = n - 1
          /\ \A i \in 1 .. n - 1 : r[i] = calls[t][i]
      BY <2>3, <2>8, SubSeqProperties DEF n
    <2> HIDE DEF r
    <2>5. DOMAIN r = 1 .. n - 1
      BY <2>4, LenProperties
    <2>6. calls'[t] = r /\ \A u \in Threads : u # t => calls'[u] = calls[u]
      BY <1>1, <2>2
    <2>7. \A i \in DOMAIN calls'[t] : i \in DOMAIN calls[t] /\ calls'[t][i] = calls[t][i]
      BY <1>2, <2>3, <2>4, <2>5, <2>6
    <2> QED
      BY <2>1, <2>6, <2>7
  <1> QED
    BY <1>3, <1>4

LEMMA InvokeOrder ==
  ASSUME StateInv, VectorInv, OrderInv, ReadonlyStays, NEW t \in Threads,
         Invoke(t) \/ InvokeReturn(t)
  PROVE  OrderInv'
  <1>1. ASSUME NEW u \in Threads, NEW i \in DOMAIN calls'[u]
        PROVE  FrameSorted(calls'[u][i]) /\ Elements(calls'[u][i].snap) \subseteq Published
    <2>1. CASE i \in DOMAIN calls[u] /\ calls'[u][i] = calls[u][i]
      BY <2>1, FramesAreSorted
    <2>2. CASE calls'[u][i].snap = pre /\ calls'[u][i].phase = "pre"
               /\ calls'[u][i].current = NoCallback
      BY <2>2 DEF FrameSorted, OrderInv, VectorInv, VectorsTyped, Of
    <2> QED
      BY <1>1, <2>1, <2>2, InvokeFacts
  <1>2. OnlyOp(t) /\ op'[t].pc # "commit" /\ UNCHANGED <<pre, post>>
    BY InvokeFacts DEF OnlyOp, Free, vectors
  <1>3. Sorted(pre)' /\ Sorted(post)'
    BY <1>2, VectorsStaySorted
  <1> QED
    BY <1>1, <1>2, <1>3, OrderStep

LEMMA OrderInvNext == StateInv /\ VectorInv /\ OrderInv /\ [Next]_vars => OrderInv'
  <1> SUFFICES ASSUME StateInv, VectorInv, OrderInv, [Next]_vars PROVE OrderInv'
    OBVIOUS
  <1>1. ReadonlyStays
    BY OptionsAreFixed
  <1>2. ASSUME NEW t \in Threads, Register(t) \/ Unregister(t) PROVE OrderInv'
    BY <1>1, <1>2, AddCallbackOrder, OperationOrder DEF Register
  <1>3. ASSUME NEW t \in Threads, Invoke(t) PROVE OrderInv'
    BY <1>1, <1>3, InvokeOrder
  <1>4. ASSUME NEW t \in Threads, Advance(t) PROVE OrderInv'
    BY <1>1, <1>4, CommitCallbackOrder, OperationOrder, LoopOrder, TryBeginOrder, EndOrder,
       InvokeOrder DEF Advance, LoopStep
  <1>5. ASSUME NEW t \in Threads, CallbackEnds(t) \/ RemoveSelf(t) PROVE OrderInv'
    BY <1>1, <1>5, EndOrder, OperationOrder DEF CallbackEnds
  <1>6. ASSUME NEW t \in Threads,
               OriginalReturn(t) \/ TrySetReturnValue(t) \/ PreventOriginalFunctionCall(t)
        PROVE  OrderInv'
    BY <1>1, <1>6, LoopOrder DEF LoopStep
  <1>7. CASE Collect
    BY <1>1, <1>7, CollectOrder
  <1>8. CASE UNCHANGED vars
    BY <1>8 DEF vars, OrderInv, Sorted, FrameSorted
  <1> QED
    BY <1>2, <1>3, <1>4, <1>5, <1>6, <1>7, <1>8 DEF Next

\* In every reachable vector, draft and snapshot the readonly callbacks come last.
THEOREM OrderInvariant == Spec => []OrderInv
  <1> QED
    BY OrderInvInit, OrderInvNext, StateInvariant, VectorInvariant, PTL DEF Spec

\* The steps of one invocation, and what they do to its verdict.
LEMMA VerdictOfTop ==
  ASSUME StateInv, VectorInv, OrderInv, NEW t \in Threads, calls[t] # <<>>,
         NEW f \in Invocation, SetTop(t, f),
         \/ SameVerdict(f, Top(t))
         \/ Top(t).current # NoCallback /\ ~cb[Top(t).current].readonly,
         NEW u \in Threads, NEW i \in DOMAIN calls[u], i \in DOMAIN calls'[u],
         ReadonlyReached(calls[u][i])
  PROVE  SameVerdict(calls'[u][i], calls[u][i])
  <1>1. TypeOK
    BY DEF StateInv
  <1>2. CASE ~(u = t /\ i = Len(calls[t]))
    BY <1>1, <1>2, SetTopFacts DEF SameVerdict
  <1>3. CASE u = t /\ i = Len(calls[t])
    <2>1. calls'[u][i] = f /\ calls[u][i] = Top(t)
      BY <1>1, <1>3, SetTopFacts DEF Top
    <2>2. CASE Top(t).current # NoCallback /\ ~cb[Top(t).current].readonly
      <3>1. FrameSorted(Top(t))
        BY TopIsSorted
      <3>2. PICK k \in DOMAIN Top(t).snap :
               cb[Top(t).snap[k]].readonly /\ (k < Top(t).at \/ k = Top(t).at)
        BY <2>1 DEF ReadonlyReached
      <3>3. cb[Top(t).snap[Top(t).at]].readonly
        BY <2>2, <3>1, <3>2 DEF FrameSorted, Sorted
      <3> QED
        BY <2>2, <3>1, <3>3 DEF FrameSorted
    <2> QED
      BY <2>1, <2>2
  <1> QED
    BY <1>2, <1>3

\* A readonly callback of the phase was reached: only readonly ones follow.
LEMMA VerdictKept ==
  ASSUME StateInv, VectorInv, OrderInv, [Next]_vars,
         NEW u \in Threads, NEW i \in DOMAIN calls[u], i \in DOMAIN calls'[u],
         ReadonlyReached(calls[u][i])
  PROVE  SameVerdict(calls'[u][i], calls[u][i])
  <1>1. TypeOK
    BY DEF StateInv
  <1>2. ASSUME UNCHANGED calls PROVE SameVerdict(calls'[u][i], calls[u][i])
    BY <1>2 DEF SameVerdict
  <1>3. ASSUME NEW t \in Threads, LoopStep(t) PROVE SameVerdict(calls'[u][i], calls[u][i])
    <2>1. calls[t] # <<>>
      BY <1>1, <1>3, LoopFacts
    <2>2. PICK f \in Invocation : SetTop(t, f) /\ (NewPhase(f, Top(t)) \/ Kept(f, Top(t)))
      BY <1>1, <1>3, LoopFacts
    <2>3. \/ SameVerdict(f, Top(t))
          \/ Top(t).current # NoCallback /\ ~cb[Top(t).current].readonly
      BY <2>2 DEF NewPhase, Kept
    <2> HIDE DEF Invocation
    <2> QED
      BY <2>1, <2>2, <2>3, VerdictOfTop
  <1>4. ASSUME NEW t \in Threads, TryBeginExecution(t)
        PROVE  SameVerdict(calls'[u][i], calls[u][i])
    <2>1. calls[t] # <<>> /\ \E f \in Invocation : SetTop(t, f) /\ SameVerdict(f, Top(t))
      BY <1>1, <1>4, TryBeginFacts
    <2> HIDE DEF Invocation
    <2> QED
      BY <2>1, VerdictOfTop
  <1>5. ASSUME NEW t \in Threads, CallbackReturn(t) \/ Unwind(t)
        PROVE  SameVerdict(calls'[u][i], calls[u][i])
    <2>1. calls[t] # <<>> /\ \E f \in Invocation : SetTop(t, f) /\ SameVerdict(f, Top(t))
      BY <1>5, EndFacts
    <2> HIDE DEF Invocation
    <2> QED
      BY <2>1, VerdictOfTop
  <1>6. ASSUME NEW t \in Threads, Invoke(t) \/ InvokeReturn(t)
        PROVE  SameVerdict(calls'[u][i], calls[u][i])
    <2>1. calls'[u][i] = calls[u][i]
      BY <1>6, InvokeFacts
    <2> QED
      BY <2>1 DEF SameVerdict
  <1>7. ASSUME NEW t \in Threads,
               \/ Register(t) \/ Unregister(t) \/ CommitCallback(t) \/ RemoveInvalidate(t)
               \/ RemoveReturn(t) \/ MarkDirty(t) \/ CallbackThrow(t) \/ RemoveSelf(t)
        PROVE  UNCHANGED calls
    BY <1>7 DEF Register, AddCallback, Unregister, RemoveCallback, CommitCallback, RemoveInvalidate,
                RemoveReturn, MarkDirty, CallbackThrow, RemoveSelf
  <1>8. Collect \/ UNCHANGED vars => UNCHANGED calls
    BY DEF Collect, CollectGarbage, PrunePre, PrunePost, vars
  <1> QED
    BY <1>2, <1>3, <1>4, <1>5, <1>6, <1>7, <1>8 DEF Next, Advance, CallbackEnds, LoopStep

\* What a readonly callback sees is final for its phase.
THEOREM VerdictIsFinal == Spec => ReadonlySeesVerdict
  <1> DEFINE A == \A t \in Threads : \A i \in DOMAIN calls[t] \cap DOMAIN calls'[t] :
                calls'[t][i].phase = calls[t][i].phase /\ ReadonlyReached(calls[t][i]) =>
                    /\ calls'[t][i].setter = calls[t][i].setter
                    /\ calls'[t][i].prevented = calls[t][i].prevented
  <1>1. StateInv /\ VectorInv /\ OrderInv /\ [Next]_vars => [A]_vars
    BY VerdictKept DEF SameVerdict
  <1> QED
    BY <1>1, StateInvariant, VectorInvariant, OrderInvariant, PTL DEF Spec, ReadonlySeesVerdict
=============================================================================
