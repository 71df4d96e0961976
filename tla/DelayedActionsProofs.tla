------------------------ MODULE DelayedActionsProofs ------------------------
(* Theorems about DelayedActions for every value of its constants. *)
EXTENDS DelayedActions, FiniteSetTheorems, SequenceTheorems, TLAPS

-----------------------------------------------------------------------------
(* Lemmas about the operators.                                               *)

\* Erasing elements of a vector leaves a vector of the same elements' type:
\* what std::erase_if returns.
LEMMA KeptType ==
    ASSUME NEW S, NEW s \in Seq(S), NEW keep, NEW t \in Kept(s, keep)
    PROVE  t \in Seq(S)
<1> DEFINE places == {i \in DOMAIN s : s[i] \in keep}
<1>1. PICK f \in [1 .. Cardinality(places) -> places] : t = [k \in DOMAIN f |-> s[f[k]]]
  BY DEF Kept
<1>2. IsFiniteSet(1 .. Len(s)) /\ Len(s) \in Nat /\ DOMAIN s = 1 .. Len(s)
  BY FS_Interval, LenProperties
<1>3. IsFiniteSet(places)
  BY <1>2, FS_Subset
<1>4. Cardinality(places) \in Nat
  BY <1>3, FS_CardinalityType
<1>5. DOMAIN f = 1 .. Cardinality(places)
  OBVIOUS
<1>6. \A k \in 1 .. Cardinality(places) : s[f[k]] \in S
  BY <1>2, ElementOfSeq
<1>7. t \in [1 .. Cardinality(places) -> S]
  BY <1>1, <1>5, <1>6
<1>8. t \in UNION {[1 .. n -> S] : n \in Nat}
  BY <1>4, <1>7
<1> QED
  BY <1>8, SeqDef, Zenon

\* Replacing the innermost pass keeps the stack a sequence of passes.
LEMMA SetTopType ==
    ASSUME stack \in Seq(Frame), stack # <<>>, NEW f \in Frame, SetTop(f)
    PROVE  stack' \in Seq(Frame)
<1>1. Len(stack) \in 1 .. Len(stack)
  BY EmptySeq, LenProperties
<1> QED
  BY <1>1, ExceptSeq DEF SetTop

\* The innermost pass of a non-empty stack is a pass.
LEMMA TopType ==
    ASSUME stack \in Seq(Frame), stack # <<>>
    PROVE  Top \in Frame
<1>1. Len(stack) \in 1 .. Len(stack)
  BY EmptySeq, LenProperties
<1> QED
  BY <1>1, ElementOfSeq DEF Top

-----------------------------------------------------------------------------
(* Type correctness.                                                         *)

LEMMA InitTypeOK == Init => TypeOK
<1> SUFFICES ASSUME Init PROVE TypeOK
  OBVIOUS
<1>1. Blank \in ActionRecord
  BY ConstantsAssumption DEF Blank, ActionRecord, Statuses, Live
<1>2. <<>> \in Seq(Actions) /\ <<>> \in Seq(Frame)
  BY EmptySeq
<1>3. act \in [Actions -> ActionRecord] /\ started \in [Actions -> 0 .. 2]
  BY <1>1 DEF Init
<1>4. delayed \in Seq(Actions) /\ pending \in Seq(Actions) /\ stack \in Seq(Frame)
  BY <1>2 DEF Init
<1>5. processing \in BOOLEAN /\ executing \in BOOLEAN
  BY Zenon DEF Init
<1>6. nextHandle \in Nat \ {0} /\ calls \in Nat
  BY ConstantsAssumption DEF Init
<1>7. made \in SUBSET Nat /\ reading \in Nat /\ unloaded \in SUBSET Mods /\ dropped \in SUBSET Actions
  BY DEF Init
<1> QED
  BY <1>3, <1>4, <1>5, <1>6, <1>7, Zenon DEF TypeOK

\* Steps of the game thread that only move the innermost pass on.
LEMMA PassTypeOK ==
    ASSUME TypeOK,
           \/ SimpleCallbackBegin \/ SimpleCallbackEnd \/ CallbackReturn
           \/ NotifyCallbackBegin \/ NotifyCallbackEnd
    PROVE  TypeOK'
<1> USE DEF TypeOK, queues, history, handles
<1>1. stack # <<>> /\ Top \in Frame
  BY TopType DEF SimpleCallbackBegin, SimpleCallbackEnd, CallbackReturn,
                 NotifyCallbackBegin, NotifyCallbackEnd
<1>2. \A st \in Stages : [Top EXCEPT !.stage = st] \in Frame
  BY <1>1 DEF Frame
<1>3. [Top EXCEPT !.running = FALSE] \in Frame
  BY <1>1 DEF Frame
<1>4. \A f \in Frame : SetTop(f) => stack' \in Seq(Frame)
  BY <1>1, SetTopType
<1>5. stack' \in Seq(Frame)
  BY <1>2, <1>3, <1>4 DEF SimpleCallbackBegin, SimpleCallbackEnd, CallbackReturn,
                 NotifyCallbackBegin, NotifyCallbackEnd, Stages
<1> QED
  BY <1>5 DEF SimpleCallbackBegin, SimpleCallbackEnd, CallbackReturn,
              NotifyCallbackBegin, NotifyCallbackEnd

LEMMA HookTypeOK ==
    ASSUME TypeOK, HookExit \/ \E h \in Hooks : HookEnter(h)
    PROVE  TypeOK'
<1> USE DEF TypeOK, queues, history, handles
<1>1. ASSUME NEW h \in Hooks, HookEnter(h) PROVE TypeOK'
  <2>1. [hook |-> h, stage |-> "enter", ready |-> {}, ran |-> {}, running |-> FALSE] \in Frame
    BY ConstantsAssumption DEF Frame, Stages
  <2>2. stack' \in Seq(Frame)
    BY <1>1, <2>1, AppendProperties DEF HookEnter
  <2> QED
    BY <1>1, <2>2 DEF HookEnter
<1>2. ASSUME HookExit PROVE TypeOK'
  <2>1. Len(stack) \in Nat /\ \A i \in 1 .. Len(stack) - 1 : stack[i] \in Frame
    BY LenProperties, ElementOfSeq
  <2>2. stack' \in Seq(Frame)
    BY <1>2, <2>1, SubSeqProperties DEF HookExit
  <2>3. delayed' \in Seq(Actions) /\ pending' \in Seq(Actions)
    BY <1>2, ConcatProperties, EmptySeq DEF HookExit
  <2> QED
    BY <1>2, <2>2, <2>3 DEF HookExit
<1> QED
  BY <1>1, <1>2

\* Selecting an action and counting a frame down keep its record well formed.
LEMMA SelectedType ==
    ASSUME NEW x \in ActionRecord
    PROVE  /\ [x EXCEPT !.status = "Executing", !.left = 0] \in ActionRecord
           /\ x.left > 0 => [x EXCEPT !.left = @ - 1] \in ActionRecord
<1>1. x.left \in Nat /\ (x.left > 0 => x.left - 1 \in Nat)
  BY DEF ActionRecord
<1> QED
  BY <1>1 DEF ActionRecord, Statuses, Live

LEMMA SelectReadyTypeOK == ASSUME TypeOK, SelectReady PROVE TypeOK'
<1> USE DEF TypeOK, queues, history, handles
<1> DEFINE due == {a \in Actions : Examined(a) /\ Due(a) /\ ~executing}
           collected == {[index |-> i, ref |-> delayed[i]] :
                            i \in {j \in DOMAIN delayed : delayed[j] \in due}}
<1>1. Top \in Frame
  BY TopType DEF SelectReady
<1>2. collected \in SUBSET ReadyExec
  BY LenProperties DEF ReadyExec
<1>3. [Top EXCEPT !.stage = "delayed", !.ready = collected] \in Frame
  BY <1>1, <1>2 DEF Frame, Stages
<1>4. stack' \in Seq(Frame)
  BY <1>3, SetTopType DEF SelectReady
<1>5. \A a \in Actions : act[a] \in ActionRecord
  OBVIOUS
<1>6. act' \in [Actions -> ActionRecord]
  BY <1>5, SelectedType DEF SelectReady
<1> QED
  BY <1>4, <1>6 DEF SelectReady

LEMMA RunNextTypeOK == ASSUME TypeOK, RunNext PROVE TypeOK'
<1> USE DEF TypeOK, queues, history, handles
<1>1. Top \in Frame
  BY TopType DEF RunNext
<1>2. PICK r \in Top.ready \ Top.ran :
         /\ SetTop([Top EXCEPT !.ran = @ \cup {r}, !.running = TRUE])
         /\ started' = [started EXCEPT ![r.ref] = IF @ = 2 THEN 2 ELSE @ + 1]
  BY DEF RunNext
<1>3. r \in ReadyExec
  BY <1>1 DEF Frame
<1>4. [Top EXCEPT !.ran = @ \cup {r}, !.running = TRUE] \in Frame
  BY <1>1, <1>3 DEF Frame
<1>5. stack' \in Seq(Frame)
  BY <1>2, <1>4, SetTopType DEF RunNext
<1>6. started' \in [Actions -> 0 .. 2]
  BY <1>2, <1>3 DEF ReadyExec
<1> QED
  BY <1>5, <1>6 DEF RunNext

LEMMA SettledType == \A x \in ActionRecord : Settled(x) \in ActionRecord
  BY DEF Settled, ActionRecord, Statuses, Live

LEMMA FinishBatchTypeOK == ASSUME TypeOK, FinishBatch PROVE TypeOK'
<1> USE DEF TypeOK, queues, history, handles
<1>1. Top \in Frame
  BY TopType DEF FinishBatch
<1>2. [Top EXCEPT !.stage = "settled", !.ready = {}, !.ran = {}] \in Frame
  BY <1>1 DEF Frame, Stages
<1>3. stack' \in Seq(Frame)
  BY <1>2, SetTopType DEF FinishBatch
<1> DEFINE settled == [a \in Actions |-> IF a \in Found(Top) THEN Settled(act[a]) ELSE act[a]]
           erased == {a \in {delayed[i] : i \in DOMAIN delayed} :
                         settled[a].status = "PendingRemoval"}
<1>4. settled \in [Actions -> ActionRecord]
  BY SettledType
<1>5. \A x \in ActionRecord : [x EXCEPT !.status = "Gone"] \in ActionRecord
  BY DEF ActionRecord, Statuses
<1>6. act' = [a \in Actions |->
           IF a \in erased THEN [settled[a] EXCEPT !.status = "Gone"] ELSE settled[a]]
  BY DEF FinishBatch
<1>7. act' \in [Actions -> ActionRecord]
  <2> HIDE DEF settled, erased
  <2> QED BY <1>4, <1>5, <1>6
<1>8. delayed' \in Kept(delayed, Actions \ erased)
  BY DEF FinishBatch
<1>9. delayed' \in Seq(Actions)
  <2> HIDE DEF erased
  <2> QED BY <1>8, KeptType
<1> QED
  BY <1>3, <1>7, <1>9 DEF FinishBatch

\* What Enqueue stores is an action, and both vectors stay vectors of actions.
LEMMA EnqueueTypeOK ==
    ASSUME TypeOK, NEW a \in Actions, NEW x \in ActionRecord, Enqueue(a, x)
    PROVE  /\ act' \in [Actions -> ActionRecord]
           /\ delayed' \in Seq(Actions)
           /\ pending' \in Seq(Actions)
<1>1. Append(delayed, a) \in Seq(Actions) /\ Append(pending, a) \in Seq(Actions)
  BY AppendProperties DEF TypeOK
<1> QED
  BY <1>1 DEF TypeOK, Enqueue

LEMMA NewActionType ==
    ASSUME NEW m \in Mods, NEW h \in Nat, NEW d \in Delays, NEW loop \in BOOLEAN
    PROVE  /\ TimedAction(m, h, d, loop) \in ActionRecord
           /\ FrameAction(m, h, d, loop) \in ActionRecord
<1>1. d \in Nat /\ (d > 0) \in BOOLEAN
  BY ConstantsAssumption
<1>2. TimedAction(m, h, d, loop) \in ActionRecord
  BY <1>1, ConstantsAssumption DEF TimedAction, Blank, ActionRecord, Statuses, Live
<1> QED
  BY <1>1, <1>2 DEF FrameAction, ActionRecord

\* The calls that create actions.
LEMMA MakeTypeOK ==
    ASSUME TypeOK,
           UnlockedMakeWrite \/ \E m \in Mods : MakeActionHandle(m) \/ UnlockedMakeRead(m)
    PROVE  TypeOK'
<1>1. /\ nextHandle \in Nat \ {0} /\ made \in SUBSET Nat
      /\ reading \in Nat /\ calls \in Nat
  BY DEF TypeOK
<1>2. nextHandle' \in Nat \ {0} /\ made' \in SUBSET Nat
  <2>1. ASSUME NEW m \in Mods, MakeActionHandle(m)
        PROVE  nextHandle' = nextHandle + 1 /\ made' = made \cup {nextHandle}
    BY <2>1 DEF MakeActionHandle, TakeHandle
  <2>2. ASSUME NEW m \in Mods, UnlockedMakeRead(m)
        PROVE  nextHandle' = nextHandle /\ made' = made
    BY <2>2 DEF UnlockedMakeRead
  <2>3. ASSUME UnlockedMakeWrite
        PROVE  nextHandle' = reading + 1 /\ made' = made \cup {reading}
    BY <2>3 DEF UnlockedMakeWrite
  <2>4. \/ nextHandle' = nextHandle + 1 /\ made' = made \cup {nextHandle}
        \/ nextHandle' = nextHandle /\ made' = made
        \/ nextHandle' = reading + 1 /\ made' = made \cup {reading}
    BY <2>1, <2>2, <2>3
  <2>5. nextHandle' \in Nat \ {0}
    BY <1>1, <2>4
  <2>6. made' \subseteq Nat
    BY <1>1, <2>4
  <2> QED
    BY <2>5, <2>6
<1>3. reading' \in Nat
  BY <1>1 DEF MakeActionHandle, UnlockedMakeRead, UnlockedMakeWrite
<1>4. calls' \in Nat
  BY <1>1 DEF MakeActionHandle, ApiCall, UnlockedMakeRead, UnlockedMakeWrite
<1>5. UNCHANGED <<act, delayed, pending, stack, processing, executing, unloaded, started, dropped>>
  BY DEF MakeActionHandle, ApiCall, UnlockedMakeRead, UnlockedMakeWrite, queues, history
<1> QED
  BY <1>2, <1>3, <1>4, <1>5 DEF TypeOK

LEMMA CreateTypeOK ==
    ASSUME TypeOK, NEW m \in Mods, NEW d \in Delays,
           \/ \E loop \in BOOLEAN : CreateTimed(m, d, loop) \/ CreateFramed(m, d, loop)
           \/ \E h \in made : CreateWithHandle(m, h, d)
    PROVE  TypeOK'
<1>1. \E a \in Actions, x \in ActionRecord : Enqueue(a, x)
  <2>1. nextHandle \in Nat /\ made \subseteq Nat
    BY DEF TypeOK
  <2> QED
    BY <2>1, NewActionType DEF CreateTimed, CreateFramed, CreateWithHandle
<1>2. act' \in [Actions -> ActionRecord] /\ delayed' \in Seq(Actions) /\ pending' \in Seq(Actions)
  BY <1>1, EnqueueTypeOK
<1>3. nextHandle' = nextHandle \/ nextHandle' = nextHandle + 1
  BY DEF CreateTimed, CreateFramed, CreateWithHandle, TakeHandle, handles
<1>4. nextHandle' \in Nat \ {0}
  BY <1>3 DEF TypeOK
<1>5. ApiCall(m) /\ UNCHANGED <<made, reading, dropped>>
  BY DEF CreateTimed, CreateFramed, CreateWithHandle, handles
<1>6. calls' \in Nat
  BY <1>5 DEF ApiCall, TypeOK
<1> QED
  BY <1>2, <1>4, <1>5, <1>6 DEF TypeOK, ApiCall

\* The calls that control one action.
LEMMA ControlledType ==
    ASSUME NEW x \in ActionRecord, NEW d \in Nat
    PROVE  /\ [x EXCEPT !.rate = d, !.left = d, !.status = "Active"] \in ActionRecord
           /\ [x EXCEPT !.left = x.rate, !.status = "Active"] \in ActionRecord
           /\ [x EXCEPT !.rate = d, !.left = d, !.status = "Active",
                        !.frames = @ /\ d > 0] \in ActionRecord
           /\ \A st \in Statuses : [x EXCEPT !.status = st] \in ActionRecord
           /\ [x EXCEPT !.pauseAfter = TRUE] \in ActionRecord
<1>1. (x.frames /\ d > 0) \in BOOLEAN
  OBVIOUS
<1> QED
  BY <1>1 DEF ActionRecord, Statuses, Live

LEMMA ControlTypeOK ==
    ASSUME TypeOK, NEW m \in Mods, NEW a \in Actions,
           \/ ResetDelayedActionTimer(m, a)
           \/ \E d \in Delays : SetDelayedActionTimer(m, a, d)
           \/ PauseDelayedAction(m, a)
           \/ UnpauseDelayedAction(m, a)
           \/ CancelDelayedAction(m, a)
    PROVE  TypeOK'
<1>1. act[a] \in ActionRecord /\ act[a].rate \in Nat
  BY DEF TypeOK, ActionRecord
<1>2. Statuses = {"Active", "Paused", "Executing", "Free", "PendingRemoval", "Gone"}
  BY DEF Statuses, Live
<1>3. act' \in [Actions -> ActionRecord]
  <2>1. \A y \in ActionRecord : act' = [act EXCEPT ![a] = y] => act' \in [Actions -> ActionRecord]
    BY DEF TypeOK
  <2>2. CASE ResetDelayedActionTimer(m, a)
    <3>1. act' = [act EXCEPT ![a] = [act[a] EXCEPT !.left = act[a].rate, !.status = "Active"]]
      BY <2>2 DEF ResetDelayedActionTimer, TypeOK
    <3> QED
      BY <1>1, <2>1, <3>1, ControlledType
  <2>3. ASSUME NEW d \in Delays, SetDelayedActionTimer(m, a, d)
        PROVE  act' \in [Actions -> ActionRecord]
    <3>1. act' = [act EXCEPT ![a] = [act[a] EXCEPT !.rate = d, !.left = d, !.status = "Active",
                                                   !.frames = @ /\ d > 0]]
      BY <2>3 DEF SetDelayedActionTimer, TypeOK
    <3> QED
      BY <1>1, <2>1, <3>1, ControlledType, ConstantsAssumption
  <2>4. CASE PauseDelayedAction(m, a)
    <3>1. \/ act' = [act EXCEPT ![a] = [act[a] EXCEPT !.status = "Paused"]]
          \/ act' = [act EXCEPT ![a] = [act[a] EXCEPT !.pauseAfter = TRUE]]
      BY <2>4 DEF PauseDelayedAction, TypeOK
    <3> QED
      BY <1>1, <1>2, <2>1, <3>1, ControlledType
  <2>5. CASE UnpauseDelayedAction(m, a)
    <3>1. act' = [act EXCEPT ![a] = [act[a] EXCEPT !.status = "Active"]]
      BY <2>5 DEF UnpauseDelayedAction, TypeOK
    <3> QED
      BY <1>1, <1>2, <2>1, <3>1, ControlledType
  <2>6. CASE CancelDelayedAction(m, a)
    <3>1. act' = [act EXCEPT ![a] = [act[a] EXCEPT !.status = "PendingRemoval"]]
      BY <2>6 DEF CancelDelayedAction, TypeOK
    <3> QED
      BY <1>1, <1>2, <2>1, <3>1, ControlledType
  <2> QED
    BY <2>2, <2>3, <2>4, <2>5, <2>6
<1>4. ApiCall(m) /\ UNCHANGED <<delayed, pending, nextHandle, made, reading>>
  BY DEF ResetDelayedActionTimer, SetDelayedActionTimer, PauseDelayedAction,
         UnpauseDelayedAction, CancelDelayedAction, queues, handles
<1>5. dropped' \in SUBSET Actions
  BY DEF TypeOK, ResetDelayedActionTimer, SetDelayedActionTimer, PauseDelayedAction,
         UnpauseDelayedAction, CancelDelayedAction
<1>6. calls' \in Nat
  BY <1>4 DEF ApiCall, TypeOK
<1> QED
  BY <1>3, <1>4, <1>5, <1>6 DEF TypeOK, ApiCall

LEMMA RetriggerTypeOK ==
    ASSUME TypeOK, NEW m \in Mods, NEW h \in made, NEW d \in Delays, Retrigger(m, h, d)
    PROVE  TypeOK'
<1>1. h \in Nat /\ d \in Nat
  BY ConstantsAssumption DEF TypeOK
<1>2. act' \in [Actions -> ActionRecord] /\ delayed' \in Seq(Actions) /\ pending' \in Seq(Actions)
  <2>1. CASE WithHandle(h) # {}
    <3>1. PICK a \in WithHandle(h) :
             act' = [act EXCEPT ![a].rate = d, ![a].left = d, ![a].status = "Active"]
      BY <2>1 DEF Retrigger
    <3>2. a \in Actions /\ act[a] \in ActionRecord
      BY DEF WithHandle, TypeOK
    <3>3. [act[a] EXCEPT !.rate = d, !.left = d, !.status = "Active"] \in ActionRecord
      BY <1>1, <3>2, ControlledType
    <3>4. act' = [act EXCEPT ![a] = [act[a] EXCEPT !.rate = d, !.left = d, !.status = "Active"]]
      BY <3>1, <3>2 DEF TypeOK
    <3>5. act' \in [Actions -> ActionRecord]
      BY <3>2, <3>3, <3>4 DEF TypeOK
    <3> QED
      BY <2>1, <3>5 DEF Retrigger, queues, TypeOK
  <2>2. CASE WithHandle(h) = {}
    <3>1. \E a \in Actions, x \in ActionRecord : Enqueue(a, x)
      BY <1>1, <2>2, NewActionType DEF Retrigger
    <3> QED
      BY <3>1, EnqueueTypeOK
  <2> QED
    BY <2>1, <2>2
<1>3. ApiCall(m) /\ UNCHANGED <<nextHandle, made, reading, dropped>>
  BY DEF Retrigger, handles
<1>4. calls' \in Nat
  BY <1>3 DEF ApiCall, TypeOK
<1> QED
  BY <1>2, <1>3, <1>4 DEF TypeOK, ApiCall

\* The calls that remove every action of a mod, and the passing of time.
LEMMA MarkedType ==
    ASSUME TypeOK, NEW marked, NEW st \in Statuses
    PROVE  [a \in Actions |-> IF a \in marked THEN [act[a] EXCEPT !.status = st] ELSE act[a]]
              \in [Actions -> ActionRecord]
<1>1. \A a \in Actions : act[a] \in ActionRecord
  BY DEF TypeOK
<1>2. \A x \in ActionRecord : [x EXCEPT !.status = st] \in ActionRecord
  BY DEF ActionRecord
<1> QED
  BY <1>1, <1>2

LEMMA ClearTypeOK ==
    ASSUME TypeOK, NEW m \in Mods, ClearAllDelayedActions(m) \/ Uninstall(m)
    PROVE  TypeOK'
<1>1. "PendingRemoval" \in Statuses /\ "Gone" \in Statuses
  BY DEF Statuses
<1>2. CASE ClearAllDelayedActions(m)
  <2> DEFINE mine == {a \in Actions : Own(m, a)}
  <2>1. act' \in [Actions -> ActionRecord]
    <3>1. act' = [a \in Actions |->
             IF a \in mine THEN [act[a] EXCEPT !.status = "PendingRemoval"] ELSE act[a]]
      BY <1>2 DEF ClearAllDelayedActions
    <3> HIDE DEF mine
    <3> QED
      BY <1>1, <3>1, MarkedType
  <2>2. dropped' \in SUBSET Actions /\ calls' \in Nat
    BY <1>2 DEF ClearAllDelayedActions, ApiCall, TypeOK
  <2> QED
    BY <1>2, <2>1, <2>2 DEF ClearAllDelayedActions, ApiCall, TypeOK, queues, handles
<1>3. CASE Uninstall(m)
  <2> DEFINE mine == {a \in Actions : act[a].owner = m /\ act[a].status # "Gone"}
  <2>1. act' \in [Actions -> ActionRecord]
    <3>1. act' = [a \in Actions |->
             IF a \in mine THEN [act[a] EXCEPT !.status = "Gone"] ELSE act[a]]
      BY <1>3 DEF Uninstall
    <3> HIDE DEF mine
    <3> QED
      BY <1>1, <3>1, MarkedType
  <2>2. delayed' \in Seq(Actions) /\ pending' \in Seq(Actions)
    BY <1>3, KeptType DEF Uninstall, TypeOK
  <2>3. dropped' \in SUBSET Actions /\ unloaded' \in SUBSET Mods
    BY <1>3 DEF Uninstall, TypeOK
  <2> QED
    BY <1>3, <2>1, <2>2, <2>3 DEF Uninstall, TypeOK, handles
<1> QED
  BY <1>2, <1>3

LEMMA ClockTypeOK == ASSUME TypeOK, Clock PROVE TypeOK'
<1> USE DEF TypeOK
<1>1. \A a \in Actions : act[a] \in ActionRecord
  OBVIOUS
<1>2. act' \in [Actions -> ActionRecord]
  BY <1>1, SelectedType DEF Clock
<1> QED
  BY <1>2 DEF Clock, queues, history, handles

\* Every state of the scheduler is well typed, for every set of mods, actions,
\* hooks and delays.
THEOREM TypeCorrect == Spec => []TypeOK
<1>1. TypeOK /\ [Next]_vars => TypeOK'
  <2> SUFFICES ASSUME TypeOK, [Next]_vars PROVE TypeOK'
    OBVIOUS
  <2>1. CASE GameThread
    BY <2>1, PassTypeOK, HookTypeOK, SelectReadyTypeOK, RunNextTypeOK, FinishBatchTypeOK,
       MakeTypeOK DEF GameThread
  <2>2. CASE Api
    BY <2>2, MakeTypeOK, CreateTypeOK, ControlTypeOK, RetriggerTypeOK, ClearTypeOK DEF Api
  <2>3. CASE Clock
    BY <2>3, ClockTypeOK
  <2>4. CASE UNCHANGED vars
    BY <2>4 DEF vars, TypeOK
  <2> QED
    BY <2>1, <2>2, <2>3, <2>4 DEF Next
<1> QED
  BY <1>1, InitTypeOK, PTL DEF Spec

-----------------------------------------------------------------------------
(* What the steps do to the actions and to the vectors.                      *)

\* The step may re-arm, pause or mark live actions and let a loop pause after
\* its callback; it changes nothing else.
Controlled ==
    /\ UNCHANGED <<delayed, pending, stack, processing, started, nextHandle, made, reading>>
    /\ dropped \subseteq dropped'
    /\ \A a \in Actions :
          /\ act'[a].handle = act[a].handle
          /\ act'[a].looping = act[a].looping
          /\ act'[a].pauseAfter => act[a].pauseAfter \/ act[a].looping
          /\ \/ act'[a].status = act[a].status
             \/ act[a].status \in Live /\ act'[a].status \in {"Active", "Paused"}
             \/ /\ act[a].status \in Live /\ act'[a].status = "PendingRemoval"
                /\ a \in dropped'

\* The calls that find live actions of the mod, or the one with the handle,
\* only control them.
LEMMA CallsControl ==
    ASSUME TypeOK, NEW m \in Mods,
           \/ \E a \in Actions :
                 \/ ResetDelayedActionTimer(m, a)
                 \/ \E d \in Delays : SetDelayedActionTimer(m, a, d)
                 \/ PauseDelayedAction(m, a)
                 \/ UnpauseDelayedAction(m, a)
                 \/ CancelDelayedAction(m, a)
           \/ \E h \in made, d \in Delays : Retrigger(m, h, d) /\ WithHandle(h) # {}
           \/ ClearAllDelayedActions(m)
    PROVE  Controlled
<1>1. \A a \in Actions : act[a] \in ActionRecord
  BY DEF TypeOK
<1>2. /\ UNCHANGED <<delayed, pending, stack, processing, started, nextHandle, made, reading>>
      /\ dropped \subseteq dropped'
  BY DEF ResetDelayedActionTimer, SetDelayedActionTimer, PauseDelayedAction,
         UnpauseDelayedAction, CancelDelayedAction, Retrigger, ClearAllDelayedActions,
         ApiCall, queues, handles
<1>3. ASSUME NEW a \in Actions, act[a].status \in Live, NEW y,
             act' = [act EXCEPT ![a] = y],
             y.handle = act[a].handle, y.looping = act[a].looping,
             y.pauseAfter => act[a].pauseAfter \/ act[a].looping,
             \/ y.status = act[a].status
             \/ y.status \in {"Active", "Paused"}
             \/ y.status = "PendingRemoval" /\ a \in dropped'
      PROVE  Controlled
  <2>1. act'[a] = y /\ \A b \in Actions : b # a => act'[b] = act[b]
    BY <1>3 DEF TypeOK
  <2> QED
    BY <1>2, <1>3, <2>1 DEF Controlled
<1>4. ASSUME NEW a \in Actions, ResetDelayedActionTimer(m, a)
      PROVE  Controlled
  <2> DEFINE y == [act[a] EXCEPT !.left = act[a].rate, !.status = "Active"]
  <2>1. act' = [act EXCEPT ![a] = y] /\ act[a].status \in Live
    BY <1>4 DEF ResetDelayedActionTimer, Own, TypeOK
  <2>2. /\ y.status = "Active" /\ y.handle = act[a].handle
        /\ y.looping = act[a].looping /\ y.pauseAfter = act[a].pauseAfter
    BY <1>1 DEF ActionRecord
  <2> HIDE DEF y
  <2> QED
    BY <1>3, <2>1, <2>2
<1>5. ASSUME NEW a \in Actions, NEW d \in Delays, SetDelayedActionTimer(m, a, d)
      PROVE  Controlled
  <2> DEFINE y == [act[a] EXCEPT !.rate = d, !.left = d, !.status = "Active",
                                 !.frames = @ /\ d > 0]
  <2>1. act' = [act EXCEPT ![a] = y] /\ act[a].status \in Live
    BY <1>5 DEF SetDelayedActionTimer, Own, TypeOK
  <2>2. /\ y.status = "Active" /\ y.handle = act[a].handle
        /\ y.looping = act[a].looping /\ y.pauseAfter = act[a].pauseAfter
    BY <1>1 DEF ActionRecord
  <2> HIDE DEF y
  <2> QED
    BY <1>3, <2>1, <2>2
<1>6. ASSUME NEW h \in made, NEW d \in Delays, Retrigger(m, h, d), WithHandle(h) # {}
      PROVE  Controlled
  <2>1. PICK a \in WithHandle(h) :
           act' = [act EXCEPT ![a].rate = d, ![a].left = d, ![a].status = "Active"]
    BY <1>6 DEF Retrigger
  <2> DEFINE y == [act[a] EXCEPT !.rate = d, !.left = d, !.status = "Active"]
  <2>2. a \in Actions /\ act[a].status \in Live
    BY DEF WithHandle
  <2>3. act' = [act EXCEPT ![a] = y]
    BY <2>1, <2>2 DEF TypeOK
  <2>4. /\ y.status = "Active" /\ y.handle = act[a].handle
        /\ y.looping = act[a].looping /\ y.pauseAfter = act[a].pauseAfter
    BY <1>1, <2>2 DEF ActionRecord
  <2> HIDE DEF y
  <2> QED
    BY <1>3, <2>2, <2>3, <2>4
<1>7. ASSUME NEW a \in Actions, act[a].status \in Live,
             NEW st \in {"Active", "Paused", "PendingRemoval"},
             act' = [act EXCEPT ![a].status = st], st = "PendingRemoval" => a \in dropped'
      PROVE  Controlled
  <2> DEFINE y == [act[a] EXCEPT !.status = st]
  <2>1. act' = [act EXCEPT ![a] = y]
    BY <1>7 DEF TypeOK
  <2>2. /\ y.status = st /\ y.handle = act[a].handle
        /\ y.looping = act[a].looping /\ y.pauseAfter = act[a].pauseAfter
    BY <1>1 DEF ActionRecord
  <2> HIDE DEF y
  <2> QED
    BY <1>3, <1>7, <2>1, <2>2
<1>8. ASSUME NEW a \in Actions, PauseDelayedAction(m, a)
      PROVE  Controlled
  <2>1. CASE act[a].status = "Active" /\ act' = [act EXCEPT ![a].status = "Paused"]
    BY <1>7, <2>1 DEF Live
  <2>2. CASE /\ act[a].status = "Executing" /\ act[a].looping
             /\ act' = [act EXCEPT ![a].pauseAfter = TRUE]
    <3> DEFINE y == [act[a] EXCEPT !.pauseAfter = TRUE]
    <3>1. act' = [act EXCEPT ![a] = y]
      BY <2>2 DEF TypeOK
    <3>2. /\ y.status = act[a].status /\ y.handle = act[a].handle
          /\ y.looping = act[a].looping
      BY <1>1 DEF ActionRecord
    <3> HIDE DEF y
    <3> QED
      BY <1>3, <2>2, <3>1, <3>2 DEF Live
  <2> QED
    BY <1>8, <2>1, <2>2 DEF PauseDelayedAction
<1>9. ASSUME NEW a \in Actions, UnpauseDelayedAction(m, a) \/ CancelDelayedAction(m, a)
      PROVE  Controlled
  <2>1. CASE UnpauseDelayedAction(m, a)
    BY <1>7, <2>1 DEF UnpauseDelayedAction, Live
  <2>2. CASE CancelDelayedAction(m, a)
    BY <1>7, <2>2 DEF CancelDelayedAction, Own
  <2> QED
    BY <1>9, <2>1, <2>2
<1>10. CASE ClearAllDelayedActions(m)
  <2>1. \A a \in Actions :
           \/ act'[a] = act[a]
           \/ /\ act[a].status \in Live /\ a \in dropped'
              /\ act'[a] = [act[a] EXCEPT !.status = "PendingRemoval"]
    BY <1>10 DEF ClearAllDelayedActions, Own
  <2>2. \A x \in ActionRecord :
           /\ [x EXCEPT !.status = "PendingRemoval"].status = "PendingRemoval"
           /\ [x EXCEPT !.status = "PendingRemoval"].handle = x.handle
           /\ [x EXCEPT !.status = "PendingRemoval"].looping = x.looping
           /\ [x EXCEPT !.status = "PendingRemoval"].pauseAfter = x.pauseAfter
    BY DEF ActionRecord
  <2>3. ASSUME NEW a \in Actions
        PROVE  /\ act'[a].handle = act[a].handle
               /\ act'[a].looping = act[a].looping
               /\ act'[a].pauseAfter => act[a].pauseAfter
               /\ \/ act'[a].status = act[a].status
                  \/ /\ act[a].status \in Live /\ act'[a].status = "PendingRemoval"
                     /\ a \in dropped'
    BY <1>1, <2>1, <2>2
  <2> QED
    BY <1>2, <2>3 DEF Controlled
<1> QED
  BY <1>4, <1>5, <1>6, <1>8, <1>9, <1>10

\* The call creates an action; x are its fields.
Created(a, x) ==
    /\ Enqueue(a, x)
    /\ x.status = "Active" /\ ~x.pauseAfter
    /\ UNCHANGED <<stack, processing, started, dropped, made, reading>>
    /\ \/ x.handle = nextHandle /\ nextHandle' = nextHandle + 1
       \/ x.handle \in made /\ WithHandle(x.handle) = {} /\ UNCHANGED nextHandle

\* The calls that create an action take a new handle for it, or one that no
\* live action has.
LEMMA CallsCreate ==
    ASSUME TypeOK, NEW m \in Mods,
           \/ \E d \in Delays, loop \in BOOLEAN : CreateTimed(m, d, loop) \/ CreateFramed(m, d, loop)
           \/ \E h \in made, d \in Delays : CreateWithHandle(m, h, d)
           \/ \E h \in made, d \in Delays : Retrigger(m, h, d) /\ WithHandle(h) = {}
    PROVE  \E a \in Actions, x \in ActionRecord : Created(a, x)
<1>1. nextHandle \in Nat /\ made \subseteq Nat
  BY DEF TypeOK
<1>2. ApiCall(m) => UNCHANGED <<stack, processing, started>>
  BY DEF ApiCall
<1>3. \A h \in Nat, d \in Delays, loop \in BOOLEAN :
         /\ TimedAction(m, h, d, loop) \in ActionRecord
         /\ TimedAction(m, h, d, loop).status = "Active"
         /\ ~TimedAction(m, h, d, loop).pauseAfter
         /\ TimedAction(m, h, d, loop).handle = h
         /\ FrameAction(m, h, d, loop) \in ActionRecord
         /\ FrameAction(m, h, d, loop).status = "Active"
         /\ ~FrameAction(m, h, d, loop).pauseAfter
         /\ FrameAction(m, h, d, loop).handle = h
  <2>1. \A h \in Nat, d \in Delays, loop \in BOOLEAN :
           TimedAction(m, h, d, loop) \in ActionRecord /\ FrameAction(m, h, d, loop) \in ActionRecord
    BY NewActionType
  <2>2. \A h \in Nat, d \in Delays, loop \in BOOLEAN :
           /\ TimedAction(m, h, d, loop).status = "Active"
           /\ ~TimedAction(m, h, d, loop).pauseAfter
           /\ TimedAction(m, h, d, loop).handle = h
           /\ FrameAction(m, h, d, loop).status = "Active"
           /\ ~FrameAction(m, h, d, loop).pauseAfter
           /\ FrameAction(m, h, d, loop).handle = h
    BY DEF TimedAction, FrameAction, Blank
  <2> QED
    BY <2>1, <2>2
<1>4. ASSUME NEW d \in Delays, NEW loop \in BOOLEAN,
             CreateTimed(m, d, loop) \/ CreateFramed(m, d, loop)
      PROVE  \E a \in Actions, x \in ActionRecord : Created(a, x)
  <2>1. \E a \in Actions :
           \/ Enqueue(a, TimedAction(m, nextHandle, d, loop))
           \/ Enqueue(a, FrameAction(m, nextHandle, d, loop))
    BY <1>4 DEF CreateTimed, CreateFramed
  <2>2. nextHandle' = nextHandle + 1 /\ UNCHANGED <<made, reading, dropped>> /\ ApiCall(m)
    BY <1>4 DEF CreateTimed, CreateFramed, TakeHandle
  <2> QED
    BY <1>1, <1>2, <1>3, <2>1, <2>2 DEF Created
<1>5. ASSUME NEW h \in made, NEW d \in Delays,
             CreateWithHandle(m, h, d) \/ (Retrigger(m, h, d) /\ WithHandle(h) = {})
      PROVE  \E a \in Actions, x \in ActionRecord : Created(a, x)
  <2>1. \E a \in Actions : Enqueue(a, TimedAction(m, h, d, FALSE))
    BY <1>5 DEF CreateWithHandle, Retrigger
  <2>2. UNCHANGED <<made, reading, nextHandle, dropped>> /\ WithHandle(h) = {} /\ ApiCall(m)
    BY <1>5 DEF CreateWithHandle, Retrigger, handles
  <2> DEFINE x == TimedAction(m, h, d, FALSE)
  <2>3. x \in ActionRecord /\ x.status = "Active" /\ ~x.pauseAfter /\ x.handle = h
    BY <1>1, <1>3
  <2> HIDE DEF x
  <2> QED
    BY <1>2, <2>1, <2>2, <2>3 DEF Created, x
<1> QED
  BY <1>4, <1>5

\* No element occurs twice.
Distinct(s) == \A i, j \in DOMAIN s : s[i] = s[j] => i = j

\* An erasure keeps the elements that belong to keep, once each.
LEMMA KeptElements ==
    ASSUME NEW S, NEW s \in Seq(S), NEW keep, NEW t \in Kept(s, keep)
    PROVE  /\ \A k \in DOMAIN t : t[k] \in keep /\ \E i \in DOMAIN s : t[k] = s[i]
           /\ \A i \in DOMAIN s : s[i] \in keep => \E k \in DOMAIN t : t[k] = s[i]
           /\ Distinct(s) => Distinct(t)
           /\ s = <<>> => t = <<>>
<1> DEFINE places == {i \in DOMAIN s : s[i] \in keep}
<1>1. PICK f \in [1 .. Cardinality(places) -> places] :
         /\ t = [k \in DOMAIN f |-> s[f[k]]]
         /\ \A j, k \in DOMAIN f : j < k => f[j] < f[k]
         /\ \A i \in places : \E k \in DOMAIN f : f[k] = i
  BY DEF Kept
<1>2. Len(s) \in Nat /\ DOMAIN s = 1 .. Len(s)
  BY LenProperties
<1>3. DOMAIN f \subseteq Int /\ \A k \in DOMAIN f : f[k] \in Int /\ f[k] \in places
  BY <1>2
<1>4. \A j, k \in DOMAIN f : f[j] = f[k] => j = k
  BY <1>1, <1>3
<1>5. Distinct(s) => Distinct(t)
  BY <1>1, <1>3, <1>4 DEF Distinct
<1>6. \A k \in DOMAIN t : t[k] \in keep /\ \E i \in DOMAIN s : t[k] = s[i]
  BY <1>1
<1>7. \A i \in DOMAIN s : s[i] \in keep => \E k \in DOMAIN t : t[k] = s[i]
  BY <1>1
<1>8. ASSUME s = <<>>
      PROVE  t = <<>>
  <2>1. places = {}
    BY <1>2, <1>8, EmptySeq
  <2>2. t \in Seq(S)
    BY KeptType
  <2>3. DOMAIN t = {}
    BY <1>1, <2>1
  <2> QED
    BY <2>2, <2>3, EmptySeq, LenProperties
<1> QED
  BY <1>5, <1>6, <1>7, <1>8

\* The elements of a concatenation are those of its parts, at their places.
LEMMA ConcatElements ==
    ASSUME NEW S, NEW s \in Seq(S), NEW t \in Seq(S)
    PROVE  /\ s \o t \in Seq(S)
           /\ \A i \in DOMAIN (s \o t) :
                 \/ i \in DOMAIN s /\ (s \o t)[i] = s[i]
                 \/ i - Len(s) \in DOMAIN t /\ (s \o t)[i] = t[i - Len(s)] /\ i \in Nat
           /\ \A i \in DOMAIN s : i \in DOMAIN (s \o t) /\ (s \o t)[i] = s[i]
           /\ \A j \in DOMAIN t : j + Len(s) \in DOMAIN (s \o t) /\ (s \o t)[j + Len(s)] = t[j]
           /\ Len(s) \in Nat
<1>1. /\ Len(s) \in Nat /\ Len(t) \in Nat
      /\ DOMAIN s = 1 .. Len(s) /\ DOMAIN t = 1 .. Len(t)
      /\ s \o t \in Seq(S)
  BY LenProperties, ConcatProperties
<1>2. DOMAIN (s \o t) = 1 .. Len(s) + Len(t)
  BY <1>1, ConcatProperties, LenProperties
<1>3. \A i \in 1 .. Len(s) + Len(t) :
         (s \o t)[i] = IF i <= Len(s) THEN s[i] ELSE t[i - Len(s)]
  BY ConcatProperties
<1>4. ASSUME NEW i \in DOMAIN (s \o t)
      PROVE  \/ i \in DOMAIN s /\ (s \o t)[i] = s[i]
             \/ i - Len(s) \in DOMAIN t /\ (s \o t)[i] = t[i - Len(s)] /\ i \in Nat
  <2>1. CASE i <= Len(s)
    BY <1>1, <1>2, <1>3, <2>1
  <2>2. CASE i > Len(s)
    BY <1>1, <1>2, <1>3, <2>2
  <2> QED
    BY <1>1, <1>2, <2>1, <2>2
<1>5. ASSUME NEW i \in DOMAIN s
      PROVE  i \in DOMAIN (s \o t) /\ (s \o t)[i] = s[i]
  BY <1>1, <1>2, <1>3
<1>6. ASSUME NEW j \in DOMAIN t
      PROVE  j + Len(s) \in DOMAIN (s \o t) /\ (s \o t)[j + Len(s)] = t[j]
  <2>1. j + Len(s) \in 1 .. Len(s) + Len(t) /\ ~(j + Len(s) <= Len(s)) /\ j + Len(s) - Len(s) = j
    BY <1>1
  <2> QED
    BY <1>2, <1>3, <2>1
<1> QED
  BY <1>1, <1>4, <1>5, <1>6

Elements(s) == {s[i] : i \in DOMAIN s}

LEMMA ConcatMembers ==
    ASSUME NEW S, NEW s \in Seq(S), NEW t \in Seq(S)
    PROVE  Elements(s \o t) = Elements(s) \cup Elements(t)
<1>1. /\ s \o t \in Seq(S)
      /\ \A i \in DOMAIN (s \o t) :
            \/ i \in DOMAIN s /\ (s \o t)[i] = s[i]
            \/ i - Len(s) \in DOMAIN t /\ (s \o t)[i] = t[i - Len(s)] /\ i \in Nat
      /\ \A i \in DOMAIN s : i \in DOMAIN (s \o t) /\ (s \o t)[i] = s[i]
      /\ \A j \in DOMAIN t : j + Len(s) \in DOMAIN (s \o t) /\ (s \o t)[j + Len(s)] = t[j]
  BY ConcatElements
<1> DEFINE u == s \o t
<1>2. ASSUME NEW x \in Elements(u)
      PROVE  x \in Elements(s) \cup Elements(t)
  <2>1. PICK i \in DOMAIN u : x = u[i]
    BY DEF Elements
  <2> QED
    BY <1>1, <2>1 DEF Elements
<1>3. ASSUME NEW i \in DOMAIN s
      PROVE  s[i] \in Elements(u)
  <2>1. i \in DOMAIN u /\ u[i] = s[i]
    BY <1>1
  <2> HIDE DEF u
  <2> QED
    BY <2>1 DEF Elements
<1>4. ASSUME NEW j \in DOMAIN t
      PROVE  t[j] \in Elements(u)
  <2>1. j + Len(s) \in DOMAIN u /\ u[j + Len(s)] = t[j]
    BY <1>1
  <2> HIDE DEF u
  <2> QED
    BY <2>1 DEF Elements
<1> HIDE DEF u
<1>5. \A x \in Elements(s) \cup Elements(t) : x \in Elements(u)
  BY <1>3, <1>4 DEF Elements
<1>6. Elements(u) = Elements(s) \cup Elements(t)
  BY <1>2, <1>5
<1> QED
  BY <1>6 DEF u

\* Concatenating vectors that share no element repeats none.
LEMMA ConcatDistinct ==
    ASSUME NEW S, NEW s \in Seq(S), NEW t \in Seq(S), Distinct(s), Distinct(t),
           \A i \in DOMAIN s, j \in DOMAIN t : s[i] # t[j]
    PROVE  Distinct(s \o t)
<1>1. SUFFICES ASSUME NEW i \in DOMAIN (s \o t), NEW j \in DOMAIN (s \o t),
                      (s \o t)[i] = (s \o t)[j]
               PROVE  i = j
  BY DEF Distinct
<1>2. \/ i \in DOMAIN s /\ (s \o t)[i] = s[i]
      \/ i - Len(s) \in DOMAIN t /\ (s \o t)[i] = t[i - Len(s)] /\ i \in Nat
  BY ConcatElements
<1>3. \/ j \in DOMAIN s /\ (s \o t)[j] = s[j]
      \/ j - Len(s) \in DOMAIN t /\ (s \o t)[j] = t[j - Len(s)] /\ j \in Nat
  BY ConcatElements
<1>4. CASE i \in DOMAIN s /\ j \in DOMAIN s
  BY <1>1, <1>4, ConcatElements DEF Distinct
<1>5. CASE i - Len(s) \in DOMAIN t /\ j - Len(s) \in DOMAIN t /\ i \in Nat /\ j \in Nat
           /\ (s \o t)[i] = t[i - Len(s)] /\ (s \o t)[j] = t[j - Len(s)]
  <2>1. i - Len(s) = j - Len(s) /\ Len(s) \in Nat
    BY <1>1, <1>5, LenProperties DEF Distinct
  <2> QED
    BY <1>5, <2>1
<1> QED
  BY <1>1, <1>2, <1>3, <1>4, <1>5

-----------------------------------------------------------------------------
(* The two vectors hold every live action once.                              *)

\* The action was created and its reference has not been given back.
Alive(a) == act[a].status \notin {"Free", "Gone"}

Queued(a) ==
    \/ \E i \in DOMAIN delayed : delayed[i] = a
    \/ \E j \in DOMAIN pending : pending[j] = a

QueueInv ==
    /\ Distinct(delayed)
    /\ Distinct(pending)
    /\ \A i \in DOMAIN delayed, j \in DOMAIN pending : delayed[i] # pending[j]
    /\ \A i \in DOMAIN delayed : Alive(delayed[i])
    /\ \A j \in DOMAIN pending : Alive(pending[j])
    /\ \A a \in Actions : Alive(a) => Queued(a)
    /\ PendingIsDrained

LEMMA QueueTypes ==
    ASSUME TypeOK
    PROVE  /\ \A i \in DOMAIN delayed : delayed[i] \in Actions
           /\ \A j \in DOMAIN pending : pending[j] \in Actions
  BY LenProperties, ElementOfSeq DEF TypeOK

LEMMA QueueInvHolds ==
    ASSUME TypeOK, QueueInv
    PROVE  QueuesHoldLiveActions
<1> DEFINE both == delayed \o pending
<1>1. delayed \in Seq(Actions) /\ pending \in Seq(Actions)
  BY DEF TypeOK
<1>2. Distinct(both)
  BY <1>1, ConcatDistinct DEF QueueInv
<1>2a. /\ \A i \in DOMAIN both : \/ \E j \in DOMAIN delayed : both[i] = delayed[j]
                                 \/ \E j \in DOMAIN pending : both[i] = pending[j]
       /\ \A j \in DOMAIN delayed : \E i \in DOMAIN both : both[i] = delayed[j]
       /\ \A j \in DOMAIN pending : \E i \in DOMAIN both : both[i] = pending[j]
  <2>1. Elements(both) = Elements(delayed) \cup Elements(pending)
    BY <1>1, ConcatMembers
  <2> HIDE DEF both
  <2> QED
    BY <2>1 DEF Elements
<1> HIDE DEF both
<1>3. \A i \in DOMAIN both : both[i] \in Actions /\ Alive(both[i])
  BY <1>2a, QueueTypes DEF QueueInv
<1>4. \A a \in Actions : Alive(a) => \E i \in DOMAIN both : both[i] = a
  BY <1>2a DEF QueueInv, Queued
<1>5. {both[i] : i \in DOMAIN both} = {a \in Actions : act[a].status \notin {"Free", "Gone"}}
  BY <1>3, <1>4 DEF Alive
<1>6. \A i, j \in DOMAIN both : both[i] = both[j] => i = j
  BY <1>2 DEF Distinct
<1> QED
  BY <1>5, <1>6 DEF QueuesHoldLiveActions, both

\* A step that moves nothing between the vectors and creates and erases
\* nothing.
LEMMA QueuesKept ==
    ASSUME TypeOK, QueueInv, UNCHANGED <<delayed, pending>>,
           \A a \in Actions : act[a].status \in {"Free", "Gone"} <=> act'[a].status \in {"Free", "Gone"},
           PendingIsDrained'
    PROVE  QueueInv'
<1>1. Distinct(delayed)' /\ Distinct(pending)'
  BY DEF QueueInv, Distinct
<1>2. /\ \A i \in DOMAIN delayed' : Alive(delayed[i])'
      /\ \A j \in DOMAIN pending' : Alive(pending[j])'
  BY QueueTypes DEF QueueInv, Alive
<1>3. \A a \in Actions : Alive(a)' => Queued(a)'
  BY DEF QueueInv, Alive, Queued
<1> QED
  BY <1>1, <1>2, <1>3 DEF QueueInv

\* An erasure of the actions in gone from both vectors, which marks them Gone.
LEMMA QueuesErased ==
    ASSUME TypeOK, QueueInv, NEW gone,
           delayed' \in Kept(delayed, Actions \ gone),
           \/ pending' \in Kept(pending, Actions \ gone)
           \/ UNCHANGED pending /\ \A a \in gone : \E i \in DOMAIN delayed : delayed[i] = a,
           \A a \in Actions :
              /\ a \in gone => act'[a].status = "Gone"
              /\ a \notin gone =>
                    (act[a].status \in {"Free", "Gone"} <=> act'[a].status \in {"Free", "Gone"}),
           processing' = processing,
           (stack = <<>>) = (stack' = <<>>)
    PROVE  QueueInv'
<1>1. delayed \in Seq(Actions) /\ pending \in Seq(Actions)
  BY DEF TypeOK
<1>2. /\ \A k \in DOMAIN delayed' : /\ delayed'[k] \in Actions \ gone
                                    /\ \E i \in DOMAIN delayed : delayed'[k] = delayed[i]
      /\ \A i \in DOMAIN delayed : delayed[i] \in Actions \ gone =>
            \E k \in DOMAIN delayed' : delayed'[k] = delayed[i]
      /\ Distinct(delayed')
  <2>1. Distinct(delayed)
    BY DEF QueueInv
  <2> QED
    BY <1>1, <2>1, KeptElements
<1>3. /\ \A k \in DOMAIN pending' : /\ pending'[k] \in Actions \ gone
                                    /\ \E i \in DOMAIN pending : pending'[k] = pending[i]
      /\ \A i \in DOMAIN pending : pending[i] \in Actions \ gone =>
            \E k \in DOMAIN pending' : pending'[k] = pending[i]
      /\ Distinct(pending')
      /\ pending = <<>> => pending' = <<>>
  <2>1. Distinct(pending)
    BY DEF QueueInv
  <2>2. CASE pending' \in Kept(pending, Actions \ gone)
    BY <1>1, <2>1, <2>2, KeptElements
  <2>3. CASE UNCHANGED pending /\ \A a \in gone : \E i \in DOMAIN delayed : delayed[i] = a
    BY <2>1, <2>3, QueueTypes DEF QueueInv
  <2> QED
    BY <2>2, <2>3
<1>4. Distinct(delayed)' /\ Distinct(pending)'
  BY <1>2, <1>3 DEF Distinct
<1>5. /\ \A i \in DOMAIN delayed' : Alive(delayed[i])'
      /\ \A j \in DOMAIN pending' : Alive(pending[j])'
  BY <1>2, <1>3 DEF QueueInv, Alive
<1>6. \A i \in DOMAIN delayed', j \in DOMAIN pending' : delayed'[i] # pending'[j]
  BY <1>2, <1>3 DEF QueueInv
<1>7. ASSUME NEW a \in Actions, Alive(a)'
      PROVE  Queued(a)'
  <2>1. a \notin gone /\ Alive(a)
    BY <1>7 DEF Alive
  <2>2. Queued(a)
    BY <2>1 DEF QueueInv
  <2> QED
    BY <1>2, <1>3, <2>1, <2>2 DEF Queued
<1>8. PendingIsDrained'
  BY <1>3 DEF QueueInv, PendingIsDrained
<1> QED
  BY <1>4, <1>5, <1>6, <1>7, <1>8 DEF QueueInv

\* A new action goes to the end of one of the vectors.
LEMMA QueuesCreated ==
    ASSUME TypeOK, QueueInv, NEW a \in Actions, NEW x \in ActionRecord, Created(a, x)
    PROVE  QueueInv'
<1>1. /\ act[a].status = "Free" /\ act'[a] = x /\ x.status = "Active"
      /\ \A b \in Actions : b # a => act'[b] = act[b]
      /\ UNCHANGED <<stack, processing>>
  BY DEF Created, Enqueue, TypeOK
<1>2. /\ \A i \in DOMAIN delayed : delayed[i] # a
      /\ \A j \in DOMAIN pending : pending[j] # a
  BY <1>1 DEF QueueInv, Alive
<1>3. delayed \in Seq(Actions) /\ pending \in Seq(Actions)
  BY DEF TypeOK
<1>4. ASSUME NEW s \in Seq(Actions), Distinct(s), \A i \in DOMAIN s : s[i] # a
      PROVE  /\ Distinct(Append(s, a))
             /\ \A i \in DOMAIN Append(s, a) :
                   Append(s, a)[i] = a \/ \E j \in DOMAIN s : Append(s, a)[i] = s[j]
             /\ \A j \in DOMAIN s : \E i \in DOMAIN Append(s, a) : Append(s, a)[i] = s[j]
             /\ \E i \in DOMAIN Append(s, a) : Append(s, a)[i] = a
  <2>1. /\ Len(s) \in Nat /\ DOMAIN s = 1 .. Len(s)
        /\ DOMAIN Append(s, a) = 1 .. Len(s) + 1
        /\ \A i \in 1 .. Len(s) : Append(s, a)[i] = s[i]
        /\ Append(s, a)[Len(s) + 1] = a
    BY AppendProperties, LenProperties
  <2>2. Distinct(Append(s, a))
    BY <1>4, <2>1 DEF Distinct
  <2>3. \A i \in DOMAIN Append(s, a) :
           Append(s, a)[i] = a \/ \E j \in DOMAIN s : Append(s, a)[i] = s[j]
    BY <2>1
  <2>4. \A j \in DOMAIN s : \E i \in DOMAIN Append(s, a) : Append(s, a)[i] = s[j]
    BY <2>1
  <2>5. Len(s) + 1 \in DOMAIN Append(s, a)
    BY <2>1
  <2> QED
    BY <2>1, <2>2, <2>3, <2>4, <2>5
<1>5. \A b \in Actions : b # a => Alive(b)' = Alive(b)
  BY <1>1 DEF Alive
<1>6. Alive(a)'
  BY <1>1 DEF Alive
<1>7. \/ delayed' = Append(delayed, a) /\ UNCHANGED pending /\ ~processing
      \/ pending' = Append(pending, a) /\ UNCHANGED delayed /\ processing
  BY DEF Created, Enqueue
<1>8. CASE delayed' = Append(delayed, a) /\ UNCHANGED pending /\ ~processing
  <2>1. /\ Distinct(delayed')
        /\ \A i \in DOMAIN delayed' : delayed'[i] = a \/ \E j \in DOMAIN delayed : delayed'[i] = delayed[j]
        /\ \A j \in DOMAIN delayed : \E i \in DOMAIN delayed' : delayed'[i] = delayed[j]
        /\ \E i \in DOMAIN delayed' : delayed'[i] = a
    <3>1. Distinct(delayed)
      BY DEF QueueInv
    <3> QED
      BY <1>2, <1>3, <1>4, <1>8, <3>1
  <2>2. Distinct(delayed)' /\ Distinct(pending)'
    BY <1>8, <2>1 DEF QueueInv, Distinct
  <2>3. \A i \in DOMAIN delayed', j \in DOMAIN pending' : delayed'[i] # pending'[j]
    BY <1>2, <1>8, <2>1 DEF QueueInv
  <2>4. \A i \in DOMAIN delayed' : Alive(delayed[i])'
    BY <1>5, <1>6, <2>1, QueueTypes DEF QueueInv
  <2>5. \A j \in DOMAIN pending' : Alive(pending[j])'
    BY <1>2, <1>5, <1>8, QueueTypes DEF QueueInv
  <2>6. \A b \in Actions : Alive(b)' => Queued(b)'
    BY <1>5, <1>8, <2>1 DEF QueueInv, Queued
  <2>7. PendingIsDrained'
    BY <1>1, <1>8 DEF QueueInv, PendingIsDrained
  <2> QED
    BY <2>2, <2>3, <2>4, <2>5, <2>6, <2>7 DEF QueueInv
<1>9. CASE pending' = Append(pending, a) /\ UNCHANGED delayed /\ processing
  <2>1. /\ Distinct(pending')
        /\ \A i \in DOMAIN pending' : pending'[i] = a \/ \E j \in DOMAIN pending : pending'[i] = pending[j]
        /\ \A j \in DOMAIN pending : \E i \in DOMAIN pending' : pending'[i] = pending[j]
        /\ \E i \in DOMAIN pending' : pending'[i] = a
    <3>1. Distinct(pending)
      BY DEF QueueInv
    <3> QED
      BY <1>2, <1>3, <1>4, <1>9, <3>1
  <2>2. Distinct(delayed)' /\ Distinct(pending)'
    BY <1>9, <2>1 DEF QueueInv, Distinct
  <2>3. \A i \in DOMAIN delayed', j \in DOMAIN pending' : delayed'[i] # pending'[j]
    BY <1>2, <1>9, <2>1 DEF QueueInv
  <2>4. \A i \in DOMAIN delayed' : Alive(delayed[i])'
    BY <1>2, <1>5, <1>9, QueueTypes DEF QueueInv
  <2>5. \A j \in DOMAIN pending' : Alive(pending[j])'
    BY <1>5, <1>6, <2>1, QueueTypes DEF QueueInv
  <2>6. \A b \in Actions : Alive(b)' => Queued(b)'
    BY <1>5, <1>9, <2>1 DEF QueueInv, Queued
  <2>7. PendingIsDrained'
    BY <1>1, <1>9 DEF QueueInv, PendingIsDrained
  <2> QED
    BY <2>2, <2>3, <2>4, <2>5, <2>6, <2>7 DEF QueueInv
<1> QED
  BY <1>7, <1>8, <1>9

\* The end of a pass moves the pending actions behind the others.
LEMMA ExitQueues ==
    ASSUME TypeOK, QueueInv, HookExit
    PROVE  QueueInv'
<1>1. delayed' = delayed \o pending /\ pending' = <<>> /\ UNCHANGED act /\ processing' = FALSE
  BY DEF HookExit
<1>2. delayed \in Seq(Actions) /\ pending \in Seq(Actions)
  BY DEF TypeOK
<1>3. Distinct(delayed')
  BY <1>1, <1>2, ConcatDistinct DEF QueueInv
<1>4. DOMAIN pending' = {}
  BY <1>1, EmptySeq
<1>5. /\ \A i \in DOMAIN delayed' : \/ \E j \in DOMAIN delayed : delayed'[i] = delayed[j]
                                    \/ \E j \in DOMAIN pending : delayed'[i] = pending[j]
      /\ \A j \in DOMAIN delayed : \E i \in DOMAIN delayed' : delayed'[i] = delayed[j]
      /\ \A j \in DOMAIN pending : \E i \in DOMAIN delayed' : delayed'[i] = pending[j]
  <2>1. Elements(delayed') = Elements(delayed) \cup Elements(pending)
    BY <1>1, <1>2, ConcatMembers
  <2> QED
    BY <2>1 DEF Elements
<1>6. \A i \in DOMAIN delayed' : Alive(delayed'[i])
  BY <1>5 DEF QueueInv
<1>7. \A a \in Actions : Alive(a) => Queued(a)'
  BY <1>5 DEF QueueInv, Queued
<1>8. Distinct(delayed)' /\ Distinct(pending)' /\ PendingIsDrained'
  BY <1>1, <1>3, <1>4 DEF Distinct, PendingIsDrained
<1> QED
  BY <1>1, <1>4, <1>6, <1>7, <1>8 DEF QueueInv, Alive

\* Phase 3 erases from the vector what it marks Gone.
LEMMA FinishQueues ==
    ASSUME TypeOK, QueueInv, FinishBatch
    PROVE  QueueInv'
<1> DEFINE settled == [a \in Actions |-> IF a \in Found(Top) THEN Settled(act[a]) ELSE act[a]]
           erased == {a \in {delayed[i] : i \in DOMAIN delayed} :
                         settled[a].status = "PendingRemoval"}
<1>1. /\ delayed' \in Kept(delayed, Actions \ erased)
      /\ act' = [a \in Actions |->
            IF a \in erased THEN [settled[a] EXCEPT !.status = "Gone"] ELSE settled[a]]
      /\ UNCHANGED <<pending, processing>>
  BY DEF FinishBatch
<1>2. \A x \in ActionRecord :
         /\ Settled(x) \in ActionRecord
         /\ x.status \notin {"Free", "Gone"} => Settled(x).status \notin {"Free", "Gone"}
  BY SettledType DEF Settled, ActionRecord
<1>3. \A a \in Found(Top) : a \in Actions /\ Alive(a)
  BY QueueTypes DEF Found, QueueInv
<1>4. \A a \in Actions :
         /\ settled[a] \in ActionRecord
         /\ act[a].status \in {"Free", "Gone"} <=> settled[a].status \in {"Free", "Gone"}
  BY <1>2, <1>3 DEF TypeOK, Alive
<1>5. \A x \in ActionRecord : [x EXCEPT !.status = "Gone"].status = "Gone"
  BY DEF ActionRecord
<1>6. \A a \in erased : \E i \in DOMAIN delayed : delayed[i] = a
  OBVIOUS
<1> HIDE DEF settled, erased
<1>7. \A a \in Actions :
         /\ a \in erased => act'[a].status = "Gone"
         /\ a \notin erased =>
               (act[a].status \in {"Free", "Gone"} <=> act'[a].status \in {"Free", "Gone"})
  BY <1>1, <1>4, <1>5
<1>8. (stack = <<>>) = (stack' = <<>>)
  <2>1. stack # <<>> /\ stack' = [stack EXCEPT ![Len(stack)] =
                                     [Top EXCEPT !.stage = "settled", !.ready = {}, !.ran = {}]]
    BY DEF FinishBatch, SetTop
  <2>2. DOMAIN stack' = DOMAIN stack /\ DOMAIN stack # {}
    BY <2>1, EmptySeq, LenProperties DEF TypeOK
  <2> QED
    BY <2>1, <2>2, EmptySeq
<1> QED
  BY <1>1, <1>6, <1>7, <1>8, QueuesErased

LEMMA UninstallQueues ==
    ASSUME TypeOK, QueueInv, NEW m \in Mods, Uninstall(m)
    PROVE  QueueInv'
<1> DEFINE mine == {a \in Actions : act[a].owner = m /\ act[a].status # "Gone"}
<1>1. /\ delayed' \in Kept(delayed, Actions \ mine)
      /\ pending' \in Kept(pending, Actions \ mine)
      /\ act' = [a \in Actions |-> IF a \in mine THEN [act[a] EXCEPT !.status = "Gone"] ELSE act[a]]
      /\ UNCHANGED <<stack, processing>>
  BY DEF Uninstall
<1>2. \A x \in ActionRecord : [x EXCEPT !.status = "Gone"].status = "Gone"
  BY DEF ActionRecord
<1> HIDE DEF mine
<1>3. \A a \in Actions :
         /\ a \in mine => act'[a].status = "Gone"
         /\ a \notin mine => act'[a] = act[a]
  BY <1>1, <1>2 DEF TypeOK
<1> QED
  BY <1>1, <1>3, QueuesErased

\* The other steps of a pass and of the clock create and erase nothing.
LEMMA PassQueues ==
    ASSUME TypeOK, QueueInv,
           \/ \E h \in Hooks : HookEnter(h)
           \/ SimpleCallbackBegin \/ SimpleCallbackEnd \/ SelectReady \/ RunNext \/ CallbackReturn
           \/ NotifyCallbackBegin \/ NotifyCallbackEnd \/ Clock
    PROVE  QueueInv'
<1>1. UNCHANGED <<delayed, pending>>
  BY DEF HookEnter, SimpleCallbackBegin, SimpleCallbackEnd, SelectReady, RunNext, CallbackReturn,
         NotifyCallbackBegin, NotifyCallbackEnd, Clock, queues
<1>2. \A a \in Actions :
         \/ act'[a] = act[a]
         \/ act'[a] = [act[a] EXCEPT !.left = @ - 1]
         \/ Examined(a) /\ act'[a] = [act[a] EXCEPT !.status = "Executing", !.left = 0]
  BY DEF HookEnter, SimpleCallbackBegin, SimpleCallbackEnd, SelectReady, RunNext, CallbackReturn,
         NotifyCallbackBegin, NotifyCallbackEnd, Clock
<1>3. \A x \in ActionRecord :
         /\ [x EXCEPT !.left = @ - 1].status = x.status
         /\ [x EXCEPT !.status = "Executing", !.left = 0].status = "Executing"
  BY DEF ActionRecord
<1>4. \A a \in Actions :
         act[a].status \in {"Free", "Gone"} <=> act'[a].status \in {"Free", "Gone"}
  BY <1>2, <1>3 DEF TypeOK, Examined
<1>5. stack # <<>> => stack' # <<>>
  <2>1. CASE \E h \in Hooks : HookEnter(h)
    <3>1. PICK h \in Hooks : HookEnter(h)
      BY <2>1
    <3> DEFINE f == [hook |-> h, stage |-> "enter", ready |-> {}, ran |-> {}, running |-> FALSE]
    <3>2. f \in Frame
      BY <3>1, ConstantsAssumption DEF Frame, Stages, HookEnter
    <3>3. stack' = Append(stack, f)
      BY <3>1 DEF HookEnter
    <3> HIDE DEF f
    <3>4. Len(stack') = Len(stack) + 1 /\ Len(stack) \in Nat
      BY <3>2, <3>3, AppendProperties, LenProperties DEF TypeOK
    <3> QED
      BY <3>4, EmptySeq
  <2>2. ASSUME NEW f, stack # <<>>, SetTop(f)
        PROVE  stack' # <<>>
    <3>1. DOMAIN stack' = DOMAIN stack /\ DOMAIN stack # {}
      BY <2>2, EmptySeq, LenProperties DEF TypeOK, SetTop
    <3> QED
      BY <3>1, EmptySeq
  <2>3. CASE Clock
    BY <2>3 DEF Clock
  <2>4. stack # <<>> => stack' # <<>> \/ Clock \/ \E h \in Hooks : HookEnter(h)
    BY <2>2 DEF SimpleCallbackBegin, SimpleCallbackEnd, SelectReady, RunNext, CallbackReturn,
         NotifyCallbackBegin, NotifyCallbackEnd
  <2> QED
    BY <2>1, <2>3, <2>4
<1>6. PendingIsDrained'
  <2>1. CASE \E h \in Hooks : HookEnter(h)
    <3>1. PICK h \in Hooks : HookEnter(h)
      BY <2>1
    <3> DEFINE f == [hook |-> h, stage |-> "enter", ready |-> {}, ran |-> {}, running |-> FALSE]
    <3>2. f \in Frame
      BY <3>1, ConstantsAssumption DEF Frame, Stages, HookEnter
    <3>3. stack' = Append(stack, f)
      BY <3>1 DEF HookEnter
    <3> HIDE DEF f
    <3>4. Len(stack') = Len(stack) + 1 /\ Len(stack) \in Nat
      BY <3>2, <3>3, AppendProperties, LenProperties DEF TypeOK
    <3>5. stack' # <<>>
      BY <3>4, EmptySeq
    <3> QED
      BY <3>5 DEF PendingIsDrained
  <2>2. CASE ~\E h \in Hooks : HookEnter(h)
    <3>1. UNCHANGED processing
      BY <2>2 DEF SimpleCallbackBegin, SimpleCallbackEnd, SelectReady, RunNext, CallbackReturn,
         NotifyCallbackBegin, NotifyCallbackEnd, Clock
    <3> QED
      BY <1>1, <1>5, <3>1 DEF QueueInv, PendingIsDrained
  <2> QED
    BY <2>1, <2>2
<1> QED
  BY <1>1, <1>4, <1>6, QueuesKept

LEMMA ControlQueues ==
    ASSUME TypeOK, QueueInv,
           \/ Controlled
           \/ UNCHANGED <<act, delayed, pending, stack, processing>>
    PROVE  QueueInv'
<1>1. UNCHANGED <<delayed, pending>> /\ PendingIsDrained'
  BY DEF Controlled, QueueInv, PendingIsDrained
<1>2. \A a \in Actions :
         act[a].status \in {"Free", "Gone"} <=> act'[a].status \in {"Free", "Gone"}
  BY DEF Controlled, Live
<1> QED
  BY <1>1, <1>2, QueuesKept

\* The calls of the API, by what they do.
LEMMA ApiCases ==
    ASSUME TypeOK, Api
    PROVE  \/ Controlled
           \/ \E a \in Actions, x \in ActionRecord : Created(a, x)
           \/ \E m \in Mods : MakeActionHandle(m) \/ UnlockedMakeRead(m) \/ Uninstall(m)
<1>1. PICK m \in Mods :
         \/ MakeActionHandle(m) \/ UnlockedMakeRead(m) \/ Uninstall(m)
         \/ \/ \E d \in Delays, loop \in BOOLEAN : CreateTimed(m, d, loop) \/ CreateFramed(m, d, loop)
            \/ \E h \in made, d \in Delays : CreateWithHandle(m, h, d)
            \/ \E h \in made, d \in Delays : Retrigger(m, h, d) /\ WithHandle(h) = {}
         \/ \/ \E a \in Actions :
                  \/ ResetDelayedActionTimer(m, a)
                  \/ \E d \in Delays : SetDelayedActionTimer(m, a, d)
                  \/ PauseDelayedAction(m, a)
                  \/ UnpauseDelayedAction(m, a)
                  \/ CancelDelayedAction(m, a)
            \/ \E h \in made, d \in Delays : Retrigger(m, h, d) /\ WithHandle(h) # {}
            \/ ClearAllDelayedActions(m)
  BY DEF Api
<1> QED
  BY <1>1, CallsCreate, CallsControl

\* The queues are sound in every reachable state.
LEMMA AlwaysQueues == Spec => [](TypeOK /\ QueueInv)
<1>1. Init => QueueInv
  <2> SUFFICES ASSUME Init PROVE QueueInv
    OBVIOUS
  <2>1. \A a \in Actions : act[a].status = "Free"
    BY DEF Init, Blank
  <2>2. DOMAIN delayed = {} /\ DOMAIN pending = {} /\ pending = <<>> /\ ~processing
    BY EmptySeq, LenProperties DEF Init
  <2> QED
    BY <2>1, <2>2 DEF QueueInv, Distinct, Alive, PendingIsDrained
<1>2. TypeOK /\ QueueInv /\ [Next]_vars => QueueInv'
  <2> SUFFICES ASSUME TypeOK, QueueInv, [Next]_vars PROVE QueueInv'
    OBVIOUS
  <2>1. ASSUME UnlockedMakeWrite \/ \E m \in Mods : MakeActionHandle(m) \/ UnlockedMakeRead(m)
        PROVE  QueueInv'
    <3>1. UNCHANGED <<act, delayed, pending, stack, processing>>
      BY <2>1 DEF UnlockedMakeWrite, MakeActionHandle, UnlockedMakeRead, ApiCall, queues
    <3> QED
      BY <3>1, ControlQueues
  <2>2. CASE GameThread
    BY <2>1, <2>2, PassQueues, ExitQueues, FinishQueues DEF GameThread
  <2>3. CASE Api
    BY <2>1, <2>3, ApiCases, ControlQueues, QueuesCreated, UninstallQueues
  <2>4. CASE Clock
    BY <2>4, PassQueues
  <2>5. CASE UNCHANGED vars
    BY <2>5, ControlQueues DEF vars
  <2> QED
    BY <2>2, <2>3, <2>4, <2>5 DEF Next
<1> QED
  BY <1>1, <1>2, TypeCorrect, PTL DEF Spec

\* The two vectors together hold every action that was created and not erased,
\* each once: for all hooks, however the passes nest, and with the unlocked
\* MakeActionHandle.
THEOREM QueuesComplete == Spec => []QueuesHoldLiveActions
<1>1. TypeOK /\ QueueInv => QueuesHoldLiveActions
  BY QueueInvHolds DEF QueueInv
<1> QED
  BY <1>1, AlwaysQueues, PTL

\* What was created during a pass is drained by a pass in progress: when none
\* is, the pending vector is empty (engine_tick_hook, process_event_hook).
THEOREM PendingServed == Spec => []PendingIsDrained
<1>1. TypeOK /\ QueueInv => PendingIsDrained
  BY DEF QueueInv
<1> QED
  BY <1>1, AlwaysQueues, PTL

-----------------------------------------------------------------------------
(* Handles are unique among live actions, when every increment of the       *)
(* counter runs under the mutex.                                             *)

\* Every handle given out is below the counter.
HandlesBelowCounter ==
    /\ \A h \in made : h < nextHandle
    /\ \A a \in Actions : act[a].status \in Live => act[a].handle < nextHandle

HandleInv ==
    /\ reading = 0
    /\ HandlesBelowCounter
    /\ UniqueHandles

\* A step that makes no action live, changes no handle of a live one and does
\* not touch the counter keeps the handles unique.
LEMMA HandlesKept ==
    ASSUME HandleInv, UNCHANGED <<nextHandle, made, reading>>,
           \A a \in Actions : act'[a].status \in Live =>
               act[a].status \in Live /\ act'[a].handle = act[a].handle
    PROVE  HandleInv'
<1>1. HandlesBelowCounter'
  BY DEF HandleInv, HandlesBelowCounter
<1>2. UniqueHandles'
  BY DEF HandleInv, UniqueHandles
<1> QED
  BY <1>1, <1>2 DEF HandleInv

\* The end of a pass and the steps that only move it on.
LEMMA PassHandles ==
    ASSUME TypeOK, HandleInv,
           \/ \E h \in Hooks : HookEnter(h)
           \/ SimpleCallbackBegin \/ SimpleCallbackEnd \/ SelectReady \/ RunNext \/ CallbackReturn
           \/ NotifyCallbackBegin \/ NotifyCallbackEnd \/ HookExit \/ Clock
    PROVE  HandleInv'
<1>1. UNCHANGED <<nextHandle, made, reading>>
  BY DEF HookEnter, SimpleCallbackBegin, SimpleCallbackEnd, SelectReady, RunNext, CallbackReturn,
         NotifyCallbackBegin, NotifyCallbackEnd, HookExit, Clock, handles
<1>2. \A a \in Actions :
         \/ act'[a] = act[a]
         \/ act'[a] = [act[a] EXCEPT !.left = @ - 1]
         \/ Examined(a) /\ act'[a] = [act[a] EXCEPT !.status = "Executing", !.left = 0]
  BY DEF HookEnter, SimpleCallbackBegin, SimpleCallbackEnd, SelectReady, RunNext, CallbackReturn,
         NotifyCallbackBegin, NotifyCallbackEnd, HookExit, Clock
<1>3. \A x \in ActionRecord :
         /\ [x EXCEPT !.left = @ - 1].status = x.status
         /\ [x EXCEPT !.left = @ - 1].handle = x.handle
         /\ [x EXCEPT !.status = "Executing", !.left = 0].handle = x.handle
  BY DEF ActionRecord
<1>4. \A a \in Actions : act'[a].status \in Live =>
         act[a].status \in Live /\ act'[a].handle = act[a].handle
  BY <1>2, <1>3 DEF TypeOK, Examined, Live
<1> QED
  BY <1>1, <1>4, HandlesKept

\* Phase 3 revives nothing: an action in the vector was not erased before.
LEMMA FinishHandles ==
    ASSUME TypeOK, QueueInv, HandleInv, FinishBatch
    PROVE  HandleInv'
<1> DEFINE settled == [a \in Actions |-> IF a \in Found(Top) THEN Settled(act[a]) ELSE act[a]]
           erased == {a \in {delayed[i] : i \in DOMAIN delayed} :
                         settled[a].status = "PendingRemoval"}
<1>1. /\ act' = [a \in Actions |->
            IF a \in erased THEN [settled[a] EXCEPT !.status = "Gone"] ELSE settled[a]]
      /\ UNCHANGED <<nextHandle, made, reading>>
  BY DEF FinishBatch, handles
<1>2. \A x \in ActionRecord :
         /\ Settled(x) \in ActionRecord
         /\ Settled(x).handle = x.handle
         /\ x.status = "PendingRemoval" => Settled(x).status = "PendingRemoval"
  BY SettledType DEF Settled, ActionRecord
<1>3. \A a \in Found(Top) : act[a].status \in Live \cup {"PendingRemoval"}
  BY QueueTypes DEF Found, QueueInv, Alive, TypeOK, ActionRecord, Statuses
<1>4. \A a \in Actions :
         /\ settled[a] \in ActionRecord
         /\ settled[a].handle = act[a].handle
         /\ settled[a].status \in Live => act[a].status \in Live
  <2> SUFFICES ASSUME NEW a \in Actions
               PROVE  /\ settled[a] \in ActionRecord
                      /\ settled[a].handle = act[a].handle
                      /\ settled[a].status \in Live => act[a].status \in Live
    OBVIOUS
  <2>1. act[a] \in ActionRecord
    BY DEF TypeOK
  <2>2. CASE a \in Found(Top)
    <3>1. settled[a] = Settled(act[a])
      BY <2>2
    <3> QED
      BY <1>2, <1>3, <2>1, <2>2, <3>1 DEF Live
  <2>3. CASE a \notin Found(Top)
    BY <2>1, <2>3
  <2> QED
    BY <2>2, <2>3
<1>5. \A x \in ActionRecord : [x EXCEPT !.status = "Gone"].status = "Gone"
  BY DEF ActionRecord
<1> HIDE DEF settled, erased
<1>6. ASSUME NEW a \in Actions, act'[a].status \in Live
      PROVE  act[a].status \in Live /\ act'[a].handle = act[a].handle
  <2>1. a \notin erased
    BY <1>1, <1>4, <1>5, <1>6 DEF Live
  <2> QED
    BY <1>1, <1>4, <1>6, <2>1
<1> QED
  BY <1>1, <1>6, HandlesKept

\* A new action has a handle below the new counter that no live action has.
LEMMA CreateHandles ==
    ASSUME TypeOK, HandleInv, NEW a \in Actions, NEW x \in ActionRecord, Created(a, x)
    PROVE  HandleInv'
<1>1. /\ act'[a] = x /\ x.status = "Active"
      /\ \A b \in Actions : b # a => act'[b] = act[b]
      /\ UNCHANGED <<made, reading>>
  BY DEF Created, Enqueue, TypeOK
<1>2. /\ nextHandle \in Nat /\ made \subseteq Nat
      /\ \A b \in Actions : act[b].handle \in Nat
  BY DEF TypeOK, ActionRecord
<1>3. /\ nextHandle' \in Nat
      /\ \A h \in Nat : h < nextHandle => h < nextHandle'
      /\ x.handle < nextHandle'
  BY <1>2 DEF Created, HandleInv, HandlesBelowCounter
<1>4. \A b \in Actions : act[b].status \in Live => act[b].handle # x.handle
  <2>1. CASE x.handle = nextHandle
    BY <1>2, <2>1 DEF HandleInv, HandlesBelowCounter
  <2>2. CASE WithHandle(x.handle) = {}
    BY <2>2 DEF WithHandle
  <2> QED
    BY <2>1, <2>2 DEF Created
<1>5. HandlesBelowCounter'
  BY <1>1, <1>2, <1>3 DEF HandleInv, HandlesBelowCounter
<1>6. UniqueHandles'
  BY <1>1, <1>4 DEF HandleInv, UniqueHandles
<1> QED
  BY <1>1, <1>5, <1>6 DEF HandleInv

\* MakeActionHandle gives out the counter and moves it on.
LEMMA MakeHandles ==
    ASSUME TypeOK, HandleInv, NEW m \in Mods, MakeActionHandle(m)
    PROVE  HandleInv'
<1>1. /\ UNCHANGED <<act, reading>>
      /\ nextHandle' = nextHandle + 1 /\ made' = made \cup {nextHandle}
  BY DEF MakeActionHandle, TakeHandle
<1>2. /\ nextHandle \in Nat /\ made \subseteq Nat
      /\ \A a \in Actions : act[a].handle \in Nat
  BY DEF TypeOK, ActionRecord
<1>3. HandlesBelowCounter'
  BY <1>1, <1>2 DEF HandleInv, HandlesBelowCounter
<1> QED
  BY <1>1, <1>3 DEF HandleInv, UniqueHandles

LEMMA UninstallHandles ==
    ASSUME TypeOK, HandleInv, NEW m \in Mods, Uninstall(m)
    PROVE  HandleInv'
<1>1. UNCHANGED <<nextHandle, made, reading>>
  BY DEF Uninstall, handles
<1>2. \A a \in Actions : act'[a] = act[a] \/ act'[a] = [act[a] EXCEPT !.status = "Gone"]
  BY DEF Uninstall
<1>3. \A x \in ActionRecord : [x EXCEPT !.status = "Gone"].status = "Gone"
  BY DEF ActionRecord
<1>4. \A a \in Actions : act'[a].status \in Live =>
         act[a].status \in Live /\ act'[a].handle = act[a].handle
  BY <1>2, <1>3 DEF TypeOK, Live
<1> QED
  BY <1>1, <1>4, HandlesKept

\* A handle names at most one live action, for all mods, actions, hooks and
\* delays, provided that MakeActionHandle is not called without the mutex.
THEOREM HandlesUnique ==
    ASSUME ~UnlockedMake
    PROVE  Spec => []UniqueHandles
<1>1. Init => HandleInv
  <2> SUFFICES ASSUME Init PROVE HandleInv
    OBVIOUS
  <2>1. (\A a \in Actions : act[a].status = "Free") /\ made = {} /\ reading = 0
    BY DEF Init, Blank
  <2> QED
    BY <2>1 DEF HandleInv, HandlesBelowCounter, UniqueHandles, Live
<1>2. TypeOK /\ QueueInv /\ HandleInv /\ [Next]_vars => HandleInv'
  <2> SUFFICES ASSUME TypeOK, QueueInv, HandleInv, [Next]_vars PROVE HandleInv'
    OBVIOUS
  <2>1. CASE GameThread
    <3>1. ~UnlockedMakeWrite
      BY DEF UnlockedMakeWrite, HandleInv
    <3> QED
      BY <2>1, <3>1, PassHandles, FinishHandles DEF GameThread
  <2>2. CASE Api
    <3>1. Controlled => HandleInv'
      BY HandlesKept DEF Controlled, Live
    <3>2. \A m \in Mods : ~UnlockedMakeRead(m)
      BY DEF UnlockedMakeRead
    <3> QED
      BY <2>2, <3>1, <3>2, ApiCases, CreateHandles, MakeHandles, UninstallHandles
  <2>3. CASE Clock
    BY <2>3, PassHandles
  <2>4. CASE UNCHANGED vars
    BY <2>4, HandlesKept DEF vars
  <2> QED
    BY <2>1, <2>2, <2>3, <2>4 DEF Next
<1>3. HandleInv => UniqueHandles
  BY DEF HandleInv
<1> QED
  BY <1>1, <1>2, <1>3, AlwaysQueues, PTL DEF Spec
=============================================================================
