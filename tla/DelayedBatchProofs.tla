------------------------ MODULE DelayedBatchProofs ------------------------
(* The batches of process_delayed_actions are safe for every value of the   *)
(* constants when passes do not nest, that is when the ProcessEvent hook is *)
(* not registered: the collected positions stay right, nothing is called    *)
(* after its release, nothing is left Executing, nothing is lost and a      *)
(* one-shot action runs once.                                               *)
EXTENDS DelayedActionsProofs

\* What holds of a pass and of the actions it collected.
BatchOK(f) ==
    /\ f.ran \subseteq f.ready
    /\ f.stage # "delayed" => f.ready = {}
    /\ \A r \in f.ready :
          /\ r.index \in DOMAIN delayed
          /\ delayed[r.index] = r.ref
          /\ act[r.ref].status \notin {"Free", "Gone"}
    /\ \A r \in f.ran : started[r.ref] > 0

\* Only a call of the API marks an action, and it is then recorded as dropped.
MarkedIsDropped == \A a \in Actions : act[a].status = "PendingRemoval" => a \in dropped

BatchInv ==
    /\ Len(stack) <= 1
    /\ \A i \in DOMAIN stack : BatchOK(stack[i])
    /\ ExecutingIsInBatch
    /\ MarkedIsDropped
    /\ NotLostBeforeRunning

-----------------------------------------------------------------------------

LEMMA BatchInvSafe ==
    ASSUME BatchInv
    PROVE  /\ ReadyPositionsStable
           /\ NoReleasedCallback
           /\ ExecutingIsInBatch
           /\ NotLostBeforeRunning
  BY DEF BatchInv, BatchOK, ReadyPositionsStable, NoReleasedCallback

\* With at most one pass, the innermost one is the only one.
LEMMA SinglePass ==
    ASSUME TypeOK, BatchInv, stack # <<>>
    PROVE  /\ Len(stack) = 1 /\ DOMAIN stack = {1} /\ Top = stack[1] /\ Top \in Frame
           /\ BatchOK(Top)
           /\ \A f \in Frame : SetTop(f) =>
                 Len(stack') = 1 /\ DOMAIN stack' = {1} /\ stack'[1] = f
<1>1. Len(stack) \in Nat /\ stack \in [1 .. Len(stack) -> Frame]
  BY LenProperties DEF TypeOK
<1>2. Len(stack) = 1
  BY <1>1, EmptySeq DEF BatchInv, TypeOK
<1>3. DOMAIN stack = {1} /\ Top = stack[1]
  BY <1>1, <1>2 DEF Top
<1>4. Top \in Frame /\ BatchOK(Top)
  BY <1>1, <1>3 DEF BatchInv
<1>5. ASSUME NEW f \in Frame, SetTop(f)
      PROVE  Len(stack') = 1 /\ DOMAIN stack' = {1} /\ stack'[1] = f
  <2>1. stack' = [stack EXCEPT ![1] = f]
    BY <1>2, <1>5 DEF SetTop
  <2>2. stack' \in Seq(Frame)
    BY <2>1, <1>2, ExceptSeq DEF TypeOK
  <2>3. DOMAIN stack' = {1} /\ stack'[1] = f
    BY <1>1, <1>2, <2>1
  <2> QED
    BY <2>2, <2>3, LenProperties
<1> QED
  BY <1>2, <1>3, <1>4, <1>5

\* A step of the innermost pass that collects and runs nothing.
LEMMA PassMoved ==
    ASSUME TypeOK, BatchInv, stack # <<>>, NEW f \in Frame, SetTop(f),
           UNCHANGED <<act, delayed, started, dropped>>,
           f.ready = Top.ready, f.ran = Top.ran,
           f.stage = "delayed" \/ Top.stage # "delayed"
    PROVE  BatchInv'
<1>1. /\ DOMAIN stack = {1} /\ Top = stack[1] /\ BatchOK(Top)
      /\ Len(stack') = 1 /\ DOMAIN stack' = {1} /\ stack'[1] = f
  BY SinglePass
<1>2. BatchOK(f)'
  BY <1>1 DEF BatchOK
<1>3. ExecutingIsInBatch'
  BY <1>1 DEF BatchInv, ExecutingIsInBatch
<1> QED
  BY <1>1, <1>2, <1>3 DEF BatchInv, MarkedIsDropped, NotLostBeforeRunning

\* A step of no pass: no action is selected or erased, and the vector only
\* grows.
LEMMA StackKept ==
    ASSUME TypeOK, BatchInv, UNCHANGED <<stack, started>>, dropped \subseteq dropped',
           \A i \in DOMAIN delayed : i \in DOMAIN delayed' /\ delayed'[i] = delayed[i],
           \A a \in Actions :
              /\ act'[a].status = "Executing" => act[a].status = "Executing"
              /\ act'[a].status = "PendingRemoval" =>
                    act[a].status = "PendingRemoval" \/ a \in dropped'
              /\ act'[a].status = "Gone" => act[a].status = "Gone"
              /\ act[a].status \notin {"Free", "Gone"} => act'[a].status \notin {"Free", "Gone"}
    PROVE  BatchInv'
<1>1. \A i \in DOMAIN stack : stack[i] \in Frame
  BY LenProperties, ElementOfSeq DEF TypeOK
<1>2. \A i \in DOMAIN stack : \A r \in stack[i].ready : r.ref \in Actions
  BY <1>1 DEF Frame, ReadyExec
<1>3. \A i \in DOMAIN stack' : BatchOK(stack[i])'
  BY <1>2 DEF BatchInv, BatchOK
<1>4. ExecutingIsInBatch'
  BY DEF BatchInv, ExecutingIsInBatch
<1>5. MarkedIsDropped' /\ NotLostBeforeRunning'
  BY DEF BatchInv, MarkedIsDropped, NotLostBeforeRunning
<1> QED
  BY <1>3, <1>4, <1>5 DEF BatchInv

LEMMA OnePassAfter ==
    ASSUME NEW f, Len(stack') = 1, DOMAIN stack' = {1}, stack'[1] = f, BatchOK(f)',
           ExecutingIsInBatch', MarkedIsDropped', NotLostBeforeRunning'
    PROVE  BatchInv'
  BY DEF BatchInv

-----------------------------------------------------------------------------
(* The steps of a pass.                                                      *)

LEMMA PassBatch ==
    ASSUME TypeOK, BatchInv,
           \/ SimpleCallbackBegin \/ SimpleCallbackEnd \/ CallbackReturn
           \/ NotifyCallbackBegin \/ NotifyCallbackEnd
    PROVE  BatchInv'
<1>1. /\ stack # <<>> /\ UNCHANGED <<act, delayed, started, dropped>>
  BY DEF SimpleCallbackBegin, SimpleCallbackEnd, CallbackReturn, NotifyCallbackBegin,
         NotifyCallbackEnd, queues, history
<1>2. Top \in Frame
  BY <1>1, SinglePass
<1>3. ASSUME NEW st \in Stages, st # "delayed", Top.stage # "delayed",
             SetTop([Top EXCEPT !.stage = st])
      PROVE  BatchInv'
  <2> DEFINE f == [Top EXCEPT !.stage = st]
  <2>1. f \in Frame /\ f.ready = Top.ready /\ f.ran = Top.ran
    BY <1>2 DEF Frame
  <2> QED
    BY <1>1, <1>3, <2>1, PassMoved
<1>4. ASSUME Top.stage = "delayed", SetTop([Top EXCEPT !.running = FALSE])
      PROVE  BatchInv'
  <2> DEFINE f == [Top EXCEPT !.running = FALSE]
  <2>1. f \in Frame /\ f.ready = Top.ready /\ f.ran = Top.ran /\ f.stage = "delayed"
    BY <1>2, <1>4 DEF Frame
  <2> QED
    BY <1>1, <1>4, <2>1, PassMoved
<1> QED
  BY <1>3, <1>4 DEF SimpleCallbackBegin, SimpleCallbackEnd, CallbackReturn,
     NotifyCallbackBegin, NotifyCallbackEnd, Stages

\* A pass begins only when none is in progress.
LEMMA EnterBatch ==
    ASSUME TypeOK, BatchInv, "ProcessEvent" \notin Hooks, NEW h \in Hooks, HookEnter(h)
    PROVE  BatchInv'
<1> DEFINE f == [hook |-> h, stage |-> "enter", ready |-> {}, ran |-> {}, running |-> FALSE]
<1>1. stack = <<>> /\ stack' = Append(stack, f)
  BY DEF HookEnter
<1>2. Len(stack') = 1 /\ DOMAIN stack' = {1} /\ stack'[1] = f
  <2> HIDE DEF f
  <2>1. <<>> \in Seq({f}) /\ Len(<<>>) = 0 /\ f \in {f}
    BY EmptySeq
  <2>2. stack' \in Seq({f}) /\ Len(stack') = 1 /\ stack'[1] = f
    BY <1>1, <2>1, AppendProperties
  <2> QED
    BY <2>2, LenProperties
<1>3. UNCHANGED <<act, delayed, started, dropped>>
  BY DEF HookEnter, queues, history
<1>4. BatchOK(f)'
  BY DEF BatchOK
<1>5. ExecutingIsInBatch'
  BY <1>1, <1>3 DEF BatchInv, ExecutingIsInBatch
<1>6. MarkedIsDropped' /\ NotLostBeforeRunning'
  BY <1>3 DEF BatchInv, MarkedIsDropped, NotLostBeforeRunning
<1> HIDE DEF f
<1> QED
  BY <1>2, <1>4, <1>5, <1>6, OnePassAfter

LEMMA ExitBatch ==
    ASSUME TypeOK, BatchInv, HookExit
    PROVE  BatchInv'
<1>1. DOMAIN stack = {1} /\ BatchOK(stack[1]) /\ Len(stack) = 1 /\ Top = stack[1]
  BY SinglePass DEF HookExit
<1>2. stack[1].ready = {}
  BY <1>1 DEF HookExit, BatchOK
<1>3. Len(stack') = 0 /\ DOMAIN stack' = {}
  BY <1>1 DEF HookExit
<1>4. UNCHANGED <<act, started, dropped>>
  BY DEF HookExit, history
<1>5. ExecutingIsInBatch'
  BY <1>1, <1>2, <1>4 DEF BatchInv, ExecutingIsInBatch
<1> QED
  BY <1>3, <1>4, <1>5 DEF BatchInv, MarkedIsDropped, NotLostBeforeRunning

\* Phase 1 collects actions at their positions.
LEMMA SelectBatch ==
    ASSUME TypeOK, BatchInv, SelectReady
    PROVE  BatchInv'
<1> DEFINE due == {a \in Actions : Examined(a) /\ Due(a) /\ ~executing}
           collected == {[index |-> i, ref |-> delayed[i]] :
                            i \in {j \in DOMAIN delayed : delayed[j] \in due}}
           f == [Top EXCEPT !.stage = "delayed", !.ready = collected]
<1>1. /\ stack # <<>> /\ Top.stage # "delayed"
      /\ SetTop(f)
      /\ UNCHANGED <<delayed, started, dropped>>
  BY DEF SelectReady, queues, history
<1>2. /\ Top \in Frame /\ BatchOK(Top) /\ Top = stack[1] /\ DOMAIN stack = {1}
  BY <1>1, SinglePass
<1>3. Top.ready = {} /\ Top.ran = {}
  BY <1>1, <1>2 DEF BatchOK
<1>4. collected \in SUBSET ReadyExec
  BY LenProperties DEF ReadyExec, TypeOK
<1>5. f \in Frame /\ f.ready = collected /\ f.ran = {} /\ f.stage = "delayed"
  BY <1>2, <1>3, <1>4 DEF Frame, Stages
<1>6. PICK g \in Frame : g = f
  BY <1>5
<1> HIDE DEF f
<1>6a. Len(stack') = 1 /\ DOMAIN stack' = {1} /\ stack'[1] = g
  BY <1>1, <1>6, SinglePass
<1>6b. g.ready = collected /\ g.ran = {} /\ g.stage = "delayed"
  BY <1>5, <1>6
<1>7. ASSUME NEW a \in Actions
      PROVE  /\ a \in due => act'[a].status = "Executing" /\ \E i \in DOMAIN delayed : delayed[i] = a
             /\ a \notin due => act'[a].status = act[a].status
  <2>1. act[a] \in ActionRecord
    BY DEF TypeOK
  <2>2. /\ a \in due => act'[a] = [act[a] EXCEPT !.status = "Executing", !.left = 0]
        /\ a \notin due => act'[a] = act[a] \/ act'[a] = [act[a] EXCEPT !.left = @ - 1]
    BY DEF SelectReady
  <2>3. a \in due => \E i \in DOMAIN delayed : delayed[i] = a
    BY DEF Examined
  <2> HIDE DEF due
  <2> QED
    BY <2>1, <2>2, <2>3 DEF ActionRecord
<1>8. due \subseteq Actions
  OBVIOUS
<1>9. BatchOK(g)'
  <2> HIDE DEF due
  <2>1. \A r \in collected : /\ r.index \in DOMAIN delayed /\ delayed[r.index] = r.ref
                             /\ r.ref \in due
    OBVIOUS
  <2>2. \A r \in collected : act'[r.ref].status = "Executing"
    BY <1>7, <1>8, <2>1
  <2> HIDE DEF collected
  <2> QED
    BY <1>1, <1>6b, <2>1, <2>2 DEF BatchOK
<1>10. ExecutingIsInBatch'
  <2> HIDE DEF due
  <2>1. \A a \in Actions : act[a].status # "Executing"
    BY <1>2, <1>3 DEF BatchInv, ExecutingIsInBatch
  <2>2. \A a \in Actions : act'[a].status = "Executing" => a \in due
    BY <1>7, <2>1
  <2>3. \A a \in due : \E r \in collected : r.ref = a
    <3> SUFFICES ASSUME NEW a \in due PROVE \E r \in collected : r.ref = a
      OBVIOUS
    <3>1. PICK i \in DOMAIN delayed : delayed[i] = a
      BY <1>7, <1>8
    <3>2. [index |-> i, ref |-> delayed[i]] \in collected
      BY <3>1
    <3> QED
      BY <3>1, <3>2
  <2> HIDE DEF collected
  <2> QED
    BY <1>6a, <1>6b, <2>2, <2>3 DEF ExecutingIsInBatch
<1>11. MarkedIsDropped' /\ NotLostBeforeRunning'
  <2> HIDE DEF due
  <2> QED
    BY <1>1, <1>7 DEF BatchInv, MarkedIsDropped, NotLostBeforeRunning
<1> QED
  BY <1>6a, <1>9, <1>10, <1>11, OnePassAfter

\* Phase 2 begins the callback of a collected action.
LEMMA RunBatch ==
    ASSUME TypeOK, BatchInv, RunNext
    PROVE  BatchInv'
<1>1. stack # <<>> /\ Top.stage = "delayed" /\ UNCHANGED <<act, delayed, dropped>>
  BY DEF RunNext, queues
<1>2. Top \in Frame /\ BatchOK(Top) /\ Top = stack[1] /\ DOMAIN stack = {1}
  BY <1>1, SinglePass
<1>3. PICK r \in Top.ready \ Top.ran :
         /\ SetTop([Top EXCEPT !.ran = @ \cup {r}, !.running = TRUE])
         /\ started' = [started EXCEPT ![r.ref] = IF @ = 2 THEN 2 ELSE @ + 1]
  BY DEF RunNext
<1> DEFINE f == [Top EXCEPT !.ran = @ \cup {r}, !.running = TRUE]
<1>4. r \in ReadyExec /\ r.ref \in Actions /\ \A s \in Top.ran : s.ref \in Actions
  BY <1>2, <1>3 DEF Frame, ReadyExec
<1>5. f \in Frame /\ f.ready = Top.ready /\ f.ran = Top.ran \cup {r} /\ f.stage = "delayed"
  BY <1>1, <1>2, <1>4 DEF Frame
<1>6. PICK g \in Frame : g = f
  BY <1>5
<1>6a. SetTop(f)
  BY <1>3
<1> HIDE DEF f
<1>6b. Len(stack') = 1 /\ DOMAIN stack' = {1} /\ stack'[1] = g
  BY <1>1, <1>6, <1>6a, SinglePass
<1>6c. g.ready = Top.ready /\ g.ran = Top.ran \cup {r} /\ g.stage = "delayed"
  BY <1>5, <1>6
<1>7. \A a \in Actions : started'[a] >= started[a] /\ started[a] \in Nat /\ started'[a] \in Nat
  BY <1>3, <1>4 DEF TypeOK
<1>8. started'[r.ref] > 0
  BY <1>3, <1>4 DEF TypeOK
<1>9. BatchOK(g)'
  <2>1. \A s \in g.ran : started'[s.ref] > 0
    BY <1>2, <1>4, <1>6c, <1>7, <1>8 DEF BatchOK
  <2>2. g.ran \subseteq g.ready
    BY <1>2, <1>3, <1>6c DEF BatchOK
  <2>3. \A s \in g.ready :
           /\ s.index \in DOMAIN delayed'
           /\ delayed'[s.index] = s.ref
           /\ act'[s.ref].status \notin {"Free", "Gone"}
    BY <1>1, <1>2, <1>6c DEF BatchOK
  <2> QED
    BY <1>6c, <2>1, <2>2, <2>3 DEF BatchOK
<1>10. ExecutingIsInBatch'
  BY <1>1, <1>2, <1>6b, <1>6c DEF BatchInv, ExecutingIsInBatch
<1>11. MarkedIsDropped' /\ NotLostBeforeRunning'
  BY <1>1, <1>7 DEF BatchInv, MarkedIsDropped, NotLostBeforeRunning
<1> QED
  BY <1>6b, <1>9, <1>10, <1>11, OnePassAfter

\* Phase 3 settles exactly the actions that ran.
LEMMA FinishBatchBatch ==
    ASSUME TypeOK, BatchInv, FinishBatch
    PROVE  BatchInv'
<1> DEFINE settled == [a \in Actions |-> IF a \in Found(Top) THEN Settled(act[a]) ELSE act[a]]
           erased == {a \in {delayed[i] : i \in DOMAIN delayed} :
                         settled[a].status = "PendingRemoval"}
           f == [Top EXCEPT !.stage = "settled", !.ready = {}, !.ran = {}]
<1>1. /\ stack # <<>> /\ Top.ready = Top.ran /\ SetTop(f)
      /\ act' = [a \in Actions |->
            IF a \in erased THEN [settled[a] EXCEPT !.status = "Gone"] ELSE settled[a]]
      /\ UNCHANGED <<started, dropped>>
  BY DEF FinishBatch, history
<1>2. Top \in Frame /\ BatchOK(Top) /\ Top = stack[1] /\ DOMAIN stack = {1}
  BY <1>1, SinglePass
<1>3. f \in Frame /\ f.ready = {} /\ f.ran = {} /\ f.stage = "settled"
  BY <1>2 DEF Frame, Stages
<1> HIDE DEF f
<1>4. PICK g \in Frame : g = f
  BY <1>3
<1>4a. Len(stack') = 1 /\ DOMAIN stack' = {1} /\ stack'[1] = g
  BY <1>1, <1>4, SinglePass
<1>5. BatchOK(g)'
  <2>1. g.ready = {} /\ g.ran = {}
    BY <1>3, <1>4
  <2> QED
    BY <2>1 DEF BatchOK
<1>6. \A a \in Found(Top) : \E r \in Top.ran : r.ref = a
  BY <1>1, <1>2 DEF Found, Positions, BatchOK
<1>7. \A a \in Actions : act[a].status = "Executing" => a \in Found(Top)
  BY <1>2 DEF BatchInv, ExecutingIsInBatch, Found, Positions, BatchOK
<1>8. \A x \in ActionRecord :
         /\ Settled(x) \in ActionRecord
         /\ Settled(x).status \in {"PendingRemoval", "Paused", "Active"}
  <2>1. \A x \in ActionRecord : Settled(x).status \in {"PendingRemoval", "Paused", "Active"}
    BY DEF Settled, ActionRecord
  <2> QED
    BY <2>1, SettledType
<1>9. ASSUME NEW a \in Actions
      PROVE  /\ settled[a] \in ActionRecord
             /\ settled[a].status # "Executing"
             /\ settled[a].status = "Gone" => act[a].status = "Gone"
             /\ settled[a].status = "PendingRemoval" => started[a] > 0 \/ a \in dropped
  <2>1. act[a] \in ActionRecord
    BY DEF TypeOK
  <2>2. CASE a \in Found(Top)
    <3>1. settled[a] = Settled(act[a])
      BY <2>2
    <3>2. started[a] > 0
      BY <1>2, <1>6, <2>2 DEF BatchOK
    <3> QED
      BY <1>8, <2>1, <3>1, <3>2
  <2>3. CASE a \notin Found(Top)
    <3>1. settled[a] = act[a]
      BY <2>3
    <3> QED
      BY <1>7, <2>1, <2>3, <3>1 DEF BatchInv, MarkedIsDropped
  <2> QED
    BY <2>2, <2>3
<1>10. \A a \in erased : a \in Actions /\ settled[a].status = "PendingRemoval"
  BY LenProperties, ElementOfSeq DEF TypeOK
<1>11. \A i \in DOMAIN delayed : delayed[i] \in Actions
  BY LenProperties, ElementOfSeq DEF TypeOK
<1>12. \A a \in Actions : a \notin erased /\ settled[a].status = "PendingRemoval" => a \in dropped
  <2> SUFFICES ASSUME NEW a \in Actions, a \notin erased, settled[a].status = "PendingRemoval"
               PROVE  a \in dropped
    OBVIOUS
  <2>1. a \notin {delayed[i] : i \in DOMAIN delayed}
    OBVIOUS
  <2>2. a \notin Found(Top)
    BY <2>1 DEF Found
  <2> QED
    BY <2>2 DEF BatchInv, MarkedIsDropped
<1> HIDE DEF settled, erased
<1>13. ASSUME NEW a \in Actions
       PROVE  /\ act'[a].status # "Executing"
              /\ act'[a].status = "PendingRemoval" => a \in dropped
              /\ act'[a].status = "Gone" => act[a].status = "Gone" \/ started[a] > 0 \/ a \in dropped
  <2>1. CASE a \in erased
    <3>1. act'[a] = [settled[a] EXCEPT !.status = "Gone"]
      BY <1>1, <2>1
    <3>2. act'[a].status = "Gone"
      BY <1>9, <3>1 DEF ActionRecord
    <3> QED
      BY <1>9, <1>10, <2>1, <3>2
  <2>2. CASE a \notin erased
    <3>1. act'[a] = settled[a]
      BY <1>1, <2>2
    <3> QED
      BY <1>9, <1>12, <2>2, <3>1
  <2> QED
    BY <2>1, <2>2
<1>14. ExecutingIsInBatch' /\ MarkedIsDropped' /\ NotLostBeforeRunning'
  BY <1>1, <1>13 DEF BatchInv, ExecutingIsInBatch, MarkedIsDropped, NotLostBeforeRunning
<1> QED
  BY <1>4a, <1>5, <1>14, OnePassAfter

-----------------------------------------------------------------------------
(* The steps of no pass.                                                     *)

LEMMA ClockBatch ==
    ASSUME TypeOK, BatchInv, Clock
    PROVE  BatchInv'
<1>1. \A a \in Actions : act[a] \in ActionRecord
  BY DEF TypeOK
<1>2. \A a \in Actions : act'[a] = act[a] \/ act'[a] = [act[a] EXCEPT !.left = @ - 1]
  BY DEF Clock
<1>3. \A a \in Actions : act'[a].status = act[a].status
  BY <1>1, <1>2 DEF ActionRecord
<1>4. UNCHANGED <<delayed, stack, started, dropped>>
  BY DEF Clock, queues, history
<1> QED
  BY <1>3, <1>4, StackKept

\* A call that makes handles changes no action.
LEMMA MakeBatch ==
    ASSUME TypeOK, BatchInv,
           UnlockedMakeWrite \/ \E m \in Mods : MakeActionHandle(m) \/ UnlockedMakeRead(m)
    PROVE  BatchInv'
<1>1. UNCHANGED <<act, delayed, stack, started, dropped>>
  BY DEF UnlockedMakeWrite, UnlockedMakeRead, MakeActionHandle, ApiCall, queues, history
<1> QED
  BY <1>1, StackKept

\* A call that creates an action appends it.
LEMMA CreateBatch ==
    ASSUME TypeOK, BatchInv, NEW a \in Actions, NEW x \in ActionRecord, Created(a, x)
    PROVE  BatchInv'
<1>1. Enqueue(a, x) /\ x.status = "Active" /\ UNCHANGED <<stack, started, dropped>>
  BY DEF Created
<1>2. \A b \in Actions : act'[b] = act[b] \/ act'[b].status = "Active"
  BY <1>1 DEF Enqueue, TypeOK
<1>3. \A i \in DOMAIN delayed : i \in DOMAIN delayed' /\ delayed'[i] = delayed[i]
  <2>1. \A i \in DOMAIN delayed :
           i \in DOMAIN Append(delayed, a) /\ Append(delayed, a)[i] = delayed[i]
    BY AppendProperties, LenProperties DEF TypeOK
  <2> QED
    BY <1>1, <2>1 DEF Enqueue
<1>4. \A b \in Actions :
         /\ act'[b].status = "Executing" => act[b].status = "Executing"
         /\ act'[b].status = "PendingRemoval" => act[b].status = "PendingRemoval"
         /\ act'[b].status = "Gone" => act[b].status = "Gone"
         /\ act[b].status \notin {"Free", "Gone"} => act'[b].status \notin {"Free", "Gone"}
  BY <1>2
<1> QED
  BY <1>1, <1>3, <1>4, StackKept

\* A call that controls an action does not select or erase it, and records it
\* when it marks it.
LEMMA ControlBatch ==
    ASSUME TypeOK, BatchInv, Controlled
    PROVE  BatchInv'
<1>1. UNCHANGED <<stack, started, delayed>> /\ dropped \subseteq dropped'
  BY DEF Controlled
<1>2. \A b \in Actions :
         /\ act'[b].status = "Executing" => act[b].status = "Executing"
         /\ act'[b].status = "PendingRemoval" => act[b].status = "PendingRemoval" \/ b \in dropped'
         /\ act'[b].status = "Gone" => act[b].status = "Gone"
         /\ act[b].status \notin {"Free", "Gone"} => act'[b].status \notin {"Free", "Gone"}
  BY DEF Controlled, Live
<1> QED
  BY <1>1, <1>2, StackKept

\* uninstall waits for the mutex, so it finds no batch in progress.
LEMMA UninstallBatch ==
    ASSUME TypeOK, BatchInv, NEW m \in Mods, Uninstall(m)
    PROVE  BatchInv'
<1> DEFINE mine == {a \in Actions : act[a].owner = m /\ act[a].status # "Gone"}
<1>1. /\ act' = [a \in Actions |-> IF a \in mine THEN [act[a] EXCEPT !.status = "Gone"] ELSE act[a]]
      /\ dropped' = dropped \cup mine
      /\ UNCHANGED <<stack, started>>
  BY DEF Uninstall
<1>2. \A i \in DOMAIN stack : stack[i].ready = {} /\ stack[i].ran = {}
  BY DEF Uninstall, MutexFree, BatchInv, BatchOK
<1> HIDE DEF mine
<1>3. \A i \in DOMAIN stack : BatchOK(stack[i])'
  BY <1>2, <1>1 DEF BatchOK
<1>4. ASSUME NEW a \in Actions
      PROVE  \/ a \in mine /\ act'[a].status = "Gone"
             \/ a \notin mine /\ act'[a] = act[a]
  <2>1. [act[a] EXCEPT !.status = "Gone"].status = "Gone"
    BY DEF TypeOK, ActionRecord
  <2> QED
    BY <1>1, <2>1
<1>5. \A a \in Actions : act[a].status # "Executing"
  BY <1>2 DEF BatchInv, ExecutingIsInBatch
<1>6. ExecutingIsInBatch' /\ MarkedIsDropped' /\ NotLostBeforeRunning'
  BY <1>1, <1>4, <1>5 DEF BatchInv, ExecutingIsInBatch, MarkedIsDropped, NotLostBeforeRunning
<1> QED
  BY <1>1, <1>3, <1>6 DEF BatchInv

\* The batches are safe in every reachable state.
LEMMA AlwaysBatch ==
    ASSUME "ProcessEvent" \notin Hooks
    PROVE  Spec => []BatchInv
<1>1. Init => BatchInv
  <2> SUFFICES ASSUME Init PROVE BatchInv
    OBVIOUS
  <2>1. \A a \in Actions : act[a].status = "Free"
    BY DEF Init, Blank
  <2>2. DOMAIN stack = {} /\ Len(stack) = 0
    BY EmptySeq, LenProperties DEF Init
  <2> QED
    BY <2>1, <2>2 DEF BatchInv, ExecutingIsInBatch, MarkedIsDropped, NotLostBeforeRunning
<1>2. TypeOK /\ BatchInv /\ [Next]_vars => BatchInv'
  <2> SUFFICES ASSUME TypeOK, BatchInv, [Next]_vars PROVE BatchInv'
    OBVIOUS
  <2>1. CASE GameThread
    BY <2>1, PassBatch, EnterBatch, ExitBatch, SelectBatch, RunBatch, FinishBatchBatch, MakeBatch
       DEF GameThread
  <2>2. CASE Api
    BY <2>2, ApiCases, MakeBatch, CreateBatch, ControlBatch, UninstallBatch
  <2>3. CASE Clock
    BY <2>3, ClockBatch
  <2>4. CASE UNCHANGED vars
    <3>1. UNCHANGED <<act, delayed, stack, started, dropped>>
      BY <2>4 DEF vars
    <3> QED
      BY <3>1, StackKept
  <2> QED
    BY <2>1, <2>2, <2>3, <2>4 DEF Next
<1> QED
  BY <1>1, <1>2, TypeCorrect, PTL DEF Spec

-----------------------------------------------------------------------------
(* A one-shot action is called once.                                         *)

\* The batch in progress called the action; it collected the action.
Ran(a) == \E i \in DOMAIN stack : \E r \in stack[i].ran : r.ref = a
Collected(a) == \E i \in DOMAIN stack : \E r \in stack[i].ready : r.ref = a

\* A one-shot action that was called is in the batch that called it, and
\* afterwards it is out of reach of every later batch.
OnceInv ==
    /\ \A a \in Actions : act[a].pauseAfter => act[a].looping
    /\ \A a \in Actions : act[a].status = "Free" => started[a] = 0
    /\ \A a \in Actions : ~act[a].looping =>
          \/ started[a] = 0
          \/ /\ started[a] = 1
             /\ Ran(a) \/ (act[a].status \in {"PendingRemoval", "Gone"} /\ ~Collected(a))

\* A step that collects and calls nothing and revives no action.
LEMMA OnceKept ==
    ASSUME OnceInv, UNCHANGED started,
           \A a \in Actions :
              /\ Ran(a) => Ran(a)'
              /\ Collected(a)' => Collected(a)
              /\ act'[a].looping = act[a].looping
              /\ act'[a].pauseAfter => act[a].pauseAfter \/ act[a].looping
              /\ act'[a].status = "Free" => act[a].status = "Free"
              /\ act[a].status \in {"PendingRemoval", "Gone"} =>
                    act'[a].status \in {"PendingRemoval", "Gone"}
    PROVE  OnceInv'
  BY DEF OnceInv

\* The steps that move the pass on.
LEMMA PassOnce ==
    ASSUME TypeOK, BatchInv, OnceInv,
           \/ SimpleCallbackBegin \/ SimpleCallbackEnd \/ CallbackReturn
           \/ NotifyCallbackBegin \/ NotifyCallbackEnd
    PROVE  OnceInv'
<1>1. /\ stack # <<>> /\ UNCHANGED <<act, started>>
  BY DEF SimpleCallbackBegin, SimpleCallbackEnd, CallbackReturn, NotifyCallbackBegin,
         NotifyCallbackEnd, history
<1>2. Top \in Frame /\ DOMAIN stack = {1} /\ Top = stack[1]
  BY <1>1, SinglePass
<1>3. ASSUME NEW f \in Frame, SetTop(f), f.ready = Top.ready, f.ran = Top.ran
      PROVE  OnceInv'
  <2>1. DOMAIN stack' = {1} /\ stack'[1] = f
    BY <1>1, <1>3, SinglePass
  <2>2. \A a \in Actions : (Ran(a) => Ran(a)') /\ (Collected(a)' => Collected(a))
    BY <1>2, <1>3, <2>1 DEF Ran, Collected
  <2> QED
    BY <1>1, <2>2, OnceKept
<1>4. ASSUME NEW st \in Stages, SetTop([Top EXCEPT !.stage = st])
      PROVE  OnceInv'
  <2> DEFINE f == [Top EXCEPT !.stage = st]
  <2>1. f \in Frame /\ f.ready = Top.ready /\ f.ran = Top.ran
    BY <1>2 DEF Frame
  <2> QED
    BY <1>3, <1>4, <2>1
<1>5. ASSUME SetTop([Top EXCEPT !.running = FALSE])
      PROVE  OnceInv'
  <2> DEFINE f == [Top EXCEPT !.running = FALSE]
  <2>1. f \in Frame /\ f.ready = Top.ready /\ f.ran = Top.ran
    BY <1>2 DEF Frame
  <2> QED
    BY <1>3, <1>5, <2>1
<1> QED
  BY <1>4, <1>5 DEF SimpleCallbackBegin, SimpleCallbackEnd, CallbackReturn,
     NotifyCallbackBegin, NotifyCallbackEnd, Stages

\* A pass begins and ends with nothing collected.
LEMMA EnterExitOnce ==
    ASSUME TypeOK, BatchInv, "ProcessEvent" \notin Hooks, OnceInv,
           HookExit \/ \E h \in Hooks : HookEnter(h)
    PROVE  OnceInv'
<1>1. UNCHANGED <<act, started>>
  BY DEF HookEnter, HookExit, history
<1>2. CASE HookExit
  <2>1. DOMAIN stack = {1} /\ BatchOK(stack[1]) /\ Len(stack) = 1 /\ Top = stack[1]
    BY <1>2, SinglePass DEF HookExit
  <2>2. stack[1].ran = {} /\ DOMAIN stack' = {}
    BY <1>2, <2>1 DEF HookExit, BatchOK
  <2>3. \A a \in Actions : ~Ran(a) /\ ~Collected(a)'
    BY <2>1, <2>2 DEF Ran, Collected
  <2> QED
    BY <1>1, <2>3, OnceKept
<1>3. ASSUME NEW h \in Hooks, HookEnter(h)
      PROVE  OnceInv'
  <2> DEFINE f == [hook |-> h, stage |-> "enter", ready |-> {}, ran |-> {}, running |-> FALSE]
  <2>1. stack = <<>> /\ stack' = Append(stack, f)
    BY <1>3 DEF HookEnter
  <2>2. f.ready = {}
    OBVIOUS
  <2> HIDE DEF f
  <2>3. <<>> \in Seq({f}) /\ Len(<<>>) = 0 /\ DOMAIN <<>> = {} /\ f \in {f}
    BY EmptySeq
  <2>4. stack' \in Seq({f}) /\ Len(stack') = 1 /\ stack'[1] = f
    BY <2>1, <2>3, AppendProperties
  <2>5. DOMAIN stack' = {1}
    BY <2>4, LenProperties
  <2>6. \A a \in Actions : ~Ran(a) /\ ~Collected(a)'
    BY <2>1, <2>2, <2>3, <2>4, <2>5 DEF Ran, Collected
  <2> QED
    BY <1>1, <2>6, OnceKept
<1> QED
  BY <1>2, <1>3

\* Phase 1 collects active actions: none that was called before.
LEMMA SelectOnce ==
    ASSUME TypeOK, BatchInv, OnceInv, SelectReady
    PROVE  OnceInv'
<1> DEFINE due == {a \in Actions : Examined(a) /\ Due(a) /\ ~executing}
           collected == {[index |-> i, ref |-> delayed[i]] :
                            i \in {j \in DOMAIN delayed : delayed[j] \in due}}
           f == [Top EXCEPT !.stage = "delayed", !.ready = collected]
<1>1. /\ stack # <<>> /\ Top.stage # "delayed" /\ SetTop(f) /\ UNCHANGED started
  BY DEF SelectReady, history
<1>2. Top \in Frame /\ BatchOK(Top) /\ Top = stack[1] /\ DOMAIN stack = {1}
  BY <1>1, SinglePass
<1>3. Top.ready = {} /\ Top.ran = {}
  BY <1>1, <1>2 DEF BatchOK
<1>4. collected \in SUBSET ReadyExec
  BY LenProperties DEF ReadyExec, TypeOK
<1>5. f \in Frame /\ f.ready = collected
  BY <1>2, <1>4 DEF Frame, Stages
<1>6. \A r \in collected : r.ref \in due
  OBVIOUS
<1> HIDE DEF f, collected
<1>7. DOMAIN stack' = {1} /\ stack'[1] = f
  BY <1>1, <1>5, SinglePass
<1>8. ASSUME NEW a \in Actions
      PROVE  /\ act'[a].looping = act[a].looping
             /\ act'[a].pauseAfter = act[a].pauseAfter
             /\ act'[a].status = IF a \in due THEN "Executing" ELSE act[a].status
  <2>1. act[a] \in ActionRecord
    BY DEF TypeOK
  <2>2. /\ a \in due => act'[a] = [act[a] EXCEPT !.status = "Executing", !.left = 0]
        /\ a \notin due => act'[a] = act[a] \/ act'[a] = [act[a] EXCEPT !.left = @ - 1]
    BY DEF SelectReady
  <2> HIDE DEF due
  <2> QED
    BY <2>1, <2>2 DEF ActionRecord
<1>9. \A a \in Actions : ~Ran(a)
  BY <1>2, <1>3 DEF Ran
<1>10. \A a \in due : act[a].status = "Active"
  BY DEF Examined
<1>11. \A a \in Actions : Collected(a)' => a \in due
  BY <1>5, <1>6, <1>7 DEF Collected
<1> HIDE DEF due
<1>12. ASSUME NEW a \in Actions, ~act'[a].looping
       PROVE  \/ started'[a] = 0
              \/ /\ started'[a] = 1
                 /\ act'[a].status \in {"PendingRemoval", "Gone"} /\ ~Collected(a)'
  <2>1. CASE a \in due
    BY <1>1, <1>8, <1>9, <1>10, <1>12, <2>1 DEF OnceInv
  <2>2. CASE a \notin due
    BY <1>1, <1>8, <1>9, <1>11, <1>12, <2>2 DEF OnceInv
  <2> QED
    BY <2>1, <2>2
<1> QED
  BY <1>1, <1>8, <1>12 DEF OnceInv

\* Phase 2 calls an action that the batch did not call yet: it is in the vector
\* once, so the batch collected it once.
LEMMA RunOnce ==
    ASSUME TypeOK, QueueInv, BatchInv, OnceInv, RunNext
    PROVE  OnceInv'
<1>1. stack # <<>> /\ UNCHANGED act
  BY DEF RunNext
<1>2. Top \in Frame /\ BatchOK(Top) /\ Top = stack[1] /\ DOMAIN stack = {1}
  BY <1>1, SinglePass
<1>3. PICK r \in Top.ready \ Top.ran :
         /\ SetTop([Top EXCEPT !.ran = @ \cup {r}, !.running = TRUE])
         /\ started' = [started EXCEPT ![r.ref] = IF @ = 2 THEN 2 ELSE @ + 1]
  BY DEF RunNext
<1> DEFINE f == [Top EXCEPT !.ran = @ \cup {r}, !.running = TRUE]
<1>4. r \in ReadyExec /\ r.ref \in Actions
  BY <1>2, <1>3 DEF Frame, ReadyExec
<1>5. f \in Frame /\ f.ready = Top.ready /\ f.ran = Top.ran \cup {r}
  BY <1>2, <1>4 DEF Frame
<1>6. SetTop(f)
  BY <1>3
<1> HIDE DEF f
<1>7. DOMAIN stack' = {1} /\ stack'[1] = f
  BY <1>1, <1>5, <1>6, SinglePass
<1>8. \A s \in Top.ran : s.ref # r.ref
  <2> SUFFICES ASSUME NEW s \in Top.ran, s.ref = r.ref PROVE FALSE
    OBVIOUS
  <2>1. s \in Top.ready /\ s \in ReadyExec
    BY <1>2 DEF Frame, BatchOK
  <2>2. /\ s.index \in DOMAIN delayed /\ r.index \in DOMAIN delayed
        /\ delayed[s.index] = delayed[r.index]
    BY <1>2, <1>3, <2>1 DEF BatchOK
  <2>3. s.index = r.index
    BY <2>2 DEF QueueInv, Distinct
  <2>4. s = r
    BY <1>4, <2>1, <2>3 DEF ReadyExec
  <2> QED
    BY <1>3, <2>4
<1>9. ~Ran(r.ref) /\ Collected(r.ref)
  BY <1>2, <1>3, <1>8 DEF Ran, Collected
<1>10. ~act[r.ref].looping => started[r.ref] = 0
  BY <1>4, <1>9 DEF OnceInv
<1>11. act[r.ref].status # "Free"
  BY <1>2, <1>3 DEF BatchOK
<1>12. Ran(r.ref)'
  BY <1>5, <1>7 DEF Ran
<1>13. /\ ~act[r.ref].looping => started'[r.ref] = 1
       /\ \A a \in Actions : a # r.ref => started'[a] = started[a]
  BY <1>3, <1>4, <1>10 DEF TypeOK
<1>14. \A a \in Actions : (Ran(a) => Ran(a)') /\ (Collected(a)' => Collected(a))
  BY <1>2, <1>5, <1>7 DEF Ran, Collected
<1>15. ASSUME NEW a \in Actions, ~act'[a].looping
       PROVE  \/ started'[a] = 0
              \/ /\ started'[a] = 1
                 /\ Ran(a)' \/ (act'[a].status \in {"PendingRemoval", "Gone"} /\ ~Collected(a)')
  <2>1. CASE a = r.ref
    BY <1>1, <1>12, <1>13, <1>15, <2>1
  <2>2. CASE a # r.ref
    BY <1>1, <1>13, <1>14, <1>15, <2>2 DEF OnceInv
  <2> QED
    BY <2>1, <2>2
<1>16. \A a \in Actions : act'[a].status = "Free" => started'[a] = 0
  BY <1>1, <1>4, <1>11, <1>13 DEF OnceInv
<1>17. \A a \in Actions : act'[a].pauseAfter => act'[a].looping
  BY <1>1 DEF OnceInv
<1> QED
  BY <1>15, <1>16, <1>17 DEF OnceInv

\* Phase 3 marks or erases every one-shot action that the batch called, even
\* if the callback re-armed it.
LEMMA FinishOnce ==
    ASSUME TypeOK, BatchInv, OnceInv, FinishBatch
    PROVE  OnceInv'
<1> DEFINE settled == [a \in Actions |-> IF a \in Found(Top) THEN Settled(act[a]) ELSE act[a]]
           erased == {a \in {delayed[i] : i \in DOMAIN delayed} :
                         settled[a].status = "PendingRemoval"}
           f == [Top EXCEPT !.stage = "settled", !.ready = {}, !.ran = {}]
<1>1. /\ stack # <<>> /\ Top.ready = Top.ran /\ SetTop(f)
      /\ act' = [a \in Actions |->
            IF a \in erased THEN [settled[a] EXCEPT !.status = "Gone"] ELSE settled[a]]
      /\ UNCHANGED started
  BY DEF FinishBatch, history
<1>2. Top \in Frame /\ BatchOK(Top) /\ Top = stack[1] /\ DOMAIN stack = {1}
  BY <1>1, SinglePass
<1>3. f \in Frame /\ f.ready = {} /\ f.ran = {}
  BY <1>2 DEF Frame, Stages
<1> HIDE DEF f
<1>4. DOMAIN stack' = {1} /\ stack'[1] = f
  BY <1>1, <1>3, SinglePass
<1>5. \A a \in Actions : ~Collected(a)'
  BY <1>3, <1>4 DEF Collected
<1>6. \A a \in Actions : Ran(a) => a \in Found(Top)
  BY <1>2 DEF Ran, Found, Positions, BatchOK
<1>7. \A a \in Found(Top) : act[a].status \notin {"Free", "Gone"}
  BY <1>1, <1>2 DEF Found, Positions, BatchOK
<1>8. \A x \in ActionRecord :
         /\ Settled(x) \in ActionRecord
         /\ Settled(x).looping = x.looping
         /\ Settled(x).pauseAfter => x.pauseAfter
         /\ Settled(x).status # "Free" \/ x.status = "Free"
         /\ ~x.looping /\ ~x.pauseAfter => Settled(x).status = "PendingRemoval"
         /\ x.status = "PendingRemoval" => Settled(x).status = "PendingRemoval"
  BY SettledType DEF Settled, ActionRecord
<1>9. ASSUME NEW a \in Actions
      PROVE  /\ settled[a] \in ActionRecord
             /\ settled[a].looping = act[a].looping
             /\ settled[a].pauseAfter => act[a].pauseAfter
             /\ settled[a].status = "Free" => act[a].status = "Free"
             /\ ~act[a].looping /\ Ran(a) => settled[a].status = "PendingRemoval"
             /\ act[a].status \in {"PendingRemoval", "Gone"} =>
                   settled[a].status \in {"PendingRemoval", "Gone"}
  <2>1. act[a] \in ActionRecord /\ (act[a].pauseAfter => act[a].looping)
    BY DEF TypeOK, OnceInv
  <2>2. CASE a \in Found(Top)
    <3>1. settled[a] = Settled(act[a])
      BY <2>2
    <3> HIDE DEF settled
    <3> QED
      BY <1>7, <1>8, <2>1, <2>2, <3>1
  <2>3. CASE a \notin Found(Top)
    <3>1. settled[a] = act[a]
      BY <2>3
    <3> HIDE DEF settled
    <3> QED
      BY <1>6, <2>1, <2>3, <3>1
  <2> QED
    BY <2>2, <2>3
<1> HIDE DEF settled, erased
<1>10. \A x \in ActionRecord :
          /\ [x EXCEPT !.status = "Gone"].status = "Gone"
          /\ [x EXCEPT !.status = "Gone"].looping = x.looping
          /\ [x EXCEPT !.status = "Gone"].pauseAfter = x.pauseAfter
  BY DEF ActionRecord
<1>11. ASSUME NEW a \in Actions
       PROVE  /\ act'[a].looping = act[a].looping
              /\ act'[a].pauseAfter => act[a].pauseAfter
              /\ act'[a].status = "Free" => act[a].status = "Free"
              /\ ~act[a].looping /\ Ran(a) => act'[a].status \in {"PendingRemoval", "Gone"}
              /\ act[a].status \in {"PendingRemoval", "Gone"} =>
                    act'[a].status \in {"PendingRemoval", "Gone"}
  <2>1. CASE a \in erased
    <3>1. act'[a] = [settled[a] EXCEPT !.status = "Gone"]
      BY <1>1, <2>1
    <3> QED
      BY <1>9, <1>10, <3>1
  <2>2. CASE a \notin erased
    <3>1. act'[a] = settled[a]
      BY <1>1, <2>2
    <3> QED
      BY <1>9, <3>1
  <2> QED
    BY <2>1, <2>2
<1> QED
  BY <1>1, <1>5, <1>11 DEF OnceInv

\* A new action was never called; the other calls revive none.
LEMMA CreateOnce ==
    ASSUME TypeOK, BatchInv, OnceInv, NEW a \in Actions, NEW x \in ActionRecord, Created(a, x)
    PROVE  OnceInv'
<1>1. /\ act'[a] = x /\ act[a].status = "Free" /\ x.status = "Active" /\ ~x.pauseAfter
      /\ \A b \in Actions : b # a => act'[b] = act[b]
      /\ UNCHANGED <<stack, started>>
  BY DEF Created, Enqueue, TypeOK
<1>2. started[a] = 0
  BY <1>1 DEF OnceInv
<1>3. \A b \in Actions : Ran(b)' = Ran(b) /\ Collected(b)' = Collected(b)
  BY <1>1 DEF Ran, Collected
<1> QED
  BY <1>1, <1>2, <1>3 DEF OnceInv

LEMMA UninstallOnce ==
    ASSUME TypeOK, OnceInv, NEW m \in Mods, Uninstall(m)
    PROVE  OnceInv'
<1>1. /\ UNCHANGED <<stack, started>>
      /\ \A a \in Actions : act'[a] = act[a] \/ act'[a] = [act[a] EXCEPT !.status = "Gone"]
  BY DEF Uninstall
<1>2. \A x \in ActionRecord :
         /\ [x EXCEPT !.status = "Gone"].status = "Gone"
         /\ [x EXCEPT !.status = "Gone"].looping = x.looping
         /\ [x EXCEPT !.status = "Gone"].pauseAfter = x.pauseAfter
  BY DEF ActionRecord
<1>3. \A a \in Actions :
         /\ act'[a].looping = act[a].looping
         /\ act'[a].pauseAfter = act[a].pauseAfter
         /\ act'[a].status = act[a].status \/ act'[a].status = "Gone"
  <2> SUFFICES ASSUME NEW a \in Actions
               PROVE  /\ act'[a].looping = act[a].looping
                      /\ act'[a].pauseAfter = act[a].pauseAfter
                      /\ act'[a].status = act[a].status \/ act'[a].status = "Gone"
    OBVIOUS
  <2>1. act[a] \in ActionRecord
    BY DEF TypeOK
  <2>2. CASE act'[a] = act[a]
    BY <2>2
  <2>3. CASE act'[a] = [act[a] EXCEPT !.status = "Gone"]
    BY <1>2, <2>1, <2>3
  <2> QED
    BY <1>1, <2>2, <2>3
<1>4. \A b \in Actions : Ran(b)' = Ran(b) /\ Collected(b)' = Collected(b)
  BY <1>1 DEF Ran, Collected
<1> QED
  BY <1>1, <1>3, <1>4, OnceKept

\* The steps of no pass that rewrite actions in place.
LEMMA RestOnce ==
    ASSUME TypeOK, OnceInv,
           \/ Controlled \/ Clock \/ UNCHANGED vars
           \/ UnlockedMakeWrite \/ \E m \in Mods : MakeActionHandle(m) \/ UnlockedMakeRead(m)
    PROVE  OnceInv'
<1>1. UNCHANGED <<stack, started>>
  BY DEF Controlled, Clock, UnlockedMakeWrite, UnlockedMakeRead, MakeActionHandle, ApiCall,
         history, vars
<1>2. \A b \in Actions : Ran(b)' = Ran(b) /\ Collected(b)' = Collected(b)
  BY <1>1 DEF Ran, Collected
<1>3. CASE Controlled
  <2>1. \A a \in Actions :
           /\ act'[a].looping = act[a].looping
           /\ act'[a].pauseAfter => act[a].pauseAfter \/ act[a].looping
           /\ act'[a].status = "Free" => act[a].status = "Free"
           /\ act[a].status \in {"PendingRemoval", "Gone"} =>
                 act'[a].status \in {"PendingRemoval", "Gone"}
    BY <1>3 DEF Controlled, Live
  <2> QED
    BY <1>1, <1>2, <2>1, OnceKept
<1>4. CASE Clock
  <2>1. \A a \in Actions : act'[a] = act[a] \/ act'[a] = [act[a] EXCEPT !.left = @ - 1]
    BY <1>4 DEF Clock
  <2>2. \A x \in ActionRecord :
           /\ [x EXCEPT !.left = @ - 1].status = x.status
           /\ [x EXCEPT !.left = @ - 1].looping = x.looping
           /\ [x EXCEPT !.left = @ - 1].pauseAfter = x.pauseAfter
    BY DEF ActionRecord
  <2>3. \A a \in Actions :
           /\ act'[a].looping = act[a].looping
           /\ act'[a].pauseAfter = act[a].pauseAfter
           /\ act'[a].status = act[a].status
    BY <2>1, <2>2 DEF TypeOK
  <2> QED
    BY <1>1, <1>2, <2>3, OnceKept
<1>5. CASE UNCHANGED act
  BY <1>1, <1>2, <1>5, OnceKept
<1> QED
  BY <1>3, <1>4, <1>5 DEF UnlockedMakeWrite, UnlockedMakeRead, MakeActionHandle, vars

-----------------------------------------------------------------------------

\* When no pass can nest, phase 3 finds at every collected position the action
\* that was collected there, and an action is Executing only while the batch
\* that will settle it is in progress: for all mods, actions and delays.
THEOREM BatchesSafe ==
    ASSUME "ProcessEvent" \notin Hooks
    PROVE  Spec => [](ReadyPositionsStable /\ ExecutingIsInBatch)
<1>1. BatchInv => ReadyPositionsStable /\ ExecutingIsInBatch
  BY BatchInvSafe
<1> QED
  BY <1>1, AlwaysBatch, PTL

\* Nor does a batch ever call a function whose reference a cancellation, a
\* clear or an uninstallation gave back while it was waiting in the batch.
THEOREM ReferencesHeld ==
    ASSUME "ProcessEvent" \notin Hooks
    PROVE  Spec => []NoReleasedCallback
<1>1. BatchInv => NoReleasedCallback
  BY BatchInvSafe
<1> QED
  BY <1>1, AlwaysBatch, PTL

\* Nor is an action erased that was neither called nor dropped by a mod.
THEOREM NothingLost ==
    ASSUME "ProcessEvent" \notin Hooks
    PROVE  Spec => []NotLostBeforeRunning
<1>1. BatchInv => NotLostBeforeRunning
  BY BatchInvSafe
<1> QED
  BY <1>1, AlwaysBatch, PTL

\* And a one-shot action is called at most once, whatever is called about it in
\* between, its own callback included.
THEOREM OneShotsOnce ==
    ASSUME "ProcessEvent" \notin Hooks
    PROVE  Spec => []OneShotRunsOnce
<1>1. Init => OnceInv
  <2> SUFFICES ASSUME Init PROVE OnceInv
    OBVIOUS
  <2>1. \A a \in Actions : started[a] = 0 /\ ~act[a].pauseAfter
    BY DEF Init, Blank
  <2> QED
    BY <2>1 DEF OnceInv
<1>2. TypeOK /\ QueueInv /\ BatchInv /\ OnceInv /\ [Next]_vars => OnceInv'
  <2> SUFFICES ASSUME TypeOK, QueueInv, BatchInv, OnceInv, [Next]_vars PROVE OnceInv'
    OBVIOUS
  <2>1. CASE GameThread
    BY <2>1, PassOnce, EnterExitOnce, SelectOnce, RunOnce, FinishOnce, RestOnce DEF GameThread
  <2>2. CASE Api
    BY <2>2, ApiCases, RestOnce, CreateOnce, UninstallOnce
  <2>3. CASE Clock
    BY <2>3, RestOnce
  <2>4. CASE UNCHANGED vars
    BY <2>4, RestOnce
  <2> QED
    BY <2>1, <2>2, <2>3, <2>4 DEF Next
<1>3. OnceInv => OneShotRunsOnce
  BY DEF OnceInv, OneShotRunsOnce
<1> QED
  BY <1>1, <1>2, <1>3, AlwaysBatch, AlwaysQueues, PTL DEF Spec
=============================================================================
