--------------------------- MODULE UpdateLoopProofs ---------------------------
(***************************************************************************)
(* Proofs about the update loop, for any number of mods, requests and      *)
(* notices: its types, the exclusion of the filesystem watcher, the event  *)
(* queue as an implementation of EventQueueContract, the absence of other  *)
(* circular waits than the known ones, and the lives of mod instances.     *)
(***************************************************************************)
EXTENDS UpdateLoop, FiniteSetTheorems, FunctionTheorems, SequenceTheorems,
        WellFoundedInduction, TLAPS

-----------------------------------------------------------------------------
(* The handshake of the watcher and the loop.                               *)

\* The handshake of Sync.cpp and Sync.hpp: which of the four values the two
\* threads can see at the points they have reached.
Handshake ==
    /\ watcher \in {"poll", "wait", "asleep", "section"}
    /\ watcher = "wait" => sync = "WaitForMain" \/ (sync = "WaitForOther" /\ phase = "await")
    /\ watcher = "asleep" => sync = "WaitForMain"
    /\ watcher = "section" => sync = "WaitForOther" /\ phase = "await"

SyncInv == overwritten \/ Handshake

LEMMA SyncInvInit == Init => SyncInv
  BY DEF Init, SyncInv, Handshake

\* The steps of an agenda leave the handshake alone (UE4SSProgram::update,
\* LuaMod::uninstall, start_mod).
LEMMA AgendaLeavesSync ==
  ASSUME NEW t, Step(t)
  PROVE  UNCHANGED <<sync, watcher, overwritten, phase>>
  BY DEF Step, LeaveLua, AppendEvent, SetPause, ScanMods, StopAsync, JoinAsync, CloseState, ChangeMods,
         StartMod, EnterLua, syncVars

\* The loop: its answer wakes the watcher, and Idle is stored only when the
\* watcher has completed or asks again, which is recorded (process_sync_request).
LEMMA LoopKeepsSync ==
  ASSUME SyncInv, LoopStep
  PROVE  SyncInv'
  <1>1. CASE StartLoop \/ Fetch \/ RunEvent \/ EndBatch \/ Input
    BY <1>1 DEF StartLoop, Fetch, RunEvent, EndBatch, Input, syncVars, SyncInv, Handshake
  <1>2. CASE Answer
    BY <1>2 DEF Answer, SyncInv, Handshake
  <1>3. CASE Awake
    BY <1>3 DEF Awake, syncVars, SyncInv, Handshake
  <1>4. CASE StoreIdle
    BY <1>4 DEF StoreIdle, SyncInv, Handshake
  <1> QED
    BY <1>1, <1>2, <1>3, <1>4 DEF LoopStep

\* The watcher: it works after an answer and completes before it asks again
\* (ScopedThreadSynchronizer).
LEMMA WatcherKeepsSync ==
  ASSUME SyncInv, Notice \/ WatcherStep
  PROVE  SyncInv'
  <1>1. CASE Notice
    BY <1>1 DEF Notice, SyncInv, Handshake
  <1>2. CASE FallAsleep
    BY <1>2 DEF FallAsleep, SyncInv, Handshake
  <1>3. CASE BeginSection
    BY <1>3 DEF BeginSection, SyncInv, Handshake
  <1>4. CASE EndSection
    BY <1>4 DEF EndSection, SyncInv, Handshake
  <1> QED
    BY <1>1, <1>2, <1>3, <1>4 DEF WatcherStep

LEMMA SyncInvNext == SyncInv /\ [Next]_vars => SyncInv'
  <1> SUFFICES ASSUME SyncInv, [Next]_vars PROVE SyncInv'
    OBVIOUS
  <1>1. CASE \E t \in Threads : Step(t)
    BY <1>1, AgendaLeavesSync DEF SyncInv, Handshake
  <1>2. CASE LoopStep
    BY <1>2, LoopKeepsSync
  <1>3. CASE WatcherStep \/ Notice
    BY <1>3, WatcherKeepsSync
  <1>4. CASE GuiRequest
    BY <1>4 DEF GuiRequest, syncVars, SyncInv, Handshake
  <1>5. CASE \E i \in Instances : CheckStop(i) \/ GameCallback(i)
    BY <1>5 DEF CheckStop, GameCallback, syncVars, SyncInv, Handshake
  <1>6. CASE UnlockedStep
    BY <1>6 DEF UnlockedStep, TakeUnlocked, UnlockedAsks, ReturnUnlocked, syncVars, SyncInv, Handshake
  <1>7. CASE UNCHANGED vars
    BY <1>7 DEF vars, syncVars, SyncInv, Handshake
  <1> QED
    BY <1>1, <1>2, <1>3, <1>4, <1>5, <1>6, <1>7 DEF Next

\* The watcher changes the mods only while the loop waits for it, unless the
\* loop stored Idle over a request that was made before (Sync.cpp:20).
THEOREM WatcherExcludesLoop == Spec => []SectionExcludesLoop
  <1>1. SyncInv => SectionExcludesLoop
    BY DEF SyncInv, Handshake, SectionExcludesLoop
  <1> QED
    BY <1>1, SyncInvInit, SyncInvNext, PTL DEF Spec

-----------------------------------------------------------------------------
(* Sequences of steps.                                                      *)

\* q once its first element has given way to s: what Then makes of an agenda.
Continued(s, q) == s \o (IF q = <<>> THEN <<>> ELSE Tail(q))

\* The elements of a continued agenda are those of s and, moved, those behind
\* the first of q.
LEMMA ContinuedType ==
  ASSUME NEW S, NEW s \in Seq(S), NEW q \in Seq(S)
  PROVE  Continued(s, q) \in Seq(S)
  <1>1. q # <<>> => Tail(q) \in Seq(S)
    BY HeadTailProperties
  <1>2. <<>> \in Seq(S)
    BY EmptySeq
  <1> QED
    BY <1>1, <1>2, ConcatProperties DEF Continued

LEMMA ContinuedElements ==
  ASSUME NEW S, NEW s \in Seq(S), NEW q \in Seq(S), q # <<>>
  PROVE  /\ Len(Continued(s, q)) = Len(s) + Len(q) - 1
         /\ DOMAIN Continued(s, q) = 1 .. Len(s) + Len(q) - 1
         /\ DOMAIN s = 1 .. Len(s) /\ DOMAIN q = 1 .. Len(q)
         /\ Len(s) \in Nat /\ Len(q) \in Nat \ {0}
         /\ \A k \in 1 .. Len(s) : Continued(s, q)[k] = s[k]
         /\ \A k \in Len(s) + 1 .. Len(s) + Len(q) - 1 : Continued(s, q)[k] = q[k - Len(s) + 1]
         /\ \A k \in 2 .. Len(q) : Continued(s, q)[k - 1 + Len(s)] = q[k]
  <1>1. /\ Tail(q) \in Seq(S) /\ Len(Tail(q)) = Len(q) - 1
        /\ \A i \in 1 .. Len(Tail(q)) : Tail(q)[i] = q[i + 1]
    BY HeadTailProperties
  <1>2. Len(s) \in Nat /\ Len(q) \in Nat \ {0}
    BY LenProperties, EmptySeq
  <1>3. Continued(s, q) = s \o Tail(q)
    BY DEF Continued
  <1>4. /\ Continued(s, q) \in Seq(S)
        /\ Len(Continued(s, q)) = Len(s) + Len(Tail(q))
        /\ \A k \in 1 .. Len(s) + Len(Tail(q)) :
              Continued(s, q)[k] = IF k <= Len(s) THEN s[k] ELSE Tail(q)[k - Len(s)]
    BY <1>1, <1>3, ConcatProperties
  <1>5. DOMAIN Continued(s, q) = 1 .. Len(Continued(s, q)) /\ DOMAIN s = 1 .. Len(s) /\ DOMAIN q = 1 .. Len(q)
    BY <1>4, LenProperties
  <1>6. \A k \in 1 .. Len(s) : Continued(s, q)[k] = s[k]
    BY <1>1, <1>2, <1>4
  <1>7. \A k \in Len(s) + 1 .. Len(s) + Len(q) - 1 : Continued(s, q)[k] = q[k - Len(s) + 1]
    <2> SUFFICES ASSUME NEW k \in Len(s) + 1 .. Len(s) + Len(q) - 1
                 PROVE  Continued(s, q)[k] = q[k - Len(s) + 1]
      OBVIOUS
    <2>1. k \in 1 .. Len(s) + Len(Tail(q)) /\ ~(k <= Len(s)) /\ k - Len(s) \in 1 .. Len(Tail(q))
      BY <1>1, <1>2
    <2> QED
      BY <1>1, <1>4, <2>1
  <1>8. \A k \in 2 .. Len(q) : Continued(s, q)[k - 1 + Len(s)] = q[k]
    <2> SUFFICES ASSUME NEW k \in 2 .. Len(q)
                 PROVE  Continued(s, q)[k - 1 + Len(s)] = q[k]
      OBVIOUS
    <2>1. k - 1 + Len(s) \in Len(s) + 1 .. Len(s) + Len(q) - 1 /\ (k - 1 + Len(s)) - Len(s) + 1 = k
      BY <1>2
    <2> QED
      BY <1>7, <2>1
  <1> QED
    BY <1>1, <1>2, <1>4, <1>5, <1>6, <1>7, <1>8

\* A new agenda.
LEMMA ContinuedIdle ==
  ASSUME NEW S, NEW s \in Seq(S)
  PROVE  Continued(s, <<>>) = s
  BY ConcatEmptySeq DEF Continued

\* How many callbacks an agenda is inside of.
LeavesIn(q) == {k \in DOMAIN q : q[k][1] = "leave"}
Held(q) == Cardinality(LeavesIn(q))

LEMMA HeldType ==
  ASSUME NEW S, NEW q \in Seq(S)
  PROVE  /\ IsFiniteSet(LeavesIn(q))
         /\ Held(q) \in Nat
         /\ (Held(q) = 0) <=> (\A k \in DOMAIN q : q[k][1] # "leave")
  <1>1. DOMAIN q = 1 .. Len(q) /\ Len(q) \in Nat
    BY LenProperties
  <1>2. IsFiniteSet(LeavesIn(q))
    <2>1. LeavesIn(q) \subseteq 1 .. Len(q) /\ IsFiniteSet(1 .. Len(q))
      BY <1>1, FS_Interval DEF LeavesIn
    <2> QED BY <2>1, FS_Subset
  <1>3. LeavesIn(q) = {} <=> (\A k \in DOMAIN q : q[k][1] # "leave")
    BY DEF LeavesIn
  <1>4. Held(q) \in Nat /\ (Held(q) = 0 <=> LeavesIn(q) = {})
    BY <1>2, FS_CardinalityType, FS_EmptySet DEF Held
  <1> QED
    BY <1>2, <1>3, <1>4

LEMMA HeldContinued ==
  ASSUME NEW S, NEW s \in Seq(S), NEW q \in Seq(S), q # <<>>
  PROVE  Held(Continued(s, q)) = Held(s) + Held(q) - (IF q[1][1] = "leave" THEN 1 ELSE 0)
  <1> DEFINE c == Continued(s, q)
             moved == {k \in LeavesIn(q) : k # 1}
             there == {k \in LeavesIn(c) : k > Len(s)}
  <1>1. /\ Len(s) \in Nat /\ Len(q) \in Nat \ {0}
        /\ DOMAIN s = 1 .. Len(s) /\ DOMAIN q = 1 .. Len(q)
        /\ DOMAIN c = 1 .. Len(s) + Len(q) - 1
        /\ \A k \in 1 .. Len(s) : c[k] = s[k]
        /\ \A k \in Len(s) + 1 .. Len(s) + Len(q) - 1 : c[k] = q[k - Len(s) + 1]
        /\ \A k \in 2 .. Len(q) : c[k - 1 + Len(s)] = q[k]
    BY ContinuedElements
  <1>2. c \in Seq(S)
    BY ContinuedType
  <1>3. IsFiniteSet(LeavesIn(s)) /\ IsFiniteSet(LeavesIn(q)) /\ IsFiniteSet(LeavesIn(c))
    <2> HIDE DEF c
    <2> QED BY <1>2, HeldType
  <1>4. IsFiniteSet(moved) /\ IsFiniteSet(there)
    BY <1>3, FS_Subset
  <1> HIDE DEF c
  <1>5. LeavesIn(c) = LeavesIn(s) \cup there /\ LeavesIn(s) \cap there = {}
    BY <1>1 DEF LeavesIn
  <1>6. Cardinality(there) = Cardinality(moved)
    <2> DEFINE f == [k \in moved |-> k - 1 + Len(s)]
    <2>1. \A k \in moved : k \in 2 .. Len(q) /\ k - 1 + Len(s) \in there
      BY <1>1 DEF LeavesIn
    <2>2. \A k \in there : k - Len(s) + 1 \in moved /\ k = (k - Len(s) + 1) - 1 + Len(s)
      BY <1>1 DEF LeavesIn
    <2>3. f \in [moved -> there]
      BY <2>1
    <2>4. \A j, k \in moved : f[j] = f[k] => j = k
      BY <1>1, <2>1
    <2>5. \A k \in there : \E j \in moved : f[j] = k
      BY <2>2
    <2> HIDE DEF f, moved, there
    <2>6. f \in Bijection(moved, there)
      BY <2>3, <2>4, <2>5, Fun_IsBij
    <2> QED
      BY <1>4, <2>6, FS_Bijection DEF ExistsBijection
  <1>7. Cardinality(LeavesIn(c)) = Cardinality(LeavesIn(s)) + Cardinality(there)
    <2>1. Cardinality({}) = 0 /\ Cardinality(LeavesIn(s)) \in Nat /\ Cardinality(there) \in Nat
      BY <1>3, <1>4, FS_EmptySet, FS_CardinalityType
    <2> HIDE DEF there
    <2>3. Cardinality(LeavesIn(s) \cap there) = 0
      BY <1>5, <2>1
    <2>2. Cardinality(LeavesIn(s) \cup there)
             = Cardinality(LeavesIn(s)) + Cardinality(there) - Cardinality(LeavesIn(s) \cap there)
      BY <1>3, <1>4, FS_Union
    <2> QED
      BY <1>5, <2>1, <2>2, <2>3
  <1>8. Cardinality(moved) = Cardinality(LeavesIn(q)) - (IF q[1][1] = "leave" THEN 1 ELSE 0)
    <2>1. CASE q[1][1] = "leave"
      <3>1. 1 \in LeavesIn(q) /\ moved = LeavesIn(q) \ {1}
        BY <1>1, <2>1 DEF LeavesIn
      <3>2. Cardinality(LeavesIn(q) \ {1}) = Cardinality(LeavesIn(q)) - 1
        BY <1>3, <3>1, FS_RemoveElement
      <3> QED
        BY <2>1, <3>1, <3>2
    <2>2. CASE q[1][1] # "leave"
      <3>1. moved = LeavesIn(q)
        BY <2>2 DEF LeavesIn
      <3>2. Cardinality(LeavesIn(q)) \in Nat
        BY <1>3, FS_CardinalityType
      <3> HIDE DEF moved
      <3> QED
        BY <2>2, <3>1, <3>2
    <2> QED
      BY <2>1, <2>2
  <1>9. Cardinality(LeavesIn(s)) \in Nat /\ Cardinality(LeavesIn(q)) \in Nat
    BY <1>3, FS_CardinalityType
  <1> QED
    BY <1>6, <1>7, <1>8, <1>9 DEF Held, c

-----------------------------------------------------------------------------
(* Types.                                                                   *)

\* The requests that are ever made: a start names a mod.
Asks == {r \in Events : r.op = "start" => r.id = 0 /\ r.name \in Names}

Appends == {"append"} \X Asks
Leaves == {"leave"} \X Instances
Building == ({"uninstall", "join", "close", "delete", "replace"} \X Instances)
            \cup ({"create", "launch"} \X Names) \cup {<<"clear", 0>>}
Scanning == {<<"pause", 0>>, <<"resume", 0>>} \cup ({"scan"} \X SUBSET Names)

AgendaSteps == Appends \cup Building \cup Scanning \cup ({"enter", "leave"} \X Instances)

\* What each thread may have to do.
LoopSteps == {s \in AgendaSteps : s[1] \in {"uninstall", "join", "close", "delete", "clear", "create",
                                           "launch", "enter", "leave"}}
WatcherSteps == {s \in AgendaSteps : s[1] \in {"uninstall", "join", "close", "replace", "pause", "scan",
                                              "resume", "create", "launch", "append", "leave"}}
Repertoire(t) ==
    IF t = Loop THEN LoopSteps
    ELSE IF t = Watcher THEN WatcherSteps
    ELSE IF t = Game THEN Appends \cup Leaves
    ELSE IF t = Gui THEN Appends
    ELSE Appends \cup {<<"enter", t[2]>>, <<"leave", t[2]>>}

Agendas ==
    /\ agenda \in [Threads -> Seq(AgendaSteps)]
    /\ \A t \in Threads : agenda[t] \in Seq(Repertoire(t))

\* m_thread_actions_mutex is held by the thread that is inside of callbacks, as
\* often as it is inside of one.
MutexCounts ==
    /\ lua \in [by : Threads \cup {Nobody}, count : Nat]
    /\ lua.by = Nobody <=> lua.count = 0
    /\ \A t \in Threads : Held(agenda[t]) = IF lua.by = t THEN lua.count ELSE 0

Mods ==
    /\ m_mods \in Seq(Instances)
    /\ name \in [Instances -> Names \cup {NoName}]
    /\ stage \in [Instances -> {"unborn", "created", "started", "closed"}]
    /\ stopping \subseteq Instances
    /\ async \in [Instances -> {"none", "running", "exited"}]
    /\ \A i \in Instances : stage[i] # "unborn" => name[i] \in Names
    /\ \A k \in DOMAIN m_mods : stage[m_mods[k]] # "unborn"

Queue ==
    /\ m_queued_events \in Seq(Asks)
    /\ executed \in 0 .. Len(m_queued_events)

Scalars ==
    /\ phase \in {"boot", "top", "events", "input", "sync", "await", "late"}
    /\ m_pause_events_processing \in BOOLEAN
    /\ sync \in {"Idle", "WaitForMain", "WaitForOther", "Complete"}
    /\ watcher \in {"poll", "wait", "asleep", "section"}
    /\ requests \in 0 .. MaxRequests
    /\ notices \in 0 .. MaxNotices
    /\ overwritten \in BOOLEAN
    /\ inlined \in BOOLEAN

\* The instances an agenda means to stop exist.
Standing == {s \in AgendaSteps : s[1] \in {"uninstall", "join", "close", "replace"} => stage[s[2]] # "unborn"}
SubjectsBorn == \A t \in Threads : agenda[t] \in Seq(Standing)

LoopInv == Agendas /\ SubjectsBorn /\ MutexCounts /\ Mods /\ Queue /\ Scalars

LEMMA ThreadKinds ==
  /\ Loop \in Threads /\ Watcher \in Threads /\ Game \in Threads /\ Gui \in Threads
  /\ \A i \in Instances : Async(i) \in Threads /\ Async(i)[2] = i
                        /\ Async(i) \notin {Loop, Watcher, Game, Gui}
  /\ Loop \notin {Watcher, Game, Gui} /\ Watcher \notin {Game, Gui} /\ Game # Gui
  /\ \A t \in Threads : t \in {Loop, Watcher, Game, Gui} \/ \E i \in Instances : t = Async(i)
  BY DEF Threads, Loop, Watcher, Game, Gui, Async

\* The mods on disk are listed once each.
LEMMA ModNamesType ==
  /\ ModNames \in Seq(Names) /\ Len(ModNames) \in Nat /\ DOMAIN ModNames = 1 .. Len(ModNames)
  /\ \A j, k \in DOMAIN ModNames : ModNames[j] = ModNames[k] => j = k
  <1> DEFINE n == Cardinality(Names)
  <1>1. n \in Nat /\ ExistsBijection(1 .. n, Names)
    BY FS_CardinalityType, LoopConstants
  <1>2. \E f \in [1 .. n -> Names] : IsInjective(f)
    <2> HIDE DEF n
    <2> QED
      BY <1>1 DEF ExistsBijection, Bijection, Injection
  <1>3. ModNames \in [1 .. n -> Names] /\ IsInjective(ModNames)
    BY <1>2 DEF ModNames, SetToSeq
  <1>4. ModNames \in Seq(Names)
    <2> HIDE DEF n
    <2> QED
      BY <1>1, <1>3, SeqDef
  <1>5. Len(ModNames) \in Nat /\ DOMAIN ModNames = 1 .. Len(ModNames)
    BY <1>4, LenProperties
  <1> QED
    BY <1>3, <1>4, <1>5 DEF IsInjective

LEMMA RequestTypes ==
  /\ \A i \in Instances : LuaRequests(i) \subseteq Asks
  /\ GuiRequests \subseteq Asks
  /\ \A r \in Asks : Cost(r) \in Nat
  <1>1. \A i \in Instances : i # 0
    BY ModNamesType, LoopConstants DEF Instances
  <1> QED
    BY <1>1, ModNamesType DEF LuaRequests, GuiRequests, Asks, Events, ById, ByName, Cost

-----------------------------------------------------------------------------
(* What is put on an agenda is of the thread's repertoire.                  *)

LEMMA FunIsSeq ==
  ASSUME NEW S, NEW n \in Nat, NEW f \in [1 .. n -> S]
  PROVE  f \in Seq(S) /\ Len(f) = n
  <1>1. f \in Seq(S)
    BY SeqDef
  <1> QED
    BY <1>1, LenProperties

\* Every nonempty set of naturals has a least element.
LEMMA LeastNat ==
  ASSUME NEW T \in SUBSET Nat, T # {}
  PROVE  \E x \in T : \A y \in T : x <= y
  <1>1. PICK x \in T : \A y \in T : ~ (<<y, x>> \in OpToRel(<, Nat))
    <2> DEFINE R == OpToRel(<, Nat)
    <2>1. IsWellFoundedOn(R, Nat)
      BY NatLessThanWellFounded
    <2> HIDE DEF R
    <2>2. \E x \in T : \A y \in T : ~ (<<y, x>> \in R)
      BY <2>1, WFMin
    <2> QED
      BY <2>2 DEF R
  <1>2. \A y \in T : ~(y < x)
    BY <1>1 DEF OpToRel
  <1> QED
    BY <1>2

\* The mod a request finds (find_mod_by_id, queue_reinstall_mod_by_name).
Match(r) == m_mods[CHOOSE k \in Matching(r) : \A l \in Matching(r) : k <= l]

LEMMA MatchProperties ==
  ASSUME Mods, NEW r, Matching(r) # {}
  PROVE  /\ Match(r) \in Instances
         /\ stage[Match(r)] # "unborn"
         /\ name[Match(r)] \in Names
         /\ r.id = 0 => name[Match(r)] = r.name
         /\ \E k \in DOMAIN m_mods : Match(r) = m_mods[k]
  <1>1. DOMAIN m_mods = 1 .. Len(m_mods) /\ Len(m_mods) \in Nat
    BY LenProperties DEF Mods
  <1>2. Matching(r) \in SUBSET Nat /\ Matching(r) \subseteq DOMAIN m_mods
    BY <1>1 DEF Matching
  <1>3. \E k \in Matching(r) : \A l \in Matching(r) : k <= l
    BY <1>2, LeastNat
  <1>4. PICK k \in Matching(r) : Match(r) = m_mods[k]
    BY <1>3 DEF Match
  <1>5. m_mods[k] \in Instances
    BY <1>1, <1>2, ElementOfSeq DEF Mods
  <1> QED
    BY <1>2, <1>4, <1>5 DEF Mods, Matching

Born == {i \in Instances : stage[i] # "unborn"}
LoopBuild == ({"uninstall", "delete"} \X Born) \cup ({"create", "launch"} \X Names)
             \cup {<<"clear", 0>>}

LEMMA RestartAllType ==
  ASSUME Mods
  PROVE  RestartAll \in Seq(LoopBuild)
  <1> DEFINE u == [k \in DOMAIN m_mods |-> <<"uninstall", m_mods[k]>>]
             c == [k \in DOMAIN ModNames |-> <<"create", ModNames[k]>>]
             l == [k \in DOMAIN ModNames |-> <<"launch", ModNames[k]>>]
  <1>1. DOMAIN m_mods = 1 .. Len(m_mods) /\ Len(m_mods) \in Nat
        /\ \A k \in 1 .. Len(m_mods) : m_mods[k] \in Born
    BY LenProperties, ElementOfSeq DEF Mods, Born
  <1>2. \A k \in DOMAIN ModNames : ModNames[k] \in Names
    BY ModNamesType, ElementOfSeq
  <1>3. u \in [1 .. Len(m_mods) -> LoopBuild]
    BY <1>1 DEF LoopBuild
  <1>4. c \in [1 .. Len(ModNames) -> LoopBuild] /\ l \in [1 .. Len(ModNames) -> LoopBuild]
    BY <1>2, ModNamesType DEF LoopBuild
  <1>5. <<<<"clear", 0>>>> \in Seq(LoopBuild)
    BY DEF LoopBuild
  <1>6. RestartAll = u \o <<<<"clear", 0>>>> \o c \o l
    BY DEF RestartAll
  <1> HIDE DEF u, c, l
  <1>7. u \in Seq(LoopBuild) /\ c \in Seq(LoopBuild) /\ l \in Seq(LoopBuild)
    BY <1>1, <1>3, <1>4, ModNamesType, FunIsSeq
  <1>8. u \o <<<<"clear", 0>>>> \in Seq(LoopBuild)
    BY <1>5, <1>7, ConcatProperties
  <1>9. u \o <<<<"clear", 0>>>> \o c \in Seq(LoopBuild)
    BY <1>7, <1>8, ConcatProperties
  <1> QED
    BY <1>6, <1>7, <1>9, ConcatProperties

LEMMA HandlingCases ==
  ASSUME NEW r \in Asks
  PROVE  \/ Handling(r) = <<>>
         \/ r.op = "restartAll" /\ Handling(r) = RestartAll
         \/ r.op = "start" /\ Matching(r) = {} /\ Handling(r) = Birth(r.name)
         \/ Matching(r) # {} /\ r.op = "restart"
              /\ Handling(r) = Teardown(Match(r)) \o Birth(name[Match(r)])
         \/ Matching(r) # {} /\ r.op = "uninstall" /\ Handling(r) = Teardown(Match(r))
         \/ Matching(r) # {} /\ r.op = "start" /\ ~HasStarted(Match(r))
              /\ Handling(r) = <<<<"delete", Match(r)>>>> \o Birth(r.name)
  <1>1. r.op \in {"restart", "uninstall", "start", "restartAll"}
    BY DEF Asks, Events
  <1> QED
    BY <1>1 DEF Handling, Match

LEMMA HandlingType ==
  ASSUME Mods, NEW r \in Asks
  PROVE  Handling(r) \in Seq(LoopBuild)
  <1>1. \A i \in Born : Teardown(i) \in Seq(LoopBuild) /\ <<<<"delete", i>>>> \in Seq(LoopBuild)
    BY DEF Teardown, LoopBuild
  <1>2. \A n \in Names : Birth(n) \in Seq(LoopBuild)
    BY DEF Birth, LoopBuild
  <1>3. r.op = "start" => r.name \in Names
    BY DEF Asks
  <1>4. Matching(r) # {} => Match(r) \in Born /\ name[Match(r)] \in Names
    BY MatchProperties DEF Born
  <1>5. \A s, q \in Seq(LoopBuild) : s \o q \in Seq(LoopBuild)
    BY ConcatProperties
  <1>6. <<>> \in Seq(LoopBuild)
    BY EmptySeq
  <1> QED
    BY <1>1, <1>2, <1>3, <1>4, <1>5, <1>6, HandlingCases, RestartAllType

LEMMA RepertoireOf ==
  /\ Repertoire(Loop) = LoopSteps
  /\ Repertoire(Watcher) = WatcherSteps
  /\ Repertoire(Game) = Appends \cup Leaves
  /\ Repertoire(Gui) = Appends
  /\ \A i \in Instances : Repertoire(Async(i)) = Appends \cup {<<"enter", i>>, <<"leave", i>>}
  BY ThreadKinds DEF Repertoire

LEMMA LeaveOnLoop == Leaves \subseteq LoopSteps
  <1>1. Leaves \subseteq AgendaSteps
    BY DEF AgendaSteps, Leaves
  <1> QED
    BY <1>1 DEF LoopSteps, Leaves

\* What a repertoire holds at least, and at most.
LEMMA RepertoireType ==
  ASSUME NEW t \in Threads
  PROVE  /\ Repertoire(t) \subseteq AgendaSteps
         /\ t = Loop => LoopBuild \subseteq Repertoire(t)
         /\ t # Loop => Appends \subseteq Repertoire(t)
         /\ t \in {Loop, Watcher, Game} => Leaves \subseteq Repertoire(t)
         /\ t \notin {Loop, Watcher, Game, Gui} =>
               t[2] \in Instances /\ <<"leave", t[2]>> \in Repertoire(t)
  <1>0. Leaves \subseteq AgendaSteps /\ Appends \subseteq AgendaSteps /\ LoopBuild \subseteq AgendaSteps
    BY DEF AgendaSteps, LoopBuild, Born, Building, Leaves
  <1>9. /\ \A s \in Leaves : s[1] = "leave"
        /\ \A s \in Appends : s[1] = "append"
        /\ \A s \in LoopBuild : s[1] \in {"uninstall", "delete", "create", "launch", "clear"}
    BY DEF Appends, LoopBuild, Leaves
  <1> HIDE DEF AgendaSteps, LoopBuild, Appends, Leaves
  <1>1. CASE t = Loop
    <2>1. LoopSteps \subseteq AgendaSteps /\ LoopBuild \subseteq LoopSteps /\ Leaves \subseteq LoopSteps
      BY <1>0, <1>9 DEF LoopSteps
    <2>2. Repertoire(t) = LoopSteps
      BY <1>1, RepertoireOf
    <2> HIDE DEF LoopSteps
    <2> QED
      BY <1>1, <2>1, <2>2, ThreadKinds
  <1>2. CASE t = Watcher
    <2>1. WatcherSteps \subseteq AgendaSteps /\ Appends \subseteq WatcherSteps /\ Leaves \subseteq WatcherSteps
      BY <1>0, <1>9 DEF WatcherSteps
    <2>2. Repertoire(t) = WatcherSteps
      BY <1>2, RepertoireOf
    <2>3. t # Loop
      BY <1>2, ThreadKinds
    <2> HIDE DEF WatcherSteps
    <2> QED
      BY <1>2, <2>1, <2>2, <2>3
  <1>3. CASE t = Game
    <2>2. Repertoire(t) = Appends \cup Leaves
      BY <1>3, RepertoireOf
    <2>3. t # Loop
      BY <1>3, ThreadKinds
    <2> QED
      BY <1>0, <1>3, <2>2, <2>3
  <1>4. CASE t = Gui
    BY <1>0, <1>4, ThreadKinds, RepertoireOf
  <1>5. CASE t \notin {Loop, Watcher, Game, Gui}
    <2>1. PICK i \in Instances : t = Async(i) /\ t[2] = i
      BY <1>5, ThreadKinds
    <2>2. <<"enter", i>> \in AgendaSteps /\ <<"leave", i>> \in AgendaSteps
      BY DEF AgendaSteps
    <2> QED
      BY <1>0, <1>5, <2>1, <2>2, RepertoireOf, ThreadKinds
  <1> QED
    BY <1>1, <1>2, <1>3, <1>4, <1>5

\* The next statement of a thread is one it may have to do.
LEMMA NextStatement ==
  ASSUME Agendas, NEW t \in Threads, agenda[t] # <<>>
  PROVE  /\ agenda[t][1] \in Repertoire(t)
         /\ agenda[t][1] = <<agenda[t][1][1], Subject(t)>>
  <1>1. 1 \in 1 .. Len(agenda[t])
    BY EmptySeq, LenProperties DEF Agendas
  <1>2. agenda[t][1] \in Repertoire(t)
    BY <1>1, ElementOfSeq DEF Agendas
  <1>3. agenda[t][1] \in AgendaSteps
    BY <1>2, RepertoireType
  <1> QED
    BY <1>2, <1>3 DEF Subject, AgendaSteps, Appends, Building, Scanning

\* Which thread may have which statement to do next, and what about.
SubjectsOf(t) ==
    /\ NextIs(t, "append") => t # Loop /\ Subject(t) \in Asks
    /\ NextIs(t, "leave") => t # Gui /\ Subject(t) \in Instances
    /\ NextIs(t, "enter") =>
          /\ t \notin {Watcher, Game, Gui} /\ Subject(t) \in Instances
          /\ <<"leave", Subject(t)>> \in Repertoire(t)
          /\ (t # Loop => Subject(t) = t[2])
    /\ NextIs(t, "uninstall") \/ NextIs(t, "join") \/ NextIs(t, "close") =>
          t \in {Loop, Watcher} /\ Subject(t) \in Instances
    /\ NextIs(t, "create") \/ NextIs(t, "launch") => t \in {Loop, Watcher} /\ Subject(t) \in Names
    /\ NextIs(t, "delete") => t = Loop /\ Subject(t) \in Instances
    /\ NextIs(t, "clear") => t = Loop
    /\ NextIs(t, "replace") => t = Watcher /\ Subject(t) \in Instances
    /\ NextIs(t, "pause") \/ NextIs(t, "resume") => t = Watcher
    /\ NextIs(t, "scan") => t = Watcher /\ Subject(t) \in SUBSET Names

LEMMA BusySubjects ==
  ASSUME Agendas, NEW t \in Threads, agenda[t] # <<>>
  PROVE  SubjectsOf(t)
  <1> USE DEF SubjectsOf
  <1> DEFINE h == agenda[t][1]
  <1>1. h \in Repertoire(t) /\ h \in AgendaSteps /\ h = <<h[1], Subject(t)>>
    BY NextStatement, RepertoireType
  <1>2. \A op : NextIs(t, op) <=> h[1] = op
    BY DEF NextIs
  <1> HIDE DEF h
  <1>3. /\ h[1] = "append" => Subject(t) \in Asks
        /\ h[1] \in {"leave", "enter", "uninstall", "join", "close", "delete", "replace"} => Subject(t) \in Instances
        /\ h[1] \in {"create", "launch"} => Subject(t) \in Names
        /\ h[1] = "scan" => Subject(t) \in SUBSET Names
    BY <1>1 DEF AgendaSteps, Appends, Building, Scanning
  <1>4. CASE t = Loop
    <2>1. h[1] \in {"uninstall", "join", "close", "delete", "clear", "create", "launch", "enter", "leave"}
      BY <1>1, <1>4 DEF Repertoire, LoopSteps
    <2>2. Leaves \subseteq Repertoire(t)
      BY <1>4, RepertoireOf, LeaveOnLoop
    <2> QED
      BY <1>2, <1>3, <1>4, <2>1, <2>2, ThreadKinds DEF Leaves
  <1>5. CASE t = Watcher
    <2>1. h[1] \in {"uninstall", "join", "close", "replace", "pause", "scan", "resume", "create", "launch", "append", "leave"}
      BY <1>1, <1>5, ThreadKinds DEF Repertoire, WatcherSteps
    <2> QED
      BY <1>2, <1>3, <1>5, <2>1, ThreadKinds
  <1>6. CASE t = Game
    <2>1. h[1] \in {"append", "leave"}
      BY <1>1, <1>6, RepertoireOf DEF Appends, Leaves
    <2> QED
      BY <1>2, <1>3, <1>6, <2>1, ThreadKinds
  <1>7. CASE t = Gui
    <2>1. h[1] = "append"
      BY <1>1, <1>7, ThreadKinds DEF Repertoire, Appends
    <2> QED
      BY <1>2, <1>3, <1>7, <2>1, ThreadKinds
  <1>8. CASE t \notin {Loop, Watcher, Game, Gui}
    <2>1. h[1] \in {"append", "enter", "leave"} /\ (h[1] = "enter" => Subject(t) = t[2])
      BY <1>1, <1>8 DEF Repertoire, Appends
    <2>2. t[2] \in Instances /\ <<"leave", t[2]>> \in Repertoire(t)
      BY <1>8, RepertoireType
    <2> QED
      BY <1>2, <1>3, <1>8, <2>1, <2>2
  <1> QED
    BY <1>4, <1>5, <1>6, <1>7, <1>8

LEMMA Subjects ==
  ASSUME Agendas, NEW t \in Threads
  PROVE  SubjectsOf(t)
  <1>1. CASE agenda[t] = <<>>
    BY <1>1, Zenon DEF SubjectsOf, NextIs
  <1> QED
    BY <1>1, BusySubjects

-----------------------------------------------------------------------------
(* What a step does to the agendas and to the mutex.                        *)

AgendaInv == Agendas /\ SubjectsBorn /\ MutexCounts

\* The statements that t may put on its agenda and that are no callback's end.
Plain(t) == {s \in Repertoire(t) \cap Standing : s[1] # "leave"}

LEMMA ThenAgenda ==
  ASSUME Agendas, NEW t \in Threads, NEW steps \in Seq(Repertoire(t)), Then(t, steps)
  PROVE  /\ agenda'[t] = Continued(steps, agenda[t])
         /\ \A u \in Threads : u # t => agenda'[u] = agenda[u]
         /\ Agendas'
  <1>1. agenda' = [agenda EXCEPT ![t] = Continued(steps, agenda[t])]
    BY DEF Then, Idle, Continued
  <1>2. agenda'[t] = Continued(steps, agenda[t]) /\ \A u \in Threads : u # t => agenda'[u] = agenda[u]
    BY <1>1 DEF Agendas
  <1>3. agenda'[t] \in Seq(Repertoire(t))
    BY <1>2, ContinuedType DEF Agendas
  <1>4. Seq(Repertoire(t)) \subseteq Seq(AgendaSteps)
    BY RepertoireType, SeqMonotonic
  <1>5. agenda' \in [Threads -> Seq(AgendaSteps)]
    BY <1>1, <1>2, <1>3, <1>4 DEF Agendas
  <1> QED
    BY <1>2, <1>3, <1>5 DEF Agendas

\* No instance is unborn again.
BornStay == \A i \in Instances : stage[i] # "unborn" => stage'[i] # "unborn"

LEMMA StandingStays ==
  ASSUME BornStay
  PROVE  Seq(Standing) \subseteq Seq(Standing')
  <1>1. \A s \in Standing : s \in Standing'
    <2> SUFFICES ASSUME NEW s \in Standing, s[1] \in {"uninstall", "join", "close", "replace"}
                 PROVE  stage'[s[2]] # "unborn"
      BY DEF Standing
    <2>1. s[2] \in Instances
      BY DEF Standing, AgendaSteps, Appends, Building, Scanning
    <2> QED
      BY <2>1 DEF Standing, BornStay
  <1> QED
    BY <1>1, SeqMonotonic

LEMMA ThenBorn ==
  ASSUME Agendas, SubjectsBorn, BornStay, NEW t \in Threads,
         NEW steps \in Seq(Repertoire(t)), steps \in Seq(Standing), Then(t, steps)
  PROVE  SubjectsBorn'
  <1>1. agenda'[t] \in Seq(Standing)
    BY ThenAgenda, ContinuedType DEF SubjectsBorn
  <1> QED
    BY <1>1, ThenAgenda, StandingStays DEF SubjectsBorn

LEMMA NoLeaves ==
  ASSUME NEW S, NEW q \in Seq(S), \A s \in S : s[1] # "leave"
  PROVE  Held(q) = 0
  <1>1. \A k \in DOMAIN q : q[k] \in S
    BY ElementOfSeq, LenProperties
  <1> QED
    BY <1>1, HeldType

\* The count of callbacks a thread is inside of.
LEMMA ThenHeld ==
  ASSUME Agendas, NEW t \in Threads, NEW steps \in Seq(Repertoire(t)), Then(t, steps)
  PROVE  /\ Held(agenda[t]) \in Nat /\ Held(steps) \in Nat
         /\ Held(agenda'[t]) = Held(steps) + Held(agenda[t]) - (IF NextIs(t, "leave") THEN 1 ELSE 0)
  <1>1. agenda'[t] = Continued(steps, agenda[t]) /\ agenda[t] \in Seq(Repertoire(t))
    BY ThenAgenda DEF Agendas
  <1>2. Held(agenda[t]) \in Nat /\ Held(steps) \in Nat
    BY <1>1, HeldType
  <1>3. CASE agenda[t] = <<>>
    <2>1. Held(agenda'[t]) = Held(steps)
      BY <1>1, <1>3, ContinuedIdle
    <2>2. Held(agenda[t]) = 0
      <3>1. DOMAIN agenda[t] = 1 .. Len(agenda[t]) /\ Len(agenda[t]) = 0
        BY <1>1, <1>3, EmptySeq, LenProperties
      <3> QED
        BY <1>1, <3>1, HeldType
    <2> QED
      BY <1>2, <1>3, <2>1, <2>2 DEF NextIs
  <1>4. CASE agenda[t] # <<>>
    BY <1>1, <1>2, <1>4, HeldContinued DEF NextIs
  <1> QED
    BY <1>2, <1>3, <1>4

\* A statement gives way to others, outside the mutex or inside it.
LEMMA PlainStep ==
  ASSUME AgendaInv, BornStay, NEW t \in Threads, NEW steps \in Seq(Plain(t)), Then(t, steps),
         ~NextIs(t, "leave"), lua' = lua
  PROVE  AgendaInv' /\ (\A u \in Threads : u # t => agenda'[u] = agenda[u])
  <1> USE DEF AgendaInv
  <1>1. steps \in Seq(Repertoire(t)) /\ steps \in Seq(Standing)
    BY SeqMonotonic DEF Plain
  <1>2. Held(steps) = 0
    <2>1. \A s \in Plain(t) : s[1] # "leave"
      BY DEF Plain
    <2> HIDE DEF Plain
    <2> QED
      BY <2>1, NoLeaves
  <1>3. Agendas' /\ SubjectsBorn' /\ \A u \in Threads : u # t => agenda'[u] = agenda[u]
    BY <1>1, ThenAgenda, ThenBorn
  <1>4. Held(agenda'[t]) = Held(agenda[t])
    BY <1>1, <1>2, ThenHeld
  <1>5. MutexCounts'
    BY <1>3, <1>4 DEF MutexCounts
  <1> QED
    BY <1>3, <1>5

LEMMA LockStep ==
  ASSUME AgendaInv, BornStay, NEW t \in Threads, NEW steps \in Seq(Plain(t)), NEW i \in Instances,
         <<"leave", i>> \in Repertoire(t), Then(t, steps \o <<<<"leave", i>>>>),
         ~NextIs(t, "leave"), CanLock(t), Lock(t)
  PROVE  AgendaInv' /\ (\A u \in Threads : u # t => agenda'[u] = agenda[u])
  <1> USE DEF AgendaInv
  <1> DEFINE last == <<<<"leave", i>>>>
             all == steps \o last
  <1>1. steps \in Seq(Repertoire(t)) /\ steps \in Seq(Standing)
    BY SeqMonotonic DEF Plain
  <1>2. last \in Seq(Repertoire(t)) /\ last \in Seq(Standing)
    <2>1. <<"leave", i>> \in Standing
      BY RepertoireType DEF Standing
    <2> QED
      BY <2>1
  <1>3. all \in Seq(Repertoire(t)) /\ all \in Seq(Standing)
    BY <1>1, <1>2, ConcatProperties
  <1>4. Held(all) = 1
    <2>1. \A s \in Plain(t) : s[1] # "leave"
      BY DEF Plain
    <2>2. Held(steps) = 0
      BY <2>1, NoLeaves
    <2>3. \A k \in DOMAIN all : all[k][1] = "leave" <=> k = Len(steps) + 1
      <3>1. /\ Len(steps) \in Nat /\ DOMAIN all = 1 .. Len(steps) + 1
            /\ \A k \in 1 .. Len(steps) : all[k] = steps[k]
            /\ all[Len(steps) + 1] = <<"leave", i>>
        <4>1. Len(last) = 1 /\ last[1] = <<"leave", i>>
          OBVIOUS
        <4> HIDE DEF last
        <4>2. /\ all \in Seq(Repertoire(t)) /\ Len(all) = Len(steps) + Len(last)
              /\ \A k \in 1 .. Len(steps) + Len(last) :
                    all[k] = IF k <= Len(steps) THEN steps[k] ELSE last[k - Len(steps)]
          BY <1>1, <1>2, ConcatProperties
        <4>3. Len(steps) \in Nat /\ DOMAIN all = 1 .. Len(all)
          BY <4>2, LenProperties
        <4> QED
          BY <4>1, <4>2, <4>3
      <3>2. \A k \in 1 .. Len(steps) : steps[k] \in Plain(t)
        BY ElementOfSeq
      <3> HIDE DEF all
      <3> QED
        BY <2>1, <3>1, <3>2
    <2>4. Len(steps) + 1 \in DOMAIN all
      BY <1>3, ConcatProperties, LenProperties
    <2>5. LeavesIn(all) = {Len(steps) + 1}
      BY <2>3, <2>4 DEF LeavesIn
    <2> QED
      BY <2>5, FS_Singleton DEF Held
  <1>5. Agendas' /\ SubjectsBorn' /\ \A u \in Threads : u # t => agenda'[u] = agenda[u]
    <2>1. Then(t, all)
      OBVIOUS
    <2> HIDE DEF all
    <2>2. Agendas' /\ \A u \in Threads : u # t => agenda'[u] = agenda[u]
      BY <1>3, <2>1, ThenAgenda
    <2>3. SubjectsBorn'
      BY <1>3, <2>1, ThenBorn
    <2> QED
      BY <2>2, <2>3
  <1>6. Held(agenda'[t]) = Held(agenda[t]) + 1 /\ Held(agenda[t]) \in Nat
    <2>1. Then(t, all)
      OBVIOUS
    <2> HIDE DEF all
    <2> QED
      BY <1>3, <1>4, <2>1, ThenHeld
  <1>7. MutexCounts'
    <2>1. lua.count \in Nat /\ t # Nobody
      BY NobodyIsNoThread DEF MutexCounts
    <2>2. Held(agenda[t]) = lua.count
      BY <2>1 DEF MutexCounts, CanLock
    <2>3. lua' \in [by : Threads \cup {Nobody}, count : Nat] /\ lua'.by = t /\ lua'.count = lua.count + 1
      BY <2>1 DEF Lock
    <2>4. \A u \in Threads : u # t => Held(agenda'[u]) = 0
      BY <1>5, NobodyIsNoThread DEF MutexCounts, CanLock
    <2>5. \A u \in Threads : Held(agenda'[u]) = IF u = t THEN lua.count + 1 ELSE 0
      BY <1>6, <2>2, <2>4
    <2> QED
      BY <2>1, <2>3, <2>5 DEF MutexCounts
  <1> QED
    BY <1>5, <1>7

\* The mutex is released as often as it was taken (std::recursive_mutex).
LEMMA LeaveLuaStep ==
  ASSUME AgendaInv, NEW t \in Threads, LeaveLua(t)
  PROVE  AgendaInv' /\ (\A u \in Threads : u # t => agenda'[u] = agenda[u])
  <1> USE DEF AgendaInv
  <1>1. NextIs(t, "leave") /\ Unlock /\ Then(t, <<>>) /\ stage' = stage
    BY DEF LeaveLua, modVars
  <1>2. <<>> \in Seq(Repertoire(t)) /\ <<>> \in Seq(Standing) /\ BornStay
    BY <1>1, EmptySeq DEF BornStay
  <1>3. Agendas' /\ SubjectsBorn' /\ \A u \in Threads : u # t => agenda'[u] = agenda[u]
    <2>1. Agendas' /\ \A u \in Threads : u # t => agenda'[u] = agenda[u]
      BY <1>1, <1>2, ThenAgenda
    <2>2. SubjectsBorn'
      BY <1>1, <1>2, ThenBorn
    <2> QED
      BY <2>1, <2>2
  <1>4. Held(<<>>) = 0
    <2>1. LeavesIn(<<>>) = {}
      BY DEF LeavesIn
    <2> QED
      BY <2>1, FS_EmptySet DEF Held
  <1>5. Held(agenda'[t]) = Held(agenda[t]) - 1 /\ Held(agenda[t]) \in Nat
    <2> DEFINE none == <<>>
    <2>1. Then(t, none) /\ none \in Seq(Repertoire(t)) /\ Held(none) = 0 /\ NextIs(t, "leave")
      BY <1>1, <1>2, <1>4
    <2> HIDE DEF none
    <2> QED
      BY <2>1, ThenHeld
  <1>6. Held(agenda[t]) # 0
    <2>1. agenda[t] \in Seq(Repertoire(t)) /\ agenda[t] # <<>> /\ agenda[t][1][1] = "leave"
      BY <1>1 DEF NextIs, Agendas
    <2>2. 1 \in DOMAIN agenda[t]
      BY <2>1, EmptySeq, LenProperties
    <2> QED
      BY <2>1, <2>2, HeldType
  <1>7. lua.by = t /\ lua.count = Held(agenda[t])
    BY <1>6 DEF MutexCounts
  <1>8. MutexCounts'
    <2>1. lua' = [by |-> IF lua.count = 1 THEN Nobody ELSE t, count |-> lua.count - 1]
      BY <1>1, <1>7 DEF Unlock, MutexCounts
    <2>2. \A u \in Threads : Held(agenda'[u]) = IF u = t THEN lua.count - 1 ELSE 0
      BY <1>3, <1>5, <1>7 DEF MutexCounts
    <2> QED
      BY <1>5, <1>6, <1>7, <2>1, <2>2, NobodyIsNoThread DEF MutexCounts
  <1> QED
    BY <1>3, <1>8

LEMMA StillAgendas ==
  ASSUME AgendaInv, BornStay, agenda' = agenda, lua' = lua
  PROVE  AgendaInv'
  <1>1. SubjectsBorn'
    BY StandingStays DEF AgendaInv, SubjectsBorn
  <1> QED
    BY <1>1 DEF AgendaInv, Agendas, MutexCounts

\* The statements that requests, notices and look-ups put on an agenda.
LEMMA PlainTypes ==
  /\ LoopBuild \subseteq Plain(Loop)
  /\ \A t \in Threads : t # Loop => Appends \subseteq Plain(t)
  /\ \A i \in Born : \A t \in {Loop, Watcher} : <<"join", i>> \in Plain(t) /\ <<"close", i>> \in Plain(t)
  /\ \A i \in Born : <<"uninstall", i>> \in Plain(Watcher) /\ <<"replace", i>> \in Plain(Watcher)
  /\ \A n \in Names : <<"create", n>> \in Plain(Watcher) /\ <<"launch", n>> \in Plain(Watcher)
  /\ \A S \in SUBSET Names : <<"scan", S>> \in Plain(Watcher)
  /\ {<<"pause", 0>>, <<"resume", 0>>} \subseteq Plain(Watcher)
  /\ \A i \in Instances : <<"enter", i>> \in Plain(Async(i)) /\ <<"enter", i>> \in Plain(Loop)
  /\ \A n \in Names : <<"launch", n>> \in Plain(Loop)
  <1>1. LoopBuild \subseteq Standing /\ \A s \in LoopBuild : s[1] # "leave"
    BY DEF Standing, LoopBuild, Born, AgendaSteps, Building
  <1>2. LoopBuild \subseteq Plain(Loop)
    <2>1. LoopBuild \subseteq Repertoire(Loop)
      BY RepertoireType, ThreadKinds
    <2> HIDE DEF LoopBuild, Standing
    <2> QED
      BY <1>1, <2>1 DEF Plain
  <1>3. \A t \in Threads : t # Loop => Appends \subseteq Plain(t)
    <2>1. Appends \subseteq Standing /\ \A s \in Appends : s[1] # "leave"
      BY DEF Standing, Appends, AgendaSteps
    <2>2. \A t \in Threads : t # Loop => Appends \subseteq Repertoire(t)
      BY RepertoireType
    <2> HIDE DEF Appends, Standing
    <2> QED
      BY <2>1, <2>2 DEF Plain
  <1>4. \A i \in Born : \A op \in {"join", "close", "uninstall", "replace"} :
            /\ <<op, i>> \in Standing \cap WatcherSteps
            /\ op \in {"join", "close"} => <<op, i>> \in LoopSteps
    BY DEF Standing, Born, AgendaSteps, Building, LoopSteps, WatcherSteps
  <1>5. \A i \in Born : \A t \in {Loop, Watcher} : <<"join", i>> \in Plain(t) /\ <<"close", i>> \in Plain(t)
    <2> HIDE DEF Standing, LoopSteps, WatcherSteps
    <2> QED
      BY <1>4, RepertoireOf DEF Plain
  <1>6. \A i \in Born : <<"uninstall", i>> \in Plain(Watcher) /\ <<"replace", i>> \in Plain(Watcher)
    <2> HIDE DEF Standing, WatcherSteps
    <2> QED
      BY <1>4, RepertoireOf DEF Plain
  <1>7. \A n \in Names : <<"create", n>> \in Plain(Watcher) /\ <<"launch", n>> \in Plain(Watcher)
    <2>1. \A n \in Names : \A op \in {"create", "launch"} : <<op, n>> \in Standing \cap WatcherSteps
      BY DEF Standing, AgendaSteps, Building, WatcherSteps
    <2> HIDE DEF Standing, WatcherSteps
    <2> QED
      BY <2>1, RepertoireOf DEF Plain
  <1>8. \A S \in SUBSET Names : <<"scan", S>> \in Plain(Watcher)
    <2>1. \A S \in SUBSET Names : <<"scan", S>> \in Standing \cap WatcherSteps
      BY DEF Standing, AgendaSteps, Scanning, WatcherSteps
    <2> HIDE DEF Standing, WatcherSteps
    <2> QED
      BY <2>1, RepertoireOf DEF Plain
  <1>9. {<<"pause", 0>>, <<"resume", 0>>} \subseteq Plain(Watcher)
    <2>1. {<<"pause", 0>>, <<"resume", 0>>} \subseteq Standing \cap WatcherSteps
      BY DEF Standing, AgendaSteps, Scanning, WatcherSteps
    <2> HIDE DEF Standing, WatcherSteps
    <2> QED
      BY <2>1, RepertoireOf DEF Plain
  <1>10. \A i \in Instances : <<"enter", i>> \in Plain(Async(i)) /\ <<"enter", i>> \in Plain(Loop)
    <2>1. \A i \in Instances : <<"enter", i>> \in Standing \cap LoopSteps
      BY DEF Standing, AgendaSteps, LoopSteps
    <2> HIDE DEF Standing, LoopSteps
    <2> QED
      BY <2>1, RepertoireOf DEF Plain
  <1>11. \A n \in Names : <<"launch", n>> \in Plain(Loop)
    <2>1. \A n \in Names : <<"launch", n>> \in LoopBuild
      BY DEF LoopBuild
    <2> QED
      BY <1>2, <2>1
  <1> QED
    BY <1>2, <1>3, <1>5, <1>6, <1>7, <1>8, <1>9, <1>10, <1>11

LEMMA AskedType ==
  ASSUME Mods, NEW t \in Threads, NEW r \in Asks
  PROVE  Asked(t, r) \in Seq(Plain(t))
  <1>1. CASE phase = "boot"
    BY <1>1, EmptySeq DEF Asked
  <1>2. CASE phase # "boot" /\ t = Loop
    <2>1. Handling(r) \in Seq(LoopBuild)
      BY HandlingType
    <2>2. Seq(LoopBuild) \subseteq Seq(Plain(Loop))
      BY PlainTypes, SeqMonotonic
    <2> QED
      BY <1>2, <2>1, <2>2 DEF Asked
  <1>3. CASE phase # "boot" /\ t # Loop
    <2>1. <<"append", r>> \in Plain(t)
      BY <1>3, PlainTypes DEF Appends
    <2>2. Asked(t, r) = <<<<"append", r>>>>
      BY <1>3 DEF Asked
    <2> QED
      BY <2>1, <2>2
  <1> QED
    BY <1>1, <1>2, <1>3

\* Lua code runs and may ask for something (LuaMod: a callback, main.lua).
LEMMA LuaStep ==
  ASSUME LoopInv, BornStay, NEW t \in Threads, NEW i \in Instances,
         <<"leave", i>> \in Repertoire(t), ~NextIs(t, "leave"), RunLua(t, i)
  PROVE  /\ AgendaInv' /\ (\A u \in Threads : u # t => agenda'[u] = agenda[u])
         /\ requests' \in 0 .. MaxRequests /\ inlined' \in BOOLEAN
  <1>0. AgendaInv
    BY DEF LoopInv, AgendaInv
  <1>1. CanLock(t) /\ Lock(t)
    BY DEF RunLua
  <1>2. CASE Then(t, <<<<"leave", i>>>>) /\ UNCHANGED <<requests, inlined>>
    <2> DEFINE none == <<>>
    <2>1. none \in Seq(Plain(t))
      <3>1. <<>> \in Seq(Plain(t))
        BY EmptySeq
      <3> QED
        BY <3>1
    <2>2. Then(t, none \o <<<<"leave", i>>>>)
      <3>1. <<<<"leave", i>>>> \in Seq(Leaves)
        BY DEF Leaves
      <3>2. none \o <<<<"leave", i>>>> = <<<<"leave", i>>>>
        BY <3>1, ConcatEmptySeq
      <3> QED
        BY <1>2, <3>2
    <2> HIDE DEF none
    <2>3. AgendaInv' /\ (\A u \in Threads : u # t => agenda'[u] = agenda[u])
      BY <1>0, <1>1, <2>1, <2>2, LockStep
    <2> QED
      BY <1>2, <2>3 DEF LoopInv, Scalars
  <1>3. CASE \E r \in LuaRequests(i) :
              /\ requests + Cost(r) <= MaxRequests
              /\ requests' = requests + Cost(r)
              /\ Then(t, Asked(t, r) \o <<<<"leave", i>>>>)
              /\ inlined' = (inlined \/ (t = Loop /\ phase # "boot"))
    <2>1. PICK r \in LuaRequests(i) :
              /\ requests + Cost(r) <= MaxRequests
              /\ requests' = requests + Cost(r)
              /\ Then(t, Asked(t, r) \o <<<<"leave", i>>>>)
              /\ inlined' = (inlined \/ (t = Loop /\ phase # "boot"))
      BY <1>3
    <2>2. r \in Asks /\ Cost(r) \in Nat
      BY RequestTypes
    <2>3. Asked(t, r) \in Seq(Plain(t))
      BY <2>2, AskedType DEF LoopInv
    <2>4. AgendaInv' /\ (\A u \in Threads : u # t => agenda'[u] = agenda[u])
      BY <1>0, <1>1, <2>1, <2>3, LockStep
    <2>5. requests' \in 0 .. MaxRequests
      BY <2>1, <2>2, LoopConstants DEF LoopInv, Scalars
    <2> QED
      BY <2>1, <2>4, <2>5
  <1> QED
    BY <1>2, <1>3 DEF RunLua

-----------------------------------------------------------------------------
(* The types are kept.                                                      *)

LEMMA LoopInvInit == Init => LoopInv
  <1> SUFFICES ASSUME Init PROVE LoopInv
    OBVIOUS
  <1> DEFINE launches(order) == [k \in DOMAIN order |-> <<"launch", order[k]>>]
  <1>1. PICK order : /\ order \in Seq(Names)
                     /\ agenda = [t \in Threads |-> IF t = Loop THEN launches(order) ELSE <<>>]
    <2>0. PICK enabled \in SUBSET Names : \E order \in SetToSeqs(enabled) :
              agenda = [t \in Threads |-> IF t = Loop THEN launches(order) ELSE <<>>]
      BY DEF Init
    <2>1. PICK order \in SetToSeqs(enabled) :
              agenda = [t \in Threads |-> IF t = Loop THEN launches(order) ELSE <<>>]
      BY <2>0
    <2>2. IsFiniteSet(enabled) /\ Cardinality(enabled) \in Nat
      BY LoopConstants, FS_Subset, FS_CardinalityType
    <2>3. order \in [1 .. Cardinality(enabled) -> enabled]
      BY <2>1 DEF SetToSeqs
    <2>4. order \in [1 .. Cardinality(enabled) -> Names]
      BY <2>1, <2>3
    <2>5. order \in Seq(Names)
      BY <2>2, <2>4, FunIsSeq
    <2> QED
      BY <2>1, <2>5
  <1>2. launches(order) \in Seq(Plain(Loop))
    <2>1. DOMAIN order = 1 .. Len(order) /\ Len(order) \in Nat /\ \A k \in DOMAIN order : order[k] \in Names
      BY <1>1, LenProperties, ElementOfSeq
    <2>2. launches(order) \in [1 .. Len(order) -> Plain(Loop)]
      BY <2>1, PlainTypes
    <2> HIDE DEF launches
    <2> QED
      BY <2>1, <2>2, FunIsSeq
  <1> HIDE DEF launches
  <1>3. <<>> \in Seq(AgendaSteps) /\ <<>> \in Seq(Standing) /\ Held(<<>>) = 0
        /\ \A t \in Threads : <<>> \in Seq(Repertoire(t))
    <2>1. LeavesIn(<<>>) = {}
      BY DEF LeavesIn
    <2> QED
      BY <2>1, EmptySeq, FS_EmptySet DEF Held
  <1>4. /\ launches(order) \in Seq(Repertoire(Loop)) /\ launches(order) \in Seq(Standing)
        /\ launches(order) \in Seq(AgendaSteps) /\ Held(launches(order)) = 0
    <2>1. Plain(Loop) \subseteq Repertoire(Loop) /\ Plain(Loop) \subseteq Standing
          /\ Plain(Loop) \subseteq AgendaSteps /\ \A s \in Plain(Loop) : s[1] # "leave"
      BY DEF Plain, Standing
    <2> HIDE DEF Plain, Standing
    <2> QED
      BY <1>2, <2>1, NoLeaves, SeqMonotonic
  <1>5. Agendas
    BY <1>1, <1>3, <1>4 DEF Agendas
  <1>6. SubjectsBorn
    BY <1>1, <1>3, <1>4 DEF SubjectsBorn
  <1>7. MutexCounts
    <2>1. lua = [by |-> Nobody, count |-> 0]
      BY DEF Init
    <2> QED
      BY <1>1, <1>3, <1>4, <2>1, NobodyIsNoThread DEF MutexCounts
  <1>8. Mods
    <2>0. Len(ModNames) \in Nat /\ \A k \in 1 .. Len(ModNames) : ModNames[k] \in Names
      BY ModNamesType, ElementOfSeq
    <2>1. 1 .. Len(ModNames) \subseteq Instances
      BY <2>0, LoopConstants DEF Instances
    <2>2. m_mods \in [1 .. Len(ModNames) -> Instances]
      BY <2>1 DEF Init
    <2>3. m_mods \in Seq(Instances)
      BY <2>0, <2>2, FunIsSeq
    <2>4. name \in [Instances -> Names \cup {NoName}] /\ stage \in [Instances -> {"unborn", "created", "started", "closed"}]
      BY <2>0 DEF Init, Instances
    <2>5. \A i \in Instances : stage[i] # "unborn" => name[i] \in Names
      BY <2>0 DEF Init, Instances
    <2>6. \A k \in DOMAIN m_mods : stage[m_mods[k]] # "unborn"
      BY <2>0, <2>1 DEF Init
    <2> QED
      BY <2>3, <2>4, <2>5, <2>6 DEF Init, Mods
  <1>9. Queue
    BY EmptySeq DEF Init, Queue
  <1>10. Scalars
    <2>1. /\ phase = "boot" /\ m_pause_events_processing = FALSE /\ sync = "Idle" /\ watcher = "poll"
          /\ requests = 0 /\ notices = 0 /\ overwritten = FALSE /\ inlined = FALSE
      BY Zenon DEF Init
    <2>2. requests \in 0 .. MaxRequests /\ notices \in 0 .. MaxNotices
      BY <2>1, LoopConstants
    <2> QED
      BY <2>1, <2>2, Zenon DEF Scalars
  <1> QED
    BY <1>5, <1>6, <1>7, <1>8, <1>9, <1>10 DEF LoopInv

\* The steps that only look at the mods.
LEMMA ModsStay ==
  ASSUME Mods, modVars' = modVars
  PROVE  Mods' /\ BornStay
  BY DEF Mods, modVars, BornStay

LEMMA QueueStays ==
  ASSUME Queue, queueVars' = queueVars
  PROVE  Queue'
  BY DEF Queue, queueVars

\* The head of an agenda that is about an instance is about one that exists.
LEMMA HeadBorn ==
  ASSUME LoopInv, NEW t \in Threads,
         NextIs(t, "uninstall") \/ NextIs(t, "join") \/ NextIs(t, "close") \/ NextIs(t, "replace")
  PROVE  Subject(t) \in Born
  <1>1. agenda[t] # <<>> /\ agenda[t] \in Seq(Standing) /\ agenda[t][1][1] \in {"uninstall", "join", "close", "replace"}
    BY DEF NextIs, LoopInv, SubjectsBorn
  <1>2. agenda[t][1] \in Standing
    BY <1>1, EmptySeq, LenProperties, ElementOfSeq
  <1>3. Subject(t) \in Instances
    BY Subjects DEF LoopInv, SubjectsOf
  <1> QED
    BY <1>1, <1>2, <1>3 DEF Standing, Born, Subject

\* AppendEvent: one request more in the queue (queue_event).
LEMMA AppendKeeps ==
  ASSUME LoopInv, NEW t \in Threads, AppendEvent(t)
  PROVE  LoopInv'
  <1>1. AgendaInv'
    <2>1. <<>> \in Seq(Plain(t)) /\ ~NextIs(t, "leave")
      BY EmptySeq DEF AppendEvent, NextIs
    <2> QED
      BY <2>1, PlainStep, ModsStay DEF LoopInv, AgendaInv, AppendEvent
  <1>2. Queue'
    <2>1. Subject(t) \in Asks
      BY Subjects DEF AppendEvent, LoopInv, SubjectsOf
    <2>2. m_queued_events' \in Seq(Asks) /\ Len(m_queued_events') = Len(m_queued_events) + 1
          /\ Len(m_queued_events) \in Nat
      BY <2>1, AppendProperties, LenProperties DEF AppendEvent, LoopInv, Queue
    <2> QED
      BY <2>2 DEF AppendEvent, LoopInv, Queue
  <1> QED
    BY <1>1, <1>2, ModsStay DEF LoopInv, AgendaInv, AppendEvent, Scalars, syncVars

\* LeaveLua, SetPause and ScanMods leave the mods alone.
LEMMA LeaveKeeps ==
  ASSUME LoopInv, NEW t \in Threads, LeaveLua(t)
  PROVE  LoopInv'
  <1>1. AgendaInv'
    BY LeaveLuaStep DEF LoopInv, AgendaInv
  <1> QED
    BY <1>1, ModsStay, QueueStays DEF LoopInv, AgendaInv, LeaveLua, Scalars, syncVars

LEMMA SetPauseKeeps ==
  ASSUME LoopInv, NEW t \in Threads, SetPause(t)
  PROVE  LoopInv'
  <1>1. AgendaInv'
    <2>1. <<>> \in Seq(Plain(t)) /\ ~NextIs(t, "leave")
      BY EmptySeq DEF SetPause, NextIs
    <2> QED
      BY <2>1, PlainStep, ModsStay DEF LoopInv, AgendaInv, SetPause
  <1> QED
    BY <1>1, ModsStay, QueueStays DEF LoopInv, AgendaInv, SetPause, Scalars, syncVars, NextIs

LEMMA ScanKeeps ==
  ASSUME LoopInv, NEW t \in Threads, ScanMods(t)
  PROVE  LoopInv'
  <1>1. t = Watcher /\ Subject(t) \in SUBSET Names /\ ~NextIs(t, "leave")
    BY Subjects DEF ScanMods, LoopInv, SubjectsOf, NextIs
  <1>2. PICK steps : steps \in Seq(Plain(t)) /\ Then(t, steps)
    <2>1. CASE Then(t, <<>>)
      BY <2>1, EmptySeq
    <2>2. ASSUME NEW n \in Subject(t), Then(t, Birth(n) \o <<<<"scan", Subject(t) \ {n}>>>>)
          PROVE  \E steps : steps \in Seq(Plain(t)) /\ Then(t, steps)
      <3>1. Birth(n) \in Seq(Plain(t))
        BY <1>1, PlainTypes DEF Birth
      <3>2. <<<<"scan", Subject(t) \ {n}>>>> \in Seq(Plain(t))
        <4>1. <<"scan", Subject(t) \ {n}>> \in Plain(t)
          BY <1>1, PlainTypes
        <4> QED
          BY <4>1
      <3> QED
        BY <2>2, <3>1, <3>2, ConcatProperties
    <2> QED
      BY <2>1, <2>2 DEF ScanMods
  <1>3. AgendaInv'
    BY <1>1, <1>2, PlainStep, ModsStay DEF LoopInv, AgendaInv, ScanMods
  <1> QED
    BY <1>3, ModsStay, QueueStays DEF LoopInv, AgendaInv, ScanMods, Scalars, syncVars

\* The steps of an uninstall.
LEMMA StopAsyncKeeps ==
  ASSUME LoopInv, NEW t \in Threads, StopAsync(t)
  PROVE  LoopInv'
  <1>1. t \in {Loop, Watcher} /\ Subject(t) \in Born /\ Subject(t) \in Instances /\ ~NextIs(t, "leave")
    BY Subjects, HeadBorn DEF StopAsync, LoopInv, SubjectsOf, NextIs, Born
  <1>2. PICK steps : steps \in Seq(Plain(t)) /\ Then(t, steps)
    <2>1. <<"close", Subject(t)>> \in Plain(t) /\ <<"join", Subject(t)>> \in Plain(t)
      BY <1>1, PlainTypes
    <2>2. <<<<"close", Subject(t)>>>> \in Seq(Plain(t))
          /\ <<<<"join", Subject(t)>>, <<"close", Subject(t)>>>> \in Seq(Plain(t))
      BY <2>1
    <2> QED
      BY <2>2 DEF StopAsync
  <1>3. Mods' /\ BornStay
    BY <1>1 DEF LoopInv, Mods, StopAsync, BornStay
  <1>4. AgendaInv'
    BY <1>1, <1>2, <1>3, PlainStep DEF LoopInv, AgendaInv, StopAsync
  <1> QED
    BY <1>3, <1>4, QueueStays DEF LoopInv, AgendaInv, StopAsync, Scalars, syncVars

LEMMA JoinKeeps ==
  ASSUME LoopInv, NEW t \in Threads, JoinAsync(t)
  PROVE  LoopInv'
  <1>1. Subject(t) \in Instances /\ ~NextIs(t, "leave")
    BY Subjects DEF JoinAsync, LoopInv, SubjectsOf, NextIs
  <1>3. Mods' /\ BornStay
    BY <1>1 DEF LoopInv, Mods, JoinAsync, BornStay
  <1>4. AgendaInv'
    <2>1. <<>> \in Seq(Plain(t))
      BY EmptySeq
    <2> QED
      BY <1>1, <2>1, <1>3, PlainStep DEF LoopInv, AgendaInv, JoinAsync
  <1> QED
    BY <1>3, <1>4, QueueStays DEF LoopInv, AgendaInv, JoinAsync, Scalars, syncVars

LEMMA CloseKeeps ==
  ASSUME LoopInv, NEW t \in Threads, CloseState(t)
  PROVE  LoopInv'
  <1>1. Subject(t) \in Born /\ Subject(t) \in Instances /\ ~NextIs(t, "leave")
    BY HeadBorn DEF CloseState, NextIs, Born
  <1>2. stage' = [stage EXCEPT ![Subject(t)] = "closed"] /\ UNCHANGED <<m_mods, name, stopping, async>>
    BY DEF CloseState
  <1>3. Mods' /\ BornStay
    BY <1>1, <1>2 DEF LoopInv, Mods, BornStay, Born
  <1>4. AgendaInv'
    <2>1. <<>> \in Seq(Plain(t))
      BY EmptySeq
    <2> QED
      BY <1>1, <2>1, <1>3, PlainStep DEF LoopInv, AgendaInv, CloseState
  <1> QED
    BY <1>3, <1>4, QueueStays DEF LoopInv, AgendaInv, CloseState, Scalars, syncVars

\* m_mods once the mod at k is erased, and once i is replaced by j.
LEMMA Removed ==
  ASSUME NEW S, NEW s \in Seq(S), NEW k \in DOMAIN s
  PROVE  /\ RemoveAt(s, k) \in Seq(S)
         /\ \A j \in DOMAIN RemoveAt(s, k) :
              \E l \in DOMAIN s : l # k /\ RemoveAt(s, k)[j] = s[l] /\ l = IF j < k THEN j ELSE j + 1
         /\ \A l \in DOMAIN s : l # k => \E j \in DOMAIN RemoveAt(s, k) : RemoveAt(s, k)[j] = s[l]
  <1>1. DOMAIN s = 1 .. Len(s) /\ Len(s) \in Nat /\ k \in 1 .. Len(s)
    BY LenProperties
  <1> DEFINE a == SubSeq(s, 1, k - 1)
             b == SubSeq(s, k + 1, Len(s))
  <1>2. /\ a \in Seq(S) /\ Len(a) = k - 1 /\ \A j \in 1 .. k - 1 : a[j] = s[j]
    <2>1. \A j \in 1 .. k - 1 : s[j] \in S
      BY <1>1, ElementOfSeq
    <2>2. 1 \in Int /\ k - 1 \in Int /\ (IF 1 <= k - 1 THEN (k - 1) - 1 + 1 ELSE 0) = k - 1
      BY <1>1
    <2> QED
      BY <1>1, <2>1, <2>2, SubSeqProperties
  <1>3. /\ b \in Seq(S) /\ Len(b) = Len(s) - k /\ \A j \in 1 .. Len(s) - k : b[j] = s[k + j]
    <2>1. \A j \in k + 1 .. Len(s) : s[j] \in S
      BY <1>1, ElementOfSeq
    <2>2. k + 1 \in Int /\ Len(s) \in Int /\ (IF k + 1 <= Len(s) THEN Len(s) - (k + 1) + 1 ELSE 0) = Len(s) - k
      BY <1>1
    <2> QED
      BY <1>1, <2>1, <2>2, SubSeqProperties
  <1>4. RemoveAt(s, k) = a \o b
    BY DEF RemoveAt
  <1> HIDE DEF a, b
  <1>5. /\ RemoveAt(s, k) \in Seq(S) /\ Len(RemoveAt(s, k)) = Len(s) - 1
        /\ \A j \in 1 .. Len(s) - 1 : RemoveAt(s, k)[j] = IF j < k THEN s[j] ELSE s[j + 1]
    <2>1. /\ a \o b \in Seq(S) /\ Len(a \o b) = Len(a) + Len(b)
          /\ \A j \in 1 .. Len(a) + Len(b) : (a \o b)[j] = IF j <= Len(a) THEN a[j] ELSE b[j - Len(a)]
      BY <1>2, <1>3, ConcatProperties
    <2>2. \A j \in 1 .. Len(s) - 1 : (a \o b)[j] = IF j < k THEN s[j] ELSE s[j + 1]
      <3> SUFFICES ASSUME NEW j \in 1 .. Len(s) - 1
                   PROVE  (a \o b)[j] = IF j < k THEN s[j] ELSE s[j + 1]
        OBVIOUS
      <3>1. (a \o b)[j] = IF j <= k - 1 THEN a[j] ELSE b[j - (k - 1)]
        BY <1>1, <1>2, <1>3, <2>1
      <3>2. CASE j < k
        BY <1>1, <1>2, <3>1, <3>2
      <3>3. CASE j >= k
        <4>1. j - (k - 1) \in 1 .. Len(s) - k /\ k + (j - (k - 1)) = j + 1
          BY <1>1, <3>3
        <4>2. b[j - (k - 1)] = s[j + 1]
          BY <1>3, <4>1
        <4>3. ~(j <= k - 1) /\ ~(j < k)
          BY <1>1, <3>3
        <4> QED
          BY <3>1, <4>2, <4>3, Zenon
      <3>4. j < k \/ j >= k
        BY <1>1
      <3> QED
        BY <3>2, <3>3, <3>4
    <2> QED
      BY <1>1, <1>2, <1>3, <1>4, <2>1, <2>2
  <1>6. DOMAIN RemoveAt(s, k) = 1 .. Len(s) - 1
    BY <1>5, LenProperties
  <1>7. \A l \in DOMAIN s : l # k => \E j \in DOMAIN RemoveAt(s, k) : RemoveAt(s, k)[j] = s[l]
    <2> SUFFICES ASSUME NEW l \in DOMAIN s, l # k PROVE \E j \in DOMAIN RemoveAt(s, k) : RemoveAt(s, k)[j] = s[l]
      OBVIOUS
    <2>1. CASE l < k
      BY <1>1, <1>5, <1>6, <2>1
    <2>2. CASE l > k
      <3>1. l - 1 \in DOMAIN RemoveAt(s, k) /\ RemoveAt(s, k)[l - 1] = s[l]
        BY <1>1, <1>5, <1>6, <2>2
      <3> QED
        BY <3>1
    <2> QED
      BY <1>1, <2>1, <2>2
  <1> QED
    BY <1>1, <1>5, <1>6, <1>7

LEMMA Replaced ==
  ASSUME NEW S, NEW s \in Seq(S), NEW i, NEW j \in S
  PROVE  /\ ReplaceAll(s, i, j) \in Seq(S)
         /\ DOMAIN ReplaceAll(s, i, j) = DOMAIN s
         /\ \A k \in DOMAIN s : ReplaceAll(s, i, j)[k] = IF s[k] = i THEN j ELSE s[k]
  <1>1. DOMAIN s = 1 .. Len(s) /\ Len(s) \in Nat /\ \A k \in 1 .. Len(s) : s[k] \in S
    BY LenProperties, ElementOfSeq
  <1>2. ReplaceAll(s, i, j) \in [1 .. Len(s) -> S]
    BY <1>1 DEF ReplaceAll
  <1>3. ReplaceAll(s, i, j) \in Seq(S)
    <2> HIDE DEF ReplaceAll
    <2> QED
      BY <1>1, <1>2, FunIsSeq
  <1> QED
    BY <1>1, <1>3 DEF ReplaceAll

\* A new instance takes the next id (the constructor of Mod).
LEMMA ConstructKeeps ==
  ASSUME Mods, NEW new \in Instances, NEW n \in Names, Construct(new, n)
  PROVE  /\ name' \in [Instances -> Names \cup {NoName}]
         /\ stage' \in [Instances -> {"unborn", "created", "started", "closed"}]
         /\ \A i \in Instances : stage'[i] # "unborn" => name'[i] \in Names
         /\ stage[new] = "unborn" /\ stage'[new] = "created" /\ name'[new] = n
         /\ \A i \in Instances : i # new => stage'[i] = stage[i] /\ name'[i] = name[i]
         /\ BornStay
  <1>1. /\ stage[new] = "unborn"
        /\ name' = [name EXCEPT ![new] = n] /\ stage' = [stage EXCEPT ![new] = "created"]
    BY DEF Construct
  <1>2. /\ stage'[new] = "created" /\ name'[new] = n
        /\ \A i \in Instances : i # new => stage'[i] = stage[i] /\ name'[i] = name[i]
    BY <1>1 DEF Mods
  <1> QED
    BY <1>1, <1>2 DEF Mods, BornStay

\* Which of the four changes a thread makes.
Deletes(t) ==
    /\ NextIs(t, "delete")
    /\ \/ \E k \in DOMAIN m_mods : m_mods[k] = Subject(t) /\ m_mods' = RemoveAt(m_mods, k)
       \/ Subject(t) \notin ToSet(m_mods) /\ UNCHANGED m_mods
    /\ UNCHANGED <<name, stage>>
Clears(t) == NextIs(t, "clear") /\ m_mods' = <<>> /\ UNCHANGED <<name, stage>>
Creates(t, new) ==
    NextIs(t, "create") /\ Construct(new, Subject(t)) /\ m_mods' = Append(m_mods, new)
Replaces(t, new) ==
    /\ NextIs(t, "replace")
    /\ Construct(new, name[Subject(t)])
    /\ m_mods' = ReplaceAll(m_mods, Subject(t), new)

LEMMA ChangeCases ==
  ASSUME NEW t, ChangeMods(t)
  PROVE  /\ \/ Deletes(t) \/ Clears(t)
            \/ \E new \in Instances : Creates(t, new)
            \/ \E new \in Instances : Replaces(t, new)
         /\ ~NextIs(t, "leave")
         /\ m_pause_events_processing' \in BOOLEAN
         /\ Then(t, <<>>)
         /\ UNCHANGED <<stopping, async, lua, queueVars, phase, syncVars, requests, inlined>>
  <1>1. CASE NextIs(t, "delete")
    BY <1>1 DEF ChangeMods, Deletes, NextIs
  <1>2. CASE NextIs(t, "clear")
    BY <1>2 DEF ChangeMods, Clears, NextIs
  <1>3. CASE NextIs(t, "create")
    BY <1>3 DEF ChangeMods, Creates, NextIs
  <1>4. CASE NextIs(t, "replace")
    BY <1>4 DEF ChangeMods, Replaces, NextIs
  <1> QED
    BY <1>1, <1>2, <1>3, <1>4 DEF ChangeMods

LEMMA ChangeModsKeeps ==
  ASSUME LoopInv, NEW t \in Threads, ChangeMods(t)
  PROVE  LoopInv' /\ BornStay
  <1> USE DEF LoopInv
  <1>1. Mods' /\ BornStay
    <2>0. stopping' = stopping /\ async' = async
      BY ChangeCases
    <2>1. CASE Deletes(t)
      <3>1. name' = name /\ stage' = stage
        BY <2>1 DEF Deletes
      <3>2. CASE m_mods' = m_mods
        BY <2>0, <3>1, <3>2 DEF Mods, BornStay
      <3>3. ASSUME NEW k \in DOMAIN m_mods, m_mods' = RemoveAt(m_mods, k)
            PROVE  Mods' /\ BornStay
        <4>1. m_mods' \in Seq(Instances) /\ \A j \in DOMAIN m_mods' : \E l \in DOMAIN m_mods : m_mods'[j] = m_mods[l]
          BY <3>3, Removed DEF Mods
        <4> QED
          BY <2>0, <3>1, <4>1 DEF Mods, BornStay
      <3> QED
        BY <2>1, <3>2, <3>3 DEF Deletes
    <2>2. CASE Clears(t)
      <3>1. name' = name /\ stage' = stage /\ m_mods' = <<>>
        BY <2>2 DEF Clears
      <3> QED
        BY <2>0, <3>1, EmptySeq DEF Mods, BornStay
    <2>3. ASSUME NEW new \in Instances, Creates(t, new)
          PROVE  Mods' /\ BornStay
      <3>1. Subject(t) \in Names
        BY <2>3, Subjects DEF Creates, SubjectsOf
      <3>2. /\ name' \in [Instances -> Names \cup {NoName}]
            /\ stage' \in [Instances -> {"unborn", "created", "started", "closed"}]
            /\ \A i \in Instances : stage'[i] # "unborn" => name'[i] \in Names
            /\ stage'[new] = "created" /\ BornStay
        BY <2>3, <3>1, ConstructKeeps DEF Creates
      <3>3. m_mods \in Seq(Instances) /\ m_mods' = Append(m_mods, new)
        BY <2>3 DEF Creates, Mods
      <3>4. /\ m_mods' \in Seq(Instances) /\ DOMAIN m_mods = 1 .. Len(m_mods)
            /\ DOMAIN m_mods' = 1 .. Len(m_mods) + 1 /\ Len(m_mods) \in Nat
            /\ \A k \in 1 .. Len(m_mods) : m_mods'[k] = m_mods[k]
            /\ m_mods'[Len(m_mods) + 1] = new
        BY <3>3, AppendProperties, LenProperties
      <3>5. \A k \in DOMAIN m_mods' : stage'[m_mods'[k]] # "unborn"
        BY <3>2, <3>4, ElementOfSeq DEF Mods, BornStay
      <3> QED
        BY <2>0, <3>2, <3>4, <3>5 DEF Mods
    <2>4. ASSUME NEW new \in Instances, Replaces(t, new)
          PROVE  Mods' /\ BornStay
      <3>1. name[Subject(t)] \in Names
        BY <2>4, HeadBorn DEF Replaces, Born, Mods
      <3>2. /\ name' \in [Instances -> Names \cup {NoName}]
            /\ stage' \in [Instances -> {"unborn", "created", "started", "closed"}]
            /\ \A i \in Instances : stage'[i] # "unborn" => name'[i] \in Names
            /\ stage'[new] = "created" /\ BornStay
        BY <2>4, <3>1, ConstructKeeps DEF Replaces
      <3>3. /\ m_mods' \in Seq(Instances) /\ DOMAIN m_mods' = DOMAIN m_mods
            /\ \A k \in DOMAIN m_mods : m_mods'[k] = new \/ m_mods'[k] = m_mods[k]
        BY <2>4, Replaced DEF Replaces, Mods
      <3>4. \A k \in DOMAIN m_mods : m_mods[k] \in Instances /\ stage[m_mods[k]] # "unborn"
        BY ElementOfSeq, LenProperties DEF Mods
      <3>5. \A k \in DOMAIN m_mods' : stage'[m_mods'[k]] # "unborn"
        BY <3>2, <3>3, <3>4 DEF BornStay
      <3> QED
        BY <2>0, <3>2, <3>3, <3>5 DEF Mods
    <2> QED
      BY <2>1, <2>2, <2>3, <2>4, ChangeCases
  <1>2. AgendaInv'
    <2>1. <<>> \in Seq(Plain(t))
      BY EmptySeq
    <2> QED
      BY <1>1, <2>1, ChangeCases, PlainStep DEF AgendaInv
  <1>3. Queue' /\ Scalars'
    BY ChangeCases, QueueStays DEF Scalars, syncVars
  <1> QED
    BY <1>1, <1>2, <1>3 DEF AgendaInv

\* The mod that start_mod finds.
Waiting(n) == {k \in DOMAIN m_mods : name[m_mods[k]] = n /\ stage[m_mods[k]] = "created"}
First(n) == m_mods[CHOOSE k \in Waiting(n) : \A l \in Waiting(n) : k <= l]

LEMMA FirstProperties ==
  ASSUME Mods, NEW n, Waiting(n) # {}
  PROVE  /\ First(n) \in Instances /\ name[First(n)] = n /\ stage[First(n)] = "created"
         /\ \E k \in DOMAIN m_mods : First(n) = m_mods[k]
  <1>1. DOMAIN m_mods = 1 .. Len(m_mods) /\ Len(m_mods) \in Nat
    BY LenProperties DEF Mods
  <1>2. Waiting(n) \in SUBSET Nat /\ Waiting(n) \subseteq DOMAIN m_mods
    BY <1>1 DEF Waiting
  <1>3. \E k \in Waiting(n) : \A l \in Waiting(n) : k <= l
    BY <1>2, LeastNat
  <1>4. PICK k \in Waiting(n) : First(n) = m_mods[k]
    BY <1>3 DEF First
  <1>5. m_mods[k] \in Instances
    BY <1>1, <1>2, ElementOfSeq DEF Mods
  <1> QED
    BY <1>2, <1>4, <1>5 DEF Waiting

\* The two outcomes of start_mod.
LEMMA StartCases ==
  ASSUME NEW t, StartMod(t)
  PROVE  /\ NextIs(t, "launch")
         /\ UNCHANGED <<m_mods, name, stopping, queueVars, phase, m_pause_events_processing, syncVars>>
         /\ \/ /\ Waiting(Subject(t)) = {}
               /\ Then(t, <<>>) /\ UNCHANGED <<stage, async, lua, requests, inlined>>
            \/ /\ Waiting(Subject(t)) # {}
               /\ RunLua(t, First(Subject(t)))
               /\ stage' = [stage EXCEPT ![First(Subject(t))] = "started"]
               /\ async' = [async EXCEPT ![First(Subject(t))] = "running"]
  BY DEF StartMod, Waiting, First

LEMMA StartKeeps ==
  ASSUME LoopInv, NEW t \in Threads, StartMod(t)
  PROVE  LoopInv'
  <1> USE DEF LoopInv
  <1>1. /\ UNCHANGED <<m_mods, name, stopping, queueVars, phase, m_pause_events_processing, syncVars>>
        /\ ~NextIs(t, "leave") /\ t \in {Loop, Watcher}
    BY StartCases, Subjects DEF NextIs, SubjectsOf
  <1>2. Queue'
    BY <1>1, QueueStays
  <1>3. CASE /\ Waiting(Subject(t)) = {}
             /\ Then(t, <<>>) /\ UNCHANGED <<stage, async, lua, requests, inlined>>
    <2>1. Mods' /\ BornStay
      BY <1>1, <1>3, ModsStay DEF modVars
    <2>2. <<>> \in Seq(Plain(t))
      BY EmptySeq
    <2>3. AgendaInv'
      BY <1>1, <1>3, <2>1, <2>2, PlainStep DEF AgendaInv
    <2> QED
      BY <1>1, <1>2, <1>3, <2>1, <2>3 DEF AgendaInv, Scalars, syncVars
  <1>4. CASE /\ Waiting(Subject(t)) # {}
             /\ RunLua(t, First(Subject(t)))
             /\ stage' = [stage EXCEPT ![First(Subject(t))] = "started"]
             /\ async' = [async EXCEPT ![First(Subject(t))] = "running"]
    <2> DEFINE i == First(Subject(t))
    <2>1. i \in Instances /\ stage[i] = "created"
      BY <1>4, FirstProperties
    <2> HIDE DEF i
    <2>2. RunLua(t, i) /\ stage' = [stage EXCEPT ![i] = "started"] /\ async' = [async EXCEPT ![i] = "running"]
      BY <1>4 DEF i
    <2>3. Mods' /\ BornStay
      BY <1>1, <2>1, <2>2 DEF Mods, BornStay
    <2>4. <<"leave", i>> \in Repertoire(t)
      BY <1>1, <2>1, RepertoireType DEF Leaves
    <2>5. AgendaInv' /\ requests' \in 0 .. MaxRequests /\ inlined' \in BOOLEAN
      BY <1>1, <2>1, <2>2, <2>3, <2>4, LuaStep
    <2> QED
      BY <1>1, <1>2, <2>3, <2>5 DEF AgendaInv, Scalars, syncVars
  <1> QED
    BY <1>3, <1>4, StartCases

LEMMA EnterKeeps ==
  ASSUME LoopInv, NEW t \in Threads, EnterLua(t)
  PROVE  LoopInv'
  <1>1. /\ Subject(t) \in Instances /\ <<"leave", Subject(t)>> \in Repertoire(t) /\ ~NextIs(t, "leave")
        /\ RunLua(t, Subject(t))
        /\ UNCHANGED <<modVars, queueVars, phase, m_pause_events_processing, syncVars>>
    <2>1. NextIs(t, "enter") /\ SubjectsOf(t)
      BY Subjects DEF EnterLua, LoopInv
    <2>2. ~NextIs(t, "leave")
      BY <2>1 DEF NextIs
    <2>3. RunLua(t, Subject(t)) /\ UNCHANGED <<modVars, queueVars, phase, m_pause_events_processing, syncVars>>
      BY DEF EnterLua
    <2>4. Subject(t) \in Instances /\ <<"leave", Subject(t)>> \in Repertoire(t)
      BY <2>1 DEF SubjectsOf
    <2> QED
      BY <2>2, <2>3, <2>4, Zenon
  <1>2. Mods' /\ BornStay /\ Queue'
    BY <1>1, ModsStay, QueueStays DEF LoopInv
  <1>3. AgendaInv' /\ requests' \in 0 .. MaxRequests /\ inlined' \in BOOLEAN
    BY <1>1, <1>2, LuaStep
  <1> QED
    BY <1>1, <1>2, <1>3 DEF LoopInv, AgendaInv, Scalars, syncVars

LEMMA StepKeepsTypes ==
  ASSUME LoopInv, NEW t \in Threads, Step(t)
  PROVE  LoopInv'
  BY AppendKeeps, LeaveKeeps, SetPauseKeeps, ScanKeeps, StopAsyncKeeps, JoinKeeps, CloseKeeps, ChangeModsKeeps,
     StartKeeps, EnterKeeps DEF Step

\* The callbacks the game thread calls without the mutex are of mods that exist.
TakenOK == taken \in Seq(Instances)

\* A request made outside of a callback that holds the mutex: by the GUI, or by
\* the Lua code that the game thread calls without it.
OutsideAsk(t) ==
    /\ Idle(t)
    /\ \E r \in Asks :
          requests + Cost(r) <= MaxRequests /\ requests' = requests + Cost(r) /\ Then(t, Asked(t, r))
    /\ UNCHANGED <<modVars, lua, queueVars, phase, m_pause_events_processing, syncVars, inlined>>

\* What a step that takes or ends such callbacks leaves alone.
AllButTaken == <<modVars, lua, queueVars, phase, m_pause_events_processing, syncVars, agenda, requests, inlined>>

\* The steps of the system, as the invariants see them.
LEMMA NextKinds ==
  ASSUME TakenOK, [Next]_vars
  PROVE  \/ \E t \in Threads : Step(t)
         \/ LoopStep \/ WatcherStep \/ Notice
         \/ \E t \in {Gui, Game} : OutsideAsk(t)
         \/ \E i \in Instances : CheckStop(i) \/ GameCallback(i)
         \/ UNCHANGED AllButTaken
  <1>1. GuiRequest => OutsideAsk(Gui)
    BY RequestTypes DEF GuiRequest, OutsideAsk
  <1>2. UnlockedAsks => OutsideAsk(Game)
    <2>1. taken # <<>> => Head(taken) \in Instances
      BY HeadTailProperties DEF TakenOK
    <2> QED
      BY <2>1, RequestTypes DEF UnlockedAsks, OutsideAsk
  <1>3. TakeUnlocked \/ ReturnUnlocked => UNCHANGED AllButTaken
    BY DEF TakeUnlocked, ReturnUnlocked, AllButTaken
  <1>4. UNCHANGED vars => UNCHANGED AllButTaken
    BY DEF vars, AllButTaken
  <1> QED
    BY <1>1, <1>2, <1>3, <1>4 DEF Next, UnlockedStep

\* process_simple_actions and the post callback of a script hook.
LEMMA TakenNext ==
  ASSUME TakenOK, [Next]_vars
  PROVE  TakenOK'
  <1>1. CASE TakeUnlocked
    <2>1. PICK some \in SUBSET Instances : taken' \in SetToSeqs(some)
      BY <1>1 DEF TakeUnlocked
    <2>2. IsFiniteSet(some) /\ Cardinality(some) \in Nat
      <3>1. Len(ModNames) * (1 + MaxNotices) + MaxRequests \in Nat
        BY ModNamesType, LoopConstants
      <3>2. IsFiniteSet(Instances)
        BY <3>1, FS_Interval DEF Instances
      <3> QED
        BY <3>2, FS_Subset, FS_CardinalityType
    <2>3. taken' \in [1 .. Cardinality(some) -> Instances]
      BY <2>1 DEF SetToSeqs
    <2> QED
      BY <2>2, <2>3, FunIsSeq DEF TakenOK
  <1>2. CASE ReturnUnlocked
    BY <1>2, HeadTailProperties DEF ReturnUnlocked, TakenOK
  <1>3. CASE UNCHANGED taken
    BY <1>3 DEF TakenOK
  <1>4. (\E t : Step(t)) => UNCHANGED taken
    BY DEF Step, LeaveLua, AppendEvent, SetPause, ScanMods, StopAsync, JoinAsync, CloseState, ChangeMods, StartMod,
           EnterLua
  <1>5. LoopStep \/ WatcherStep \/ Notice \/ GuiRequest \/ UnlockedAsks => UNCHANGED taken
    BY DEF LoopStep, StartLoop, Fetch, RunEvent, EndBatch, Input, Answer, Awake, StoreIdle, WatcherStep, Notice,
           FallAsleep, BeginSection, EndSection, GuiRequest, UnlockedAsks
  <1>6. (\E i : CheckStop(i) \/ GameCallback(i)) \/ UNCHANGED vars => UNCHANGED taken
    BY DEF CheckStop, GameCallback, vars
  <1> QED
    BY <1>1, <1>2, <1>3, <1>4, <1>5, <1>6 DEF Next, UnlockedStep

\* The other threads (update_async, a detour callback, the GUI, Lua without the
\* mutex).
LEMMA OthersKeepTypes ==
  ASSUME LoopInv, (\E t \in {Gui, Game} : OutsideAsk(t)) \/ \E i \in Instances : CheckStop(i) \/ GameCallback(i)
  PROVE  LoopInv'
  <1> USE DEF LoopInv
  <1>1. ASSUME NEW i \in Instances, CheckStop(i) PROVE LoopInv'
    <2>1. Async(i) \in Threads /\ Idle(Async(i)) /\ ~NextIs(Async(i), "leave")
      BY <1>1, ThreadKinds DEF CheckStop, Idle, NextIs
    <2>2. Mods' /\ BornStay
      BY <1>1 DEF CheckStop, Mods, BornStay
    <2>3. AgendaInv'
      <3>1. CASE UNCHANGED agenda
        BY <1>1, <2>2, <3>1, StillAgendas DEF CheckStop, AgendaInv
      <3>2. CASE Then(Async(i), <<<<"enter", i>>>>)
        <4>1. <<"enter", i>> \in Plain(Async(i))
          BY PlainTypes
        <4>2. <<<<"enter", i>>>> \in Seq(Plain(Async(i)))
          BY <4>1
        <4> QED
          BY <1>1, <2>1, <2>2, <3>2, <4>2, PlainStep DEF CheckStop, AgendaInv
      <3> QED
        BY <1>1, <3>1, <3>2 DEF CheckStop
    <2> QED
      BY <1>1, <2>2, <2>3, QueueStays DEF CheckStop, AgendaInv, Scalars, syncVars
  <1>2. ASSUME NEW i \in Instances, GameCallback(i) PROVE LoopInv'
    <2>1. Game \in Threads /\ ~NextIs(Game, "leave") /\ RunLua(Game, i)
          /\ UNCHANGED <<modVars, queueVars, phase, m_pause_events_processing, syncVars>>
      BY <1>2, ThreadKinds DEF GameCallback, Idle, NextIs
    <2>2. Mods' /\ BornStay /\ Queue'
      BY <2>1, ModsStay, QueueStays
    <2>3. <<"leave", i>> \in Repertoire(Game)
      BY RepertoireOf DEF Leaves
    <2>4. AgendaInv' /\ requests' \in 0 .. MaxRequests /\ inlined' \in BOOLEAN
      BY <2>1, <2>2, <2>3, LuaStep
    <2> QED
      BY <2>1, <2>2, <2>4 DEF AgendaInv, Scalars, syncVars
  <1>3. ASSUME NEW t \in {Gui, Game}, OutsideAsk(t) PROVE LoopInv'
    <2>1. PICK r \in Asks :
              requests + Cost(r) <= MaxRequests /\ requests' = requests + Cost(r) /\ Then(t, Asked(t, r))
      BY <1>3 DEF OutsideAsk
    <2>2. Cost(r) \in Nat /\ t \in Threads
      BY RequestTypes, ThreadKinds
    <2>3. Asked(t, r) \in Seq(Plain(t)) /\ requests' \in 0 .. MaxRequests
      BY <2>1, <2>2, AskedType, LoopConstants DEF Scalars
    <2>4. Mods' /\ BornStay /\ Queue' /\ ~NextIs(t, "leave")
      BY <1>3, ModsStay, QueueStays DEF OutsideAsk, Idle, NextIs
    <2>5. AgendaInv'
      BY <1>3, <2>1, <2>2, <2>3, <2>4, PlainStep DEF OutsideAsk, AgendaInv
    <2> QED
      BY <1>3, <2>3, <2>4, <2>5 DEF OutsideAsk, AgendaInv, Scalars, syncVars
  <1> QED
    BY <1>1, <1>2, <1>3

\* Where a thread has nothing left to do: between the parts of the loop's pass,
\* outside the watcher's section, and once the async thread has left its loop.
Rests ==
    /\ phase \in {"top", "input", "await", "late"} => Idle(Loop)
    /\ watcher # "section" => Idle(Watcher)
    /\ \A i \in Instances : async[i] # "running" => Idle(Async(i))

\* The restarts the hot-reload key asks for, and the key bind called after it.
LEMMA InputType ==
  ASSUME LoopInv, Input
  PROVE  /\ \E steps : steps \in Seq(Plain(Loop)) /\ Then(Loop, steps)
         /\ requests' \in 0 .. MaxRequests /\ inlined' \in BOOLEAN
  <1>1. PICK reload \in BOOLEAN, binds \in {<<>>} \cup
             {<<<<"enter", i>>>> : i \in {j \in Instances : stage[j] = "started"}} :
          /\ Then(Loop, (IF reload THEN RestartAll ELSE <<>>) \o binds)
          /\ requests' = requests + IF reload THEN Len(ModNames) ELSE 0
          /\ requests' <= MaxRequests
          /\ inlined' = (reload /\ binds # <<>>)
    BY DEF Input
  <1>2. (IF reload THEN RestartAll ELSE <<>>) \in Seq(Plain(Loop))
    <2>1. RestartAll \in Seq(LoopBuild) /\ Seq(LoopBuild) \subseteq Seq(Plain(Loop))
      BY RestartAllType, PlainTypes, SeqMonotonic DEF LoopInv
    <2> QED
      BY <2>1, EmptySeq
  <1>3. binds \in Seq(Plain(Loop))
    <2>1. \A i \in Instances : <<<<"enter", i>>>> \in Seq(Plain(Loop))
      <3> SUFFICES ASSUME NEW i \in Instances PROVE <<<<"enter", i>>>> \in Seq(Plain(Loop))
        OBVIOUS
      <3>1. <<"enter", i>> \in Plain(Loop)
        BY PlainTypes
      <3> QED
        BY <3>1
    <2> QED
      BY <1>1, <2>1, EmptySeq
  <1>4. requests' \in 0 .. MaxRequests
    BY <1>1, ModNamesType, LoopConstants DEF LoopInv, Scalars
  <1>5. \E steps : steps \in Seq(Plain(Loop)) /\ Then(Loop, steps)
    BY <1>1, <1>2, <1>3, ConcatProperties
  <1>6. inlined' \in BOOLEAN
    BY <1>1, Zenon
  <1> QED
    BY <1>4, <1>5, <1>6

\* The passes of the loop (UE4SSProgram::update).
LEMMA LoopKeepsTypes ==
  ASSUME LoopInv, Rests, LoopStep
  PROVE  LoopInv'
  <1> USE DEF LoopInv
  <1>1. CASE StartLoop \/ Fetch
    BY <1>1, ModsStay, QueueStays, StillAgendas DEF StartLoop, Fetch, AgendaInv, Scalars, syncVars
  <1>2. CASE Answer \/ Awake \/ StoreIdle
    <2>1. UNCHANGED <<modVars, lua, queueVars, agenda>>
      BY <1>2 DEF Answer, Awake, StoreIdle
    <2>2. Scalars'
      <3>1. CASE Answer
        BY <3>1 DEF Answer, Scalars
      <3>2. CASE Awake
        BY <3>2 DEF Awake, Scalars, syncVars
      <3>3. CASE StoreIdle
        BY <3>3 DEF StoreIdle, Scalars
      <3> QED
        BY <1>2, <3>1, <3>2, <3>3
    <2> QED
      BY <2>1, <2>2, ModsStay, QueueStays, StillAgendas DEF AgendaInv
  <1>3. CASE RunEvent
    <2>1. executed < Len(m_queued_events) /\ executed \in Nat /\ Len(m_queued_events) \in Nat
      BY <1>3, LenProperties DEF RunEvent, BatchOver, Queue
    <2>2. Queue'
      BY <1>3, <2>1 DEF RunEvent, Queue
    <2>3. m_queued_events[executed + 1] \in Asks
      <3>1. executed + 1 \in 1 .. Len(m_queued_events)
        BY <2>1
      <3> QED
        BY <3>1, ElementOfSeq DEF Queue
    <2>4. Handling(m_queued_events[executed + 1]) \in Seq(Plain(Loop))
      BY <2>3, HandlingType, PlainTypes, SeqMonotonic
    <2>5. Mods' /\ BornStay /\ ~NextIs(Loop, "leave") /\ Loop \in Threads
      BY <1>3, ModsStay, ThreadKinds DEF RunEvent, Idle, NextIs
    <2>6. AgendaInv'
      BY <1>3, <2>4, <2>5, PlainStep DEF RunEvent, AgendaInv
    <2> QED
      BY <1>3, <2>2, <2>5, <2>6 DEF RunEvent, AgendaInv, Scalars, syncVars
  <1>4. CASE EndBatch
    <2>1. executed \in 0 .. Len(m_queued_events) /\ Len(m_queued_events) \in Nat
      BY LenProperties DEF Queue
    <2>2. \A k \in executed + 1 .. Len(m_queued_events) : m_queued_events[k] \in Asks
      BY <2>1, ElementOfSeq DEF Queue
    <2>3. /\ SubSeq(m_queued_events, executed + 1, Len(m_queued_events)) \in Seq(Asks)
      BY <2>1, <2>2, SubSeqProperties
    <2>4. Queue'
      BY <1>4, <2>3, LenProperties DEF EndBatch, Queue
    <2> QED
      BY <1>4, <2>4, ModsStay, StillAgendas DEF EndBatch, AgendaInv, Scalars, syncVars
  <1>5. CASE Input
    <2>1. Mods' /\ BornStay /\ Queue' /\ Loop \in Threads
      BY <1>5, ModsStay, QueueStays, ThreadKinds DEF Input
    <2>2. ~NextIs(Loop, "leave")
      BY <1>5 DEF Rests, Input, Idle, NextIs
    <2>3. PICK steps : steps \in Seq(Plain(Loop)) /\ Then(Loop, steps)
      BY <1>5, InputType
    <2>4. AgendaInv'
      BY <1>5, <2>1, <2>2, <2>3, PlainStep DEF Input, AgendaInv
    <2>5. Scalars'
      BY <1>5, InputType DEF Input, Scalars, syncVars
    <2> QED
      BY <2>1, <2>4, <2>5 DEF AgendaInv
  <1> QED
    BY <1>1, <1>2, <1>3, <1>4, <1>5 DEF LoopStep

LEMMA WatcherKeepsTypes ==
  ASSUME LoopInv, Rests, Notice \/ WatcherStep
  PROVE  LoopInv'
  <1> USE DEF LoopInv
  <1>1. CASE Notice
    <2>1. Scalars'
      BY <1>1, LoopConstants DEF Notice, Scalars
    <2> QED
      BY <1>1, <2>1, ModsStay, QueueStays, StillAgendas DEF Notice, AgendaInv
  <1>2. CASE FallAsleep
    BY <1>2, ModsStay, QueueStays, StillAgendas DEF FallAsleep, AgendaInv, Scalars
  <1>3. CASE EndSection
    BY <1>3, ModsStay, QueueStays, StillAgendas DEF EndSection, AgendaInv, Scalars
  <1>4. CASE BeginSection
    <2>1. Mods' /\ BornStay /\ Queue' /\ Watcher \in Threads
      BY <1>4, ModsStay, QueueStays, ThreadKinds DEF BeginSection
    <2>2. ~NextIs(Watcher, "leave")
      BY <1>4 DEF Rests, BeginSection, Idle, NextIs
    <2>3. CASE UNCHANGED agenda
      BY <1>4, <2>1, <2>3, StillAgendas DEF BeginSection, AgendaInv, Scalars
    <2>4. CASE Then(Watcher, Discover)
      <3>1. {n \in Names : \A k \in DOMAIN m_mods : name[m_mods[k]] # n} \in SUBSET Names
        OBVIOUS
      <3>2. Discover \in Seq(Plain(Watcher))
        BY <3>1, PlainTypes DEF Discover
      <3>3. AgendaInv'
        BY <1>4, <2>1, <2>2, <2>4, <3>2, PlainStep DEF BeginSection, AgendaInv
      <3> QED
        BY <1>4, <2>1, <3>3 DEF BeginSection, AgendaInv, Scalars
    <2>5. ASSUME NEW i \in ToSet(m_mods), Then(Watcher, Reload(i)) PROVE LoopInv'
      <3>1. PICK k \in DOMAIN m_mods : i = m_mods[k]
        BY <2>5 DEF ToSet
      <3>2. i \in Born /\ name[i] \in Names
        <4>1. i \in Instances
          BY <3>1, ElementOfSeq, LenProperties DEF Mods
        <4> QED
          BY <3>1, <4>1 DEF Mods, Born
      <3>3. Reload(i) \in Seq(Plain(Watcher))
        <4>1. <<"uninstall", i>> \in Plain(Watcher) /\ <<"replace", i>> \in Plain(Watcher)
              /\ <<"launch", name[i]>> \in Plain(Watcher)
          BY <3>2, PlainTypes
        <4> QED
          BY <4>1 DEF Reload
      <3>4. AgendaInv'
        BY <1>4, <2>1, <2>2, <2>5, <3>3, PlainStep DEF BeginSection, AgendaInv
      <3> QED
        BY <1>4, <2>1, <3>4 DEF BeginSection, AgendaInv, Scalars
    <2> QED
      BY <1>4, <2>3, <2>4, <2>5 DEF BeginSection
  <1> QED
    BY <1>1, <1>2, <1>3, <1>4 DEF WatcherStep

\* Only a busy thread takes a step of its agenda, and it changes no other's.
LEMMA StepIsLocal ==
  ASSUME LoopInv, NEW t \in Threads, Step(t)
  PROVE  /\ ~Idle(t)
         /\ \A u \in Threads : u # t => agenda'[u] = agenda[u]
         /\ UNCHANGED <<phase, watcher>>
         /\ \A i \in Instances : async[i] = "running" => async'[i] = "running"
  <1>1. /\ ~Idle(t) /\ UNCHANGED <<phase, watcher>>
    BY DEF Step, LeaveLua, AppendEvent, SetPause, ScanMods, StopAsync, JoinAsync, CloseState, ChangeMods,
           StartMod, EnterLua, syncVars, NextIs, Idle
  <1>2. \A u \in Threads : u # t => agenda'[u] = agenda[u]
    <2>1. \E steps : Then(t, steps)
      BY DEF Step, LeaveLua, AppendEvent, SetPause, ScanMods, StopAsync, JoinAsync, CloseState, ChangeMods,
             StartMod, EnterLua, RunLua
    <2> QED
      BY <2>1 DEF Then, LoopInv, Agendas
  <1>3. \A i \in Instances : async[i] = "running" => async'[i] = "running"
    <2>1. async' = async \/ (\E i \in Instances : async' = [async EXCEPT ![i] = "running"])
          \/ (\E i \in Instances : async[i] = "exited" /\ async' = [async EXCEPT ![i] = "none"])
      <3>1. CASE JoinAsync(t)
        BY <3>1, Subjects DEF JoinAsync, LoopInv, SubjectsOf
      <3>2. CASE StartMod(t)
        BY <3>2, StartCases, FirstProperties DEF LoopInv
      <3> QED
        BY <3>1, <3>2 DEF Step, LeaveLua, AppendEvent, SetPause, ScanMods, StopAsync, CloseState, ChangeMods,
                          EnterLua, modVars
    <2> QED
      BY <2>1 DEF LoopInv, Mods
  <1> QED
    BY <1>1, <1>2, <1>3

LEMMA RestsNext ==
  ASSUME LoopInv, Rests, TakenOK, [Next]_vars
  PROVE  Rests'
  <1> USE DEF Rests, Idle
  <1>0. /\ Loop \in Threads /\ Watcher \in Threads /\ Game \in Threads /\ Gui \in Threads
        /\ \A i \in Instances : Async(i) \in Threads /\ Async(i) \notin {Loop, Watcher, Game, Gui}
        /\ Loop \notin {Watcher, Game, Gui} /\ Watcher \notin {Game, Gui}
        /\ \A i, j \in Instances : Async(i) = Async(j) => i = j
    BY ThreadKinds DEF Async
  <1>9. \A t \in Threads : \A steps : Then(t, steps) => \A u \in Threads : u # t => agenda'[u] = agenda[u]
    BY DEF Then, LoopInv, Agendas
  <1>1. ASSUME NEW t \in Threads, Step(t) PROVE Rests'
    BY <1>0, <1>1, StepIsLocal
  <1>2. CASE LoopStep
    <2>1. UNCHANGED <<async>> /\ (\A u \in Threads : u # Loop => agenda'[u] = agenda[u])
      BY <1>0, <1>2, <1>9 DEF LoopStep, StartLoop, Fetch, RunEvent, EndBatch, Input, Answer, Awake, StoreIdle, modVars
    <2>2. watcher' = watcher \/ (watcher # "section" /\ watcher' # "section")
      BY <1>2 DEF LoopStep, StartLoop, Fetch, RunEvent, EndBatch, Input, Answer, Awake, StoreIdle, syncVars
    <2>3. phase' \in {"top", "input", "await", "late"} => agenda'[Loop] = <<>>
      BY <1>2 DEF LoopStep, StartLoop, Fetch, RunEvent, EndBatch, Input, Answer, Awake, StoreIdle
    <2> QED
      BY <1>0, <2>1, <2>2, <2>3
  <1>3. CASE Notice \/ WatcherStep
    <2>1. UNCHANGED <<async, phase>> /\ (\A u \in Threads : u # Watcher => agenda'[u] = agenda[u])
      BY <1>0, <1>3, <1>9 DEF WatcherStep, Notice, FallAsleep, BeginSection, EndSection, modVars
    <2>2. watcher' # "section" => agenda'[Watcher] = <<>>
      BY <1>3 DEF WatcherStep, Notice, FallAsleep, BeginSection, EndSection
    <2> QED
      BY <1>0, <2>1, <2>2
  <1>4. ASSUME NEW t \in {Gui, Game}, OutsideAsk(t) PROVE Rests'
    <2>1. UNCHANGED <<async, phase, watcher>> /\ (\A u \in Threads : u # t => agenda'[u] = agenda[u])
      BY <1>0, <1>4, <1>9 DEF OutsideAsk, modVars, syncVars
    <2> QED
      BY <1>0, <2>1
  <1>5. ASSUME NEW i \in Instances, CheckStop(i) PROVE Rests'
    <2>1. UNCHANGED <<phase, watcher>> /\ (\A u \in Threads : u # Async(i) => agenda'[u] = agenda[u])
      BY <1>0, <1>5, <1>9 DEF CheckStop, syncVars
    <2>2. \A j \in Instances : j # i => async'[j] = async[j]
      BY <1>5 DEF CheckStop, LoopInv, Mods
    <2>3. async[i] = "running" /\ (async'[i] # "running" => agenda' = agenda /\ agenda[Async(i)] = <<>>)
      BY <1>5 DEF CheckStop
    <2> QED
      BY <1>0, <2>1, <2>2, <2>3
  <1>6. ASSUME NEW i \in Instances, GameCallback(i) PROVE Rests'
    <2>1. UNCHANGED <<async, phase, watcher>> /\ (\A u \in Threads : u # Game => agenda'[u] = agenda[u])
      BY <1>0, <1>6, <1>9 DEF GameCallback, RunLua, modVars, syncVars
    <2> QED
      BY <1>0, <2>1
  <1>7. CASE UNCHANGED AllButTaken
    BY <1>7 DEF AllButTaken, modVars, syncVars
  <1> QED
    BY <1>1, <1>2, <1>3, <1>4, <1>5, <1>6, <1>7, NextKinds

LEMMA RestsInit == Init => Rests
  <1> SUFFICES ASSUME Init PROVE Rests
    OBVIOUS
  <1>1. \A t \in Threads : t # Loop => agenda[t] = <<>>
    BY DEF Init
  <1>2. phase = "boot"
    BY DEF Init
  <1> QED
    BY <1>1, <1>2, ThreadKinds DEF Rests, Idle

TypesInv == LoopInv /\ Rests /\ TakenOK

LEMMA TypesInvNext == TypesInv /\ [Next]_vars => TypesInv'
  <1> SUFFICES ASSUME TypesInv, [Next]_vars PROVE TypesInv'
    OBVIOUS
  <1> USE DEF TypesInv
  <1>1. CASE UNCHANGED AllButTaken
    <2>1. agenda' = agenda /\ lua' = lua /\ modVars' = modVars /\ queueVars' = queueVars
      BY <1>1 DEF AllButTaken
    <2> QED
      BY <1>1, <2>1, ModsStay, QueueStays, StillAgendas, RestsNext, TakenNext
         DEF LoopInv, AgendaInv, Scalars, AllButTaken, syncVars
  <1>2. LoopInv' \/ UNCHANGED AllButTaken
    BY NextKinds, StepKeepsTypes, LoopKeepsTypes, WatcherKeepsTypes, OthersKeepTypes
  <1> QED
    BY <1>1, <1>2, RestsNext, TakenNext

LEMMA TypesInvInit == Init => TypesInv
  <1>1. Init => TakenOK
    BY EmptySeq DEF Init, TakenOK
  <1> QED
    BY <1>1, LoopInvInit, RestsInit DEF TypesInv

LEMMA AlwaysTypes == Spec => []TypesInv
  BY TypesInvInit, TypesInvNext, PTL DEF Spec

\* Every variable of the loop, and every agenda, keeps its type (the members of
\* UE4SSProgram, LuaMod and ScopedThreadSynchronizer).
THEOREM TypeCorrect == Spec => []TypeOK
  <1>1. TypesInv => TypeOK
    <2> SUFFICES ASSUME TypesInv PROVE TypeOK
      OBVIOUS
    <2> USE DEF TypesInv, LoopInv
    <2>1. \A k \in DOMAIN m_mods : m_mods[k] \in Instances
      BY ElementOfSeq, LenProperties DEF Mods
    <2>2. \A k \in DOMAIN m_queued_events : m_queued_events[k] \in Events
      BY ElementOfSeq, LenProperties DEF Queue, Asks
    <2>3. \A t \in Threads : \A k \in DOMAIN agenda[t] : agenda[t][k][1] \in Steps
      <3>1. \A t \in Threads : \A k \in DOMAIN agenda[t] : agenda[t][k] \in AgendaSteps
        BY ElementOfSeq, LenProperties DEF Agendas
      <3>2. \A s \in AgendaSteps : s[1] \in Steps
        BY DEF AgendaSteps, Appends, Building, Scanning, Steps
      <3> QED
        BY <3>1, <3>2
    <2>4. DOMAIN agenda = Threads
      BY DEF Agendas
    <2>5. lua.by \in Threads \cup {Nobody} /\ lua.count \in Nat
      BY DEF MutexCounts
    <2>6. \A k \in DOMAIN taken : taken[k] \in Instances
      BY ElementOfSeq, LenProperties DEF TakenOK
    <2> QED
      BY <2>1, <2>2, <2>3, <2>4, <2>5, <2>6 DEF TypeOK, Mods, Queue, Scalars
  <1> QED
    BY <1>1, AlwaysTypes, PTL

-----------------------------------------------------------------------------
(* The vector of queued events implements the queue of EventQueueContract.  *)

Pending == SubSeq(m_queued_events, executed + 1, Len(m_queued_events))
Current == IF executed = 0 THEN <<>> ELSE m_queued_events[executed]

\* A step of the contract or a stutter.
QueueStep == [Contract!Next]_(Contract!contract)

LEMMA PendingType ==
  ASSUME NEW m \in Seq(Asks), NEW n \in 0 .. Len(m)
  PROVE  /\ Len(m) \in Nat /\ n \in Nat /\ n <= Len(m)
         /\ SubSeq(m, n + 1, Len(m)) \in Seq(Asks)
         /\ Len(SubSeq(m, n + 1, Len(m))) = Len(m) - n
         /\ \A k \in 1 .. Len(m) - n : SubSeq(m, n + 1, Len(m))[k] = m[n + k]
  <1> DEFINE p == SubSeq(m, n + 1, Len(m))
  <1>1. Len(m) \in Nat /\ n \in Nat /\ n <= Len(m)
    BY LenProperties
  <1>2. \A k \in n + 1 .. Len(m) : m[k] \in Asks
    BY <1>1, ElementOfSeq
  <1>3. /\ p \in Seq(Asks)
        /\ Len(p) = IF n + 1 <= Len(m) THEN Len(m) - (n + 1) + 1 ELSE 0
        /\ \A k \in 1 .. Len(m) - (n + 1) + 1 : p[k] = m[n + 1 + k - 1]
    BY <1>1, <1>2, SubSeqProperties
  <1> HIDE DEF p
  <1>4. Len(p) = Len(m) - n
    BY <1>1, <1>3
  <1>5. \A k \in 1 .. Len(m) - n : p[k] = m[n + k]
    <2> SUFFICES ASSUME NEW k \in 1 .. Len(m) - n
                 PROVE  p[k] = m[n + k]
      OBVIOUS
    <2>1. k \in 1 .. Len(m) - (n + 1) + 1 /\ n + 1 + k - 1 = n + k
      BY <1>1
    <2> QED
      BY <1>3, <2>1
  <1> QED
    BY <1>1, <1>3, <1>4, <1>5 DEF p

\* Two sequences with the same elements.
LEMMA SameSeq ==
  ASSUME NEW S, NEW s \in Seq(S), NEW q \in Seq(S), Len(s) = Len(q), \A k \in 1 .. Len(s) : s[k] = q[k]
  PROVE  s = q
  BY SeqEqual

\* queue_event: an event is accepted at the end of the queue.
LEMMA AppendAccepts ==
  ASSUME LoopInv, LoopInv', NEW t \in Threads, AppendEvent(t)
  PROVE  QueueStep
  <1> DEFINE m == m_queued_events
             e == Subject(t)
  <1>1. m' = Append(m, e) /\ executed' = executed /\ e \in Asks
    BY Subjects DEF AppendEvent, LoopInv, SubjectsOf
  <1>2. Queue /\ Queue'
    BY DEF LoopInv
  <1>3. /\ m \in Seq(Asks) /\ Len(m) \in Nat /\ executed \in Nat /\ executed <= Len(m)
        /\ Pending \in Seq(Asks) /\ Len(Pending) = Len(m) - executed
        /\ \A k \in 1 .. Len(m) - executed : Pending[k] = m[executed + k]
    BY <1>2, PendingType DEF Queue, Pending
  <1>4. /\ Len(m') = Len(m) + 1 /\ \A k \in 1 .. Len(m) : m'[k] = m[k]
        /\ m'[Len(m) + 1] = e
    BY <1>1, <1>3, AppendProperties
  <1>5. /\ Pending' \in Seq(Asks) /\ Len(Pending') = Len(m') - executed'
        /\ \A k \in 1 .. Len(m') - executed' : Pending'[k] = m'[executed' + k]
    BY <1>2, PendingType DEF Queue, Pending
  <1>6. Pending' = Append(Pending, e)
    <2>1. /\ Append(Pending, e) \in Seq(Asks) /\ Len(Append(Pending, e)) = Len(m) - executed + 1
          /\ \A k \in 1 .. Len(m) - executed : Append(Pending, e)[k] = Pending[k]
          /\ Append(Pending, e)[Len(m) - executed + 1] = e
      BY <1>1, <1>3, AppendProperties
    <2>2. Len(Pending') = Len(Append(Pending, e))
      BY <1>1, <1>3, <1>4, <1>5, <2>1
    <2>3. \A k \in 1 .. Len(Pending') : Pending'[k] = Append(Pending, e)[k]
      <3>0. Len(Pending') = Len(m) - executed + 1
        BY <2>1, <2>2
      <3> SUFFICES ASSUME NEW k \in 1 .. Len(m) - executed + 1 PROVE Pending'[k] = Append(Pending, e)[k]
        BY <3>0, Zenon
      <3>1. Pending'[k] = m'[executed + k]
        <4>1. k \in 1 .. Len(m') - executed' /\ executed' = executed
          BY <1>1, <1>3, <1>4
        <4>2. Pending'[k] = m'[executed' + k]
          BY <1>5, <4>1
        <4> HIDE DEF m
        <4> QED
          BY <4>1, <4>2
      <3>2. CASE k = Len(m) - executed + 1
        <4>1. executed + k = Len(m) + 1
          BY <1>3, <3>2
        <4> QED
          BY <1>4, <2>1, <3>1, <3>2, <4>1
      <3>3. CASE k # Len(m) - executed + 1
        <4>1. k \in 1 .. Len(m) - executed /\ executed + k \in 1 .. Len(m)
          BY <1>3, <3>3
        <4> QED
          BY <1>3, <1>4, <2>1, <3>1, <4>1
      <3> QED
        BY <3>2, <3>3
    <2> HIDE DEF m, e
    <2> QED
      BY <1>5, <2>1, <2>2, <2>3, SameSeq
  <1>7. Current' = Current
    <2>1. CASE executed = 0
      BY <1>1, <2>1 DEF Current
    <2>2. CASE executed # 0
      <3>1. executed \in 1 .. Len(m)
        BY <1>3, <2>2
      <3> QED
        BY <1>1, <1>4, <2>2, <3>1 DEF Current
    <2> QED
      BY <2>1, <2>2
  <1>8. e \in Events
    BY <1>1 DEF Asks
  <1>9. Len(Pending') = Len(Pending) + 1
    BY <1>3, <1>6, AppendProperties
  <1> HIDE DEF m, e
  <1> QED
    BY <1>6, <1>7, <1>8, <1>9 DEF QueueStep, Contract!Next, Contract!Accept, Pending, Current

\* remove_if: the predicate executes the next event, which leaves the pending ones.
LEMMA RunRuns ==
  ASSUME LoopInv, LoopInv', RunEvent
  PROVE  QueueStep
  <1> DEFINE m == m_queued_events
  <1>1. m' = m /\ executed' = executed + 1 /\ executed # Len(m)
    BY DEF RunEvent, BatchOver
  <1>2. Queue /\ Queue'
    BY DEF LoopInv
  <1>3. /\ m \in Seq(Asks) /\ Len(m) \in Nat /\ executed \in Nat /\ executed <= Len(m)
        /\ Pending \in Seq(Asks) /\ Len(Pending) = Len(m) - executed
        /\ \A k \in 1 .. Len(m) - executed : Pending[k] = m[executed + k]
    BY <1>2, PendingType DEF Queue, Pending
  <1>4. /\ Pending' \in Seq(Asks) /\ Len(Pending') = Len(m) - executed'
        /\ \A k \in 1 .. Len(m) - executed' : Pending'[k] = m[executed' + k]
    BY <1>1, <1>2, PendingType DEF Queue, Pending
  <1>5. Len(Pending) > 0 /\ Pending # <<>>
    BY <1>1, <1>3, EmptySeq
  <1>6. Head(Pending) = m[executed + 1]
    <2>1. Head(Pending) = Pending[1] /\ 1 \in 1 .. Len(m) - executed
      BY <1>3, <1>5, HeadTailProperties
    <2> QED
      BY <1>3, <2>1
  <1>7. Tail(Pending) = Pending'
    <2>1. /\ Tail(Pending) \in Seq(Asks) /\ Len(Tail(Pending)) = Len(m) - executed - 1
          /\ \A k \in 1 .. Len(Tail(Pending)) : Tail(Pending)[k] = Pending[k + 1]
      BY <1>3, <1>5, HeadTailProperties
    <2>2. Len(Tail(Pending)) = Len(Pending')
      BY <1>1, <1>3, <1>4, <2>1
    <2>3. \A k \in 1 .. Len(Tail(Pending)) : Tail(Pending)[k] = Pending'[k]
      <3> SUFFICES ASSUME NEW k \in 1 .. Len(Tail(Pending)) PROVE Tail(Pending)[k] = Pending'[k]
        OBVIOUS
      <3>1. /\ k + 1 \in 1 .. Len(m) - executed /\ k \in 1 .. Len(m) - executed'
            /\ executed + (k + 1) = executed' + k
        BY <1>1, <1>3, <2>1
      <3>2. Tail(Pending)[k] = m[executed + (k + 1)] /\ Pending'[k] = m[executed' + k]
        BY <1>3, <1>4, <2>1, <3>1
      <3> QED
        BY <3>1, <3>2
    <2> HIDE DEF m
    <2> QED
      BY <1>4, <2>1, <2>2, <2>3, SameSeq
  <1>8. Current' = m[executed + 1]
    BY <1>1, <1>3 DEF Current
  <1> HIDE DEF m
  <1> QED
    BY <1>5, <1>6, <1>7, <1>8 DEF QueueStep, Contract!Next, Contract!Run, Pending, Current

\* erase: the executed events go, and the pending ones stay.
LEMMA EndBatchRests ==
  ASSUME LoopInv, LoopInv', EndBatch
  PROVE  QueueStep
  <1>1. m_queued_events' = Pending /\ executed' = 0
    BY DEF EndBatch, Pending
  <1>2. Pending \in Seq(Asks)
    BY PendingType DEF LoopInv, Queue, Pending
  <1>3. Pending' = Pending
    <2>1. Pending' = SubSeq(Pending, 1, Len(Pending))
      BY <1>1 DEF Pending
    <2> QED
      BY <1>2, <2>1, SubSeqFull
  <1>4. Current' = <<>>
    BY <1>1 DEF Current
  <1> QED
    BY <1>3, <1>4 DEF QueueStep, Contract!Next, Contract!Rest, Pending, Current

\* No other step touches the queue.
LEMMA OthersStutter ==
  ASSUME UNCHANGED queueVars
  PROVE  QueueStep
  BY DEF queueVars, QueueStep, Contract!contract

LEMMA QueueStepNext == TypesInv /\ TypesInv' /\ [Next]_vars => QueueStep
  <1> SUFFICES ASSUME TypesInv, TypesInv', [Next]_vars PROVE QueueStep
    OBVIOUS
  <1> USE DEF TypesInv
  <1>1. ASSUME NEW t \in Threads, Step(t) PROVE QueueStep
    <2>1. AppendEvent(t) \/ UNCHANGED queueVars
      BY <1>1 DEF Step, LeaveLua, SetPause, ScanMods, StopAsync, JoinAsync, CloseState, ChangeMods, StartMod, EnterLua
    <2> QED
      BY <1>1, <2>1, AppendAccepts, OthersStutter
  <1>2. CASE LoopStep
    <2>1. RunEvent \/ EndBatch \/ UNCHANGED queueVars
      BY <1>2 DEF LoopStep, StartLoop, Fetch, Input, Answer, Awake, StoreIdle
    <2> QED
      BY <2>1, RunRuns, EndBatchRests, OthersStutter
  <1>3. CASE Notice \/ WatcherStep \/ (\E t \in {Gui, Game} : OutsideAsk(t))
             \/ \E i \in Instances : CheckStop(i) \/ GameCallback(i)
    BY <1>3, OthersStutter DEF WatcherStep, Notice, FallAsleep, BeginSection, EndSection, OutsideAsk, CheckStop,
                               GameCallback
  <1>4. CASE UNCHANGED AllButTaken
    BY <1>4, OthersStutter DEF AllButTaken
  <1> QED
    BY <1>1, <1>2, <1>3, <1>4, NextKinds

\* The vector that is executed inside remove_if and erased afterwards is a
\* queue: every accepted event runs once, in order (UE4SSProgram::update).
THEOREM QueueImplemented == Spec => ImplementsQueue
  <1>1. Init => Contract!Init
    <2> SUFFICES ASSUME Init PROVE Contract!Init
      OBVIOUS
    <2>1. m_queued_events = <<>> /\ executed = 0
      BY DEF Init
    <2>2. SubSeq(<<>>, 1, 0) = <<>> /\ Len(<<>>) = 0
      BY SubSeqEmpty, EmptySeq
    <2> QED
      BY <2>1, <2>2 DEF Contract!Init
  <1>2. Contract!Spec <=> Contract!Init /\ [][Contract!Next]_(Contract!contract)
    BY DEF Contract!Spec
  <1> QED
    BY <1>1, <1>2, AlwaysTypes, QueueStepNext, PTL DEF Spec, ImplementsQueue, QueueStep

-----------------------------------------------------------------------------
(* What a thread runs of Lua code.                                          *)

\* What the requests of Lua code put on the agenda of the thread they run on.
Request(t, i, s) ==
    \/ s = <<>>
    \/ t # Loop /\ \E r \in Asks : s = <<<<"append", r>>>>
    \/ t = Loop /\ phase # "boot" /\ inlined' /\ \E r \in LuaRequests(i) : s = Handling(r)

LEMMA LuaAsks ==
  ASSUME Mods, NEW t \in Threads, NEW i \in Instances, RunLua(t, i)
  PROVE  /\ CanLock(t) /\ Lock(t)
         /\ inlined => inlined'
         /\ \E s \in Seq(Plain(t)) : Then(t, s \o <<<<"leave", i>>>>) /\ Request(t, i, s)
  <1>0. CanLock(t) /\ Lock(t)
    BY DEF RunLua
  <1>1. CASE Then(t, <<<<"leave", i>>>>) /\ UNCHANGED <<requests, inlined>>
    <2> DEFINE none == <<>>
    <2>1. none \in Seq(Plain(t))
      <3>1. <<>> \in Seq(Plain(t))
        BY EmptySeq
      <3> QED
        BY <3>1
    <2>2. Then(t, none \o <<<<"leave", i>>>>)
      <3>1. <<<<"leave", i>>>> \in Seq(Leaves)
        BY DEF Leaves
      <3>2. none \o <<<<"leave", i>>>> = <<<<"leave", i>>>>
        BY <3>1, ConcatEmptySeq
      <3> QED
        BY <1>1, <3>2
    <2>3. Request(t, i, none)
      BY DEF Request
    <2> HIDE DEF none
    <2> QED
      BY <1>0, <1>1, <2>1, <2>2, <2>3
  <1>2. ASSUME NEW r \in LuaRequests(i),
               Then(t, Asked(t, r) \o <<<<"leave", i>>>>),
               inlined' = (inlined \/ (t = Loop /\ phase # "boot"))
        PROVE  /\ inlined => inlined'
               /\ \E s \in Seq(Plain(t)) : Then(t, s \o <<<<"leave", i>>>>) /\ Request(t, i, s)
    <2>1. r \in Asks
      BY RequestTypes
    <2>2. Asked(t, r) \in Seq(Plain(t))
      BY <2>1, AskedType
    <2>3. Request(t, i, Asked(t, r))
      <3>1. CASE phase = "boot"
        BY <3>1 DEF Asked, Request
      <3>2. CASE phase # "boot" /\ t = Loop
        <4>1. inlined'
          BY <1>2, <3>2, Zenon
        <4>2. Asked(t, r) = Handling(r)
          BY <3>2 DEF Asked
        <4> QED
          BY <3>2, <4>1, <4>2, Zenon DEF Request
      <3>3. CASE phase # "boot" /\ t # Loop
        <4>1. Asked(t, r) = <<<<"append", r>>>>
          BY <3>3 DEF Asked
        <4> QED
          BY <2>1, <3>3, <4>1, Zenon DEF Request
      <3> QED
        BY <3>1, <3>2, <3>3
    <2>4. inlined => inlined'
      BY <1>2, Zenon
    <2> QED
      BY <1>2, <2>2, <2>3, <2>4
  <1> QED
    BY <1>0, <1>1, <1>2 DEF RunLua

\* An agenda without the ends of callbacks and without requests.
Bare(q) == \A k \in DOMAIN q : q[k][1] \notin {"append", "leave"}

\* A thread is inside of one callback at most, which its next statement ends or
\* whose request it is about to queue; the GUI, and Lua that the game thread runs
\* without the mutex, queue one from outside of such a callback.
Shallow(t, q) ==
    /\ \A k \in DOMAIN q : q[k][1] = "append" => k = 1
    /\ \A k \in DOMAIN q : q[k][1] = "leave" => k = 1 \/ (k = 2 /\ q[1][1] = "append")
    /\ t \notin {Gui, Game} /\ q # <<>> /\ q[1][1] = "append" => Len(q) > 1 /\ q[2][1] = "leave"

ShallowStacks == \A t \in Threads : t # Loop \/ ~inlined => Shallow(t, agenda[t])

\* The agenda without its first statement.
Rest(q) == IF q = <<>> THEN <<>> ELSE Tail(q)

LEMMA RestElements ==
  ASSUME NEW S, NEW q \in Seq(S)
  PROVE  /\ Rest(q) \in Seq(S) /\ Len(q) \in Nat /\ Len(Rest(q)) = IF q = <<>> THEN 0 ELSE Len(q) - 1
         /\ DOMAIN q = 1 .. Len(q) /\ DOMAIN Rest(q) = 1 .. Len(Rest(q)) /\ Len(Rest(q)) \in Nat
         /\ q # <<>> => Len(q) > 0
         /\ \A k \in DOMAIN Rest(q) : Rest(q)[k] = q[k + 1] /\ k + 1 \in DOMAIN q
  <1>1. Len(q) \in Nat /\ DOMAIN q = 1 .. Len(q)
    BY LenProperties
  <1>2. CASE q = <<>>
    BY <1>1, <1>2, EmptySeq DEF Rest
  <1>3. CASE q # <<>>
    <2>1. Tail(q) \in Seq(S) /\ Len(Tail(q)) = Len(q) - 1 /\ \A k \in 1 .. Len(Tail(q)) : Tail(q)[k] = q[k + 1]
      BY <1>3, HeadTailProperties
    <2>2. DOMAIN Tail(q) = 1 .. Len(Tail(q)) /\ Len(q) > 0
      BY <1>1, <1>3, <2>1, LenProperties, EmptySeq
    <2> QED
      BY <1>1, <1>3, <2>1, <2>2 DEF Rest
  <1> QED
    BY <1>2, <1>3

LEMMA ConcatElements ==
  ASSUME NEW S, NEW a \in Seq(S), NEW b \in Seq(S)
  PROVE  /\ a \o b \in Seq(S) /\ Len(a) \in Nat /\ Len(b) \in Nat /\ Len(a \o b) = Len(a) + Len(b)
         /\ DOMAIN a = 1 .. Len(a) /\ DOMAIN b = 1 .. Len(b) /\ DOMAIN (a \o b) = 1 .. Len(a) + Len(b)
         /\ \A k \in DOMAIN a : (a \o b)[k] = a[k]
         /\ \A k \in DOMAIN (a \o b) : k > Len(a) => k - Len(a) \in DOMAIN b /\ (a \o b)[k] = b[k - Len(a)]
         /\ \A k \in DOMAIN b : Len(a) + k \in DOMAIN (a \o b) /\ (a \o b)[Len(a) + k] = b[k]
  <1> DEFINE c == a \o b
  <1>1. c \in Seq(S) /\ Len(c) = Len(a) + Len(b)
        /\ \A k \in 1 .. Len(a) + Len(b) : c[k] = IF k <= Len(a) THEN a[k] ELSE b[k - Len(a)]
    BY ConcatProperties
  <1> HIDE DEF c
  <1>2. /\ Len(a) \in Nat /\ Len(b) \in Nat /\ DOMAIN a = 1 .. Len(a) /\ DOMAIN b = 1 .. Len(b)
        /\ DOMAIN c = 1 .. Len(a) + Len(b)
    BY <1>1, LenProperties
  <1>3. \A k \in DOMAIN a : c[k] = a[k]
    BY <1>1, <1>2
  <1>4. \A k \in DOMAIN c : k > Len(a) => k - Len(a) \in DOMAIN b /\ c[k] = b[k - Len(a)]
    BY <1>1, <1>2
  <1>5. \A k \in DOMAIN b : Len(a) + k \in DOMAIN c /\ c[Len(a) + k] = b[k]
    <2> SUFFICES ASSUME NEW k \in DOMAIN b PROVE Len(a) + k \in DOMAIN c /\ c[Len(a) + k] = b[k]
      OBVIOUS
    <2>1. Len(a) + k \in DOMAIN c /\ Len(a) + k > Len(a) /\ Len(a) + k - Len(a) = k
      BY <1>2
    <2> QED
      BY <1>4, <2>1
  <1> QED
    BY <1>1, <1>2, <1>3, <1>4, <1>5 DEF c

LEMMA BareConcat ==
  ASSUME NEW S, NEW a \in Seq(S), NEW b \in Seq(S), Bare(a), Bare(b)
  PROVE  Bare(a \o b)
  <1> DEFINE c == a \o b
  <1>1. /\ Len(a) \in Nat /\ DOMAIN a = 1 .. Len(a) /\ DOMAIN c = 1 .. Len(a) + Len(b) /\ Len(b) \in Nat
        /\ \A k \in DOMAIN a : c[k] = a[k]
        /\ \A k \in DOMAIN c : k > Len(a) => k - Len(a) \in DOMAIN b /\ c[k] = b[k - Len(a)]
    BY ConcatElements
  <1> HIDE DEF c
  <1>2. Bare(c)
    BY <1>1 DEF Bare
  <1> QED
    BY <1>2 DEF c

LEMMA BareIsShallow ==
  ASSUME NEW t, NEW S, NEW q \in Seq(S), Bare(q)
  PROVE  Shallow(t, q)
  <1>1. q # <<>> => 1 \in DOMAIN q
    BY EmptySeq, LenProperties
  <1> QED
    BY <1>1 DEF Bare, Shallow

\* Behind a statement that queues nothing there is no end of a callback.
LEMMA RestIsBare ==
  ASSUME NEW t, NEW S, NEW q \in Seq(S), Shallow(t, q), q = <<>> \/ q[1][1] # "append"
  PROVE  Bare(Rest(q))
  <1>1. /\ DOMAIN q = 1 .. Len(q) /\ DOMAIN Rest(q) = 1 .. Len(Rest(q)) /\ Len(Rest(q)) \in Nat /\ Len(q) \in Nat
        /\ \A k \in DOMAIN Rest(q) : Rest(q)[k] = q[k + 1] /\ k + 1 \in DOMAIN q
        /\ q = <<>> => Len(Rest(q)) = 0
    BY RestElements
  <1>2. \A k \in DOMAIN Rest(q) : q[k + 1][1] \notin {"append", "leave"}
    BY <1>1 DEF Shallow
  <1> QED
    BY <1>1, <1>2 DEF Bare

\* Lua code that makes no request, and Lua code that queues one.
LEMMA LeaveIsShallow ==
  ASSUME NEW t, NEW i, NEW S, NEW q \in Seq(S), Bare(q)
  PROVE  Shallow(t, <<<<"leave", i>>>> \o q)
  <1> DEFINE one == <<<<"leave", i>>>>
             c == one \o q
             T == S \cup {<<"leave", i>>}
  <1>1. one \in Seq(T) /\ q \in Seq(T) /\ Len(one) = 1 /\ one[1] = <<"leave", i>>
    <2>1. q \in Seq(T)
      BY SeqMonotonic
    <2> QED
      BY <2>1
  <1> HIDE DEF one, T
  <1>2. /\ DOMAIN c = 1 .. 1 + Len(q) /\ Len(q) \in Nat /\ DOMAIN q = 1 .. Len(q)
        /\ c[1] = one[1]
        /\ \A k \in DOMAIN c : k > 1 => k - 1 \in DOMAIN q /\ c[k] = q[k - 1]
    <2>1. /\ DOMAIN c = 1 .. Len(one) + Len(q) /\ Len(q) \in Nat /\ DOMAIN q = 1 .. Len(q)
          /\ DOMAIN one = 1 .. Len(one) /\ \A k \in DOMAIN one : c[k] = one[k]
          /\ c \in Seq(T) /\ Len(c) = Len(one) + Len(q)
          /\ \A k \in DOMAIN c : k > Len(one) => k - Len(one) \in DOMAIN q /\ c[k] = q[k - Len(one)]
      BY <1>1, ConcatElements
    <2> HIDE DEF c
    <2> QED
      BY <1>1, <2>1
  <1> HIDE DEF c
  <1>3. c[1][1] = "leave" /\ \A k \in DOMAIN c : k > 1 => c[k][1] \notin {"append", "leave"}
    BY <1>1, <1>2 DEF Bare
  <1>4. Shallow(t, c)
    BY <1>2, <1>3 DEF Shallow
  <1> QED
    BY <1>4 DEF c, one

LEMMA AppendIsShallow ==
  ASSUME NEW t, NEW i, NEW r, NEW S, NEW q \in Seq(S), Bare(q)
  PROVE  Shallow(t, (<<<<"append", r>>>> \o <<<<"leave", i>>>>) \o q)
  <1> DEFINE two == <<<<"append", r>>>> \o <<<<"leave", i>>>>
             c == two \o q
             T == S \cup {<<"append", r>>, <<"leave", i>>}
  <1>1. two \in Seq(T) /\ q \in Seq(T) /\ Len(two) = 2 /\ two[1] = <<"append", r>> /\ two[2] = <<"leave", i>>
    <2>1. q \in Seq(T)
      BY SeqMonotonic
    <2> DEFINE a == <<<<"append", r>>>>
               b == <<<<"leave", i>>>>
    <2>2. /\ a \in Seq(T) /\ Len(a) = 1 /\ a[1] = <<"append", r>>
          /\ b \in Seq(T) /\ Len(b) = 1 /\ b[1] = <<"leave", i>>
      OBVIOUS
    <2> HIDE DEF a, b, T
    <2>3. /\ a \o b \in Seq(T) /\ Len(a \o b) = Len(a) + Len(b) /\ DOMAIN a = 1 .. Len(a) /\ DOMAIN b = 1 .. Len(b)
          /\ \A k \in DOMAIN a : (a \o b)[k] = a[k]
          /\ \A k \in DOMAIN b : (a \o b)[Len(a) + k] = b[k]
      BY <2>2, ConcatElements
    <2>4. (a \o b)[1] = a[1] /\ (a \o b)[2] = b[1]
      BY <2>2, <2>3
    <2>5. two = a \o b
      BY DEF a, b
    <2> HIDE DEF two
    <2> QED
      BY <2>1, <2>2, <2>3, <2>4, <2>5
  <1> HIDE DEF two, T
  <1>2. /\ DOMAIN c = 1 .. 2 + Len(q) /\ Len(q) \in Nat /\ DOMAIN q = 1 .. Len(q) /\ DOMAIN two = 1 .. 2
        /\ \A k \in DOMAIN two : c[k] = two[k]
        /\ \A k \in DOMAIN c : k > 2 => k - 2 \in DOMAIN q /\ c[k] = q[k - 2]
        /\ c \in Seq(T) /\ Len(c) = 2 + Len(q)
    <2>1. /\ DOMAIN c = 1 .. Len(two) + Len(q) /\ Len(q) \in Nat /\ DOMAIN q = 1 .. Len(q)
          /\ \A k \in DOMAIN two : c[k] = two[k]
          /\ DOMAIN two = 1 .. Len(two) /\ c \in Seq(T) /\ Len(c) = Len(two) + Len(q)
          /\ \A k \in DOMAIN c : k > Len(two) => k - Len(two) \in DOMAIN q /\ c[k] = q[k - Len(two)]
      BY <1>1, ConcatElements
    <2> HIDE DEF c
    <2> QED
      BY <1>1, <2>1
  <1> HIDE DEF c
  <1>3. c[1][1] = "append" /\ c[2][1] = "leave" /\ \A k \in DOMAIN c : k > 2 => c[k][1] \notin {"append", "leave"}
    BY <1>1, <1>2 DEF Bare
  <1>4. Shallow(t, c)
    BY <1>2, <1>3 DEF Shallow
  <1> QED
    BY <1>4 DEF c, two

LEMMA RestOfAppend ==
  ASSUME NEW t, NEW S, NEW q \in Seq(S), Shallow(t, q), q # <<>>, q[1][1] = "append"
  PROVE  Shallow(t, Rest(q))
  <1> DEFINE c == Rest(q)
  <1>1. /\ DOMAIN q = 1 .. Len(q) /\ DOMAIN c = 1 .. Len(c) /\ Len(c) \in Nat /\ Len(q) \in Nat
        /\ \A k \in DOMAIN c : c[k] = q[k + 1] /\ k + 1 \in DOMAIN q
        /\ c \in Seq(S)
    BY RestElements
  <1> HIDE DEF c
  <1>2. \A k \in DOMAIN c : c[k][1] # "append"
    BY <1>1 DEF Shallow
  <1>3. \A k \in DOMAIN c : c[k][1] = "leave" => k = 1
    BY <1>1 DEF Shallow
  <1>4. c # <<>> => 1 \in DOMAIN c
    BY <1>1, EmptySeq
  <1>5. Shallow(t, c)
    BY <1>2, <1>3, <1>4 DEF Shallow
  <1> QED
    BY <1>5 DEF c

\* What Then makes of an agenda.
LEMMA ThenRest ==
  ASSUME Agendas, NEW t \in Threads, NEW s, Then(t, s)
  PROVE  agenda'[t] = s \o Rest(agenda[t]) /\ \A u \in Threads : u # t => agenda'[u] = agenda[u]
  <1>1. agenda' = [agenda EXCEPT ![t] = s \o Rest(agenda[t])]
    BY DEF Then, Idle, Rest
  <1> QED
    BY <1>1 DEF Agendas

LEMMA LuaIsShallow ==
  ASSUME Agendas, Mods, NEW t \in Threads, NEW i \in Instances, RunLua(t, i),
         t # Loop \/ ~inlined', Shallow(t, agenda[t]), Idle(t) \/ ~NextIs(t, "append")
  PROVE  Shallow(t, agenda'[t])
  <1> DEFINE q == Rest(agenda[t])
  <1>1. agenda[t] \in Seq(AgendaSteps) /\ q \in Seq(AgendaSteps)
    BY RestElements DEF Agendas
  <1>2. Bare(q)
    BY <1>1, RestIsBare DEF Idle, NextIs
  <1>3. PICK s \in Seq(Plain(t)) : Then(t, s \o <<<<"leave", i>>>>) /\ Request(t, i, s)
    BY LuaAsks
  <1>4. agenda'[t] = (s \o <<<<"leave", i>>>>) \o q
    BY <1>3, ThenRest
  <1> HIDE DEF q
  <1>5. CASE s = <<>>
    <2>1. <<<<"leave", i>>>> \in Seq(Leaves)
      BY DEF Leaves
    <2>2. s \o <<<<"leave", i>>>> = <<<<"leave", i>>>>
      BY <1>5, <2>1, ConcatEmptySeq
    <2> QED
      BY <1>1, <1>2, <1>4, <2>2, LeaveIsShallow
  <1>6. ASSUME NEW r, s = <<<<"append", r>>>> PROVE Shallow(t, agenda'[t])
    BY <1>1, <1>2, <1>4, <1>6, AppendIsShallow
  <1>7. s = <<>> \/ \E r : s = <<<<"append", r>>>>
    BY <1>3, Zenon DEF Request
  <1> QED
    BY <1>5, <1>6, <1>7

\* A step that queues nothing and runs no Lua code.
LEMMA BareStepIsShallow ==
  ASSUME Agendas, NEW t \in Threads, NEW s \in Seq(AgendaSteps), Then(t, s), Bare(s),
         Shallow(t, agenda[t]), Idle(t) \/ ~NextIs(t, "append")
  PROVE  Shallow(t, agenda'[t])
  <1> DEFINE q == Rest(agenda[t])
  <1>1. agenda[t] \in Seq(AgendaSteps) /\ q \in Seq(AgendaSteps)
    BY RestElements DEF Agendas
  <1>2. Bare(q)
    BY <1>1, RestIsBare DEF Idle, NextIs
  <1>3. agenda'[t] = s \o q
    BY ThenRest
  <1> HIDE DEF q
  <1>4. Bare(s \o q) /\ s \o q \in Seq(AgendaSteps)
    BY <1>1, <1>2, BareConcat, ConcatProperties
  <1> QED
    BY <1>3, <1>4, BareIsShallow

LEMMA BareSteps ==
  ASSUME LoopInv, NEW t \in Threads,
         LeaveLua(t) \/ SetPause(t) \/ ScanMods(t) \/ StopAsync(t) \/ JoinAsync(t) \/ CloseState(t) \/ ChangeMods(t)
  PROVE  ~NextIs(t, "append") /\ inlined' = inlined
         /\ \E s \in Seq(AgendaSteps) : Then(t, s) /\ Bare(s)
  <1>0. <<>> \in Seq(AgendaSteps) /\ Bare(<<>>)
    BY EmptySeq DEF Bare
  <1>1. CASE LeaveLua(t) \/ SetPause(t) \/ JoinAsync(t) \/ CloseState(t) \/ ChangeMods(t)
    <2>1. ~NextIs(t, "append")
      BY <1>1 DEF LeaveLua, SetPause, JoinAsync, CloseState, ChangeMods, NextIs
    <2>2. Then(t, <<>>) /\ inlined' = inlined
      BY <1>1 DEF LeaveLua, SetPause, JoinAsync, CloseState, ChangeMods
    <2> QED
      BY <1>0, <2>1, <2>2
  <1>2. CASE StopAsync(t)
    <2>1. ~NextIs(t, "append") /\ Subject(t) \in Instances /\ inlined' = inlined
      BY <1>2, Subjects DEF StopAsync, NextIs, LoopInv, SubjectsOf
    <2>2. <<"close", Subject(t)>> \in AgendaSteps /\ <<"join", Subject(t)>> \in AgendaSteps
      BY <2>1 DEF AgendaSteps, Building
    <2>3. /\ <<<<"close", Subject(t)>>>> \in Seq(AgendaSteps)
          /\ <<<<"join", Subject(t)>>, <<"close", Subject(t)>>>> \in Seq(AgendaSteps)
      BY <2>2
    <2>4. /\ Bare(<<<<"close", Subject(t)>>>>)
          /\ Bare(<<<<"join", Subject(t)>>, <<"close", Subject(t)>>>>)
      BY DEF Bare
    <2> QED
      BY <1>2, <2>1, <2>3, <2>4 DEF StopAsync
  <1>3. CASE ScanMods(t)
    <2>1. ~NextIs(t, "append") /\ Subject(t) \in SUBSET Names /\ inlined' = inlined
      BY <1>3, Subjects DEF ScanMods, NextIs, LoopInv, SubjectsOf
    <2>2. ASSUME NEW n \in Subject(t) 
          PROVE  /\ Birth(n) \o <<<<"scan", Subject(t) \ {n}>>>> \in Seq(AgendaSteps)
                 /\ Bare(Birth(n) \o <<<<"scan", Subject(t) \ {n}>>>>)
      <3>1. <<"create", n>> \in AgendaSteps /\ <<"launch", n>> \in AgendaSteps /\ <<"scan", Subject(t) \ {n}>> \in AgendaSteps
        BY <2>1 DEF AgendaSteps, Building, Scanning
      <3>2. Birth(n) \in Seq(AgendaSteps) /\ <<<<"scan", Subject(t) \ {n}>>>> \in Seq(AgendaSteps)
        BY <3>1 DEF Birth
      <3>3. Bare(Birth(n)) /\ Bare(<<<<"scan", Subject(t) \ {n}>>>>)
        BY DEF Bare, Birth
      <3> QED
        BY <3>2, <3>3, BareConcat, ConcatProperties
    <2> QED
      BY <1>0, <1>3, <2>1, <2>2 DEF ScanMods
  <1> QED
    BY <1>1, <1>2, <1>3

\* What is only built is bare, as is all that is put on the loop's agenda.
LEMMA PlainIsBare ==
  ASSUME NEW s \in Seq(Plain(Loop))
  PROVE  Bare(s) /\ s \in Seq(AgendaSteps)
  <1>1. \A x \in Plain(Loop) : x \in AgendaSteps /\ x[1] \notin {"append", "leave"}
    BY RepertoireOf DEF Plain, LoopSteps
  <1>2. \A k \in DOMAIN s : s[k] \in Plain(Loop)
    BY ElementOfSeq, LenProperties
  <1>3. Plain(Loop) \subseteq AgendaSteps
    BY <1>1
  <1> QED
    BY <1>1, <1>2, <1>3, SeqMonotonic DEF Bare

LEMMA ShallowStep ==
  ASSUME LoopInv, ShallowStacks, NEW t \in Threads, Step(t)
  PROVE  ShallowStacks'
  <1> USE DEF LoopInv
  <1>1. \A u \in Threads : u # t => agenda'[u] = agenda[u]
    BY StepIsLocal
  <1>2. ASSUME inlined => inlined', t # Loop \/ ~inlined' => Shallow(t, agenda'[t])
        PROVE  ShallowStacks'
    BY <1>1, <1>2 DEF ShallowStacks
  <1>3. CASE LeaveLua(t) \/ SetPause(t) \/ ScanMods(t) \/ StopAsync(t) \/ JoinAsync(t) \/ CloseState(t) \/ ChangeMods(t)
    <2>1. ~NextIs(t, "append") /\ inlined' = inlined
      BY <1>3, BareSteps
    <2>2. PICK s \in Seq(AgendaSteps) : Then(t, s) /\ Bare(s)
      BY <1>3, BareSteps
    <2> QED
      BY <1>2, <2>1, <2>2, BareStepIsShallow DEF ShallowStacks
  <1>4. CASE AppendEvent(t)
    <2>1. NextIs(t, "append") /\ Then(t, <<>>) /\ inlined' = inlined
      BY <1>4 DEF AppendEvent
    <2>2. agenda[t] \in Seq(AgendaSteps) /\ Rest(agenda[t]) \in Seq(AgendaSteps)
      BY RestElements DEF Agendas
    <2>3. agenda'[t] = Rest(agenda[t])
      <3>1. agenda'[t] = <<>> \o Rest(agenda[t])
        BY <2>1, ThenRest
      <3> QED
        BY <2>2, <3>1, ConcatEmptySeq
    <2>4. Shallow(t, agenda[t]) => Shallow(t, agenda'[t])
      BY <2>1, <2>2, <2>3, RestOfAppend DEF NextIs
    <2> QED
      BY <1>2, <2>1, <2>4 DEF ShallowStacks
  <1>5. ASSUME NEW i \in Instances, RunLua(t, i), ~NextIs(t, "append") PROVE ShallowStacks'
    <2>1. inlined => inlined'
      BY <1>5, LuaAsks
    <2> QED
      BY <1>2, <1>5, <2>1, LuaIsShallow DEF ShallowStacks
  <1>6. CASE StartMod(t)
    <2>1. ~NextIs(t, "append")
      BY <1>6, StartCases DEF NextIs
    <2>2. CASE Then(t, <<>>) /\ UNCHANGED <<stage, async, lua, requests, inlined>>
      <3>1. <<>> \in Seq(AgendaSteps) /\ Bare(<<>>)
        BY EmptySeq DEF Bare
      <3> QED
        BY <1>2, <2>1, <2>2, <3>1, BareStepIsShallow DEF ShallowStacks
    <2> QED
      BY <1>5, <1>6, <2>1, <2>2, StartCases, FirstProperties
  <1>7. CASE EnterLua(t)
    <2>1. ~NextIs(t, "append") /\ RunLua(t, Subject(t)) /\ Subject(t) \in Instances
      BY <1>7, Subjects DEF EnterLua, NextIs, SubjectsOf
    <2> QED
      BY <1>5, <2>1
  <1> QED
    BY <1>3, <1>4, <1>6, <1>7 DEF Step

LEMMA ShallowInit == Init => ShallowStacks
  <1> SUFFICES ASSUME Init PROVE ShallowStacks
    OBVIOUS
  <1>1. PICK enabled \in SUBSET Names : \E order \in SetToSeqs(enabled) :
            agenda = [t \in Threads |->
                         IF t = Loop THEN [k \in DOMAIN order |-> <<"launch", order[k]>>] ELSE <<>>]
    BY DEF Init
  <1>2. PICK order \in SetToSeqs(enabled) :
            agenda = [t \in Threads |->
                         IF t = Loop THEN [k \in DOMAIN order |-> <<"launch", order[k]>>] ELSE <<>>]
    BY <1>1
  <1>3. \A t \in Threads : Bare(agenda[t])
    BY <1>2 DEF Bare
  <1>4. \A t \in Threads : agenda[t] \in Seq(AgendaSteps)
    BY LoopInvInit DEF LoopInv, Agendas
  <1> QED
    BY <1>3, <1>4, BareIsShallow DEF ShallowStacks

LEMMA ShallowNext == TypesInv /\ ShallowStacks /\ [Next]_vars => ShallowStacks'
  <1> SUFFICES ASSUME TypesInv, ShallowStacks, [Next]_vars PROVE ShallowStacks'
    OBVIOUS
  <1> USE DEF TypesInv, LoopInv
  <1>0. /\ Loop \in Threads /\ Watcher \in Threads /\ Game \in Threads /\ Gui \in Threads
        /\ \A i \in Instances : Async(i) \in Threads /\ Async(i) # Loop
        /\ Loop # Watcher /\ Loop # Game /\ Loop # Gui
    BY ThreadKinds
  \* A thread with nothing to do begins something.
  <1>1. ASSUME NEW t \in Threads, NEW s \in Seq(AgendaSteps), Idle(t), Then(t, s), Bare(s),
               t = Loop \/ (inlined => inlined')
        PROVE  ShallowStacks'
    <2>1. Shallow(t, agenda[t])
      <3>1. agenda[t] = <<>> /\ Bare(<<>>) /\ <<>> \in Seq(AgendaSteps)
        BY <1>1, EmptySeq DEF Idle, Bare
      <3> QED
        BY <3>1, BareIsShallow
    <2>2. Shallow(t, agenda'[t])
      BY <1>1, <2>1, BareStepIsShallow
    <2>3. \A u \in Threads : u # t => agenda'[u] = agenda[u]
      BY <1>1, ThenRest
    <2> QED
      BY <1>0, <1>1, <2>2, <2>3 DEF ShallowStacks
  <1>2. ASSUME agenda' = agenda, inlined' = inlined PROVE ShallowStacks'
    BY <1>2 DEF ShallowStacks
  <1>3. ASSUME NEW t \in Threads, Step(t) PROVE ShallowStacks'
    BY <1>3, ShallowStep
  <1>4. CASE StartLoop \/ Fetch \/ EndBatch \/ Answer \/ Awake \/ StoreIdle
    BY <1>2, <1>4 DEF StartLoop, Fetch, EndBatch, Answer, Awake, StoreIdle
  <1>5. CASE RunEvent
    <2>1. executed + 1 \in 1 .. Len(m_queued_events)
      BY <1>5, LenProperties DEF RunEvent, BatchOver, Queue
    <2>2. m_queued_events[executed + 1] \in Asks
      BY <2>1, ElementOfSeq DEF Queue
    <2>3. Handling(m_queued_events[executed + 1]) \in Seq(Plain(Loop))
      BY <2>2, HandlingType, PlainTypes, SeqMonotonic
    <2> QED
      BY <1>0, <1>1, <1>5, <2>3, PlainIsBare DEF RunEvent
  <1>6. CASE Input
    <2>1. PICK s \in Seq(Plain(Loop)) : Then(Loop, s)
      BY <1>6, InputType
    <2>2. Idle(Loop)
      BY <1>6 DEF Input, Rests
    <2> QED
      BY <1>0, <1>1, <2>1, <2>2, PlainIsBare
  <1>7. CASE Notice \/ FallAsleep \/ EndSection
    BY <1>2, <1>7 DEF Notice, FallAsleep, EndSection
  <1>8. CASE BeginSection
    <2>1. Idle(Watcher) /\ inlined' = inlined
      BY <1>8 DEF BeginSection, Rests
    <2>2. CASE UNCHANGED agenda
      BY <1>2, <2>1, <2>2
    <2>3. CASE Then(Watcher, Discover)
      <3>1. Discover \in Seq(AgendaSteps)
        <4>1. {n \in Names : \A k \in DOMAIN m_mods : name[m_mods[k]] # n} \in SUBSET Names
          OBVIOUS
        <4>2. \A S \in SUBSET Names : <<"scan", S>> \in AgendaSteps
          BY DEF AgendaSteps, Scanning
        <4>3. <<"pause", 0>> \in AgendaSteps /\ <<"resume", 0>> \in AgendaSteps
          BY DEF AgendaSteps, Scanning
        <4> QED
          BY <4>1, <4>2, <4>3 DEF Discover
      <3>2. Bare(Discover)
        BY DEF Bare, Discover
      <3> QED
        BY <1>0, <1>1, <2>1, <2>3, <3>1, <3>2
    <2>4. ASSUME NEW i \in ToSet(m_mods), Then(Watcher, Reload(i)) PROVE ShallowStacks'
      <3>1. PICK k \in DOMAIN m_mods : i = m_mods[k]
        BY <2>4 DEF ToSet
      <3>2. i \in Instances /\ name[i] \in Names
        <4>1. i \in Instances
          BY <3>1, ElementOfSeq, LenProperties DEF Mods
        <4> QED
          BY <3>1, <4>1 DEF Mods
      <3>3. Reload(i) \in Seq(AgendaSteps)
        <4>1. <<"uninstall", i>> \in AgendaSteps /\ <<"replace", i>> \in AgendaSteps /\ <<"launch", name[i]>> \in AgendaSteps
          BY <3>2 DEF AgendaSteps, Building
        <4> QED
          BY <4>1 DEF Reload
      <3>4. Bare(Reload(i))
        BY DEF Bare, Reload
      <3> QED
        BY <1>0, <1>1, <2>1, <2>4, <3>3, <3>4
    <2> QED
      BY <1>8, <2>2, <2>3, <2>4 DEF BeginSection
  <1>9. ASSUME NEW t \in {Gui, Game}, OutsideAsk(t) PROVE ShallowStacks'
    <2>1. PICK r \in Asks : Then(t, Asked(t, r))
      BY <1>9 DEF OutsideAsk
    <2>2. Idle(t) /\ inlined' = inlined /\ agenda[t] = <<>>
      BY <1>9 DEF OutsideAsk, Idle
    <2>3. CASE phase = "boot"
      <3>1. Asked(t, r) = <<>> /\ <<>> \in Seq(AgendaSteps) /\ Bare(<<>>)
        BY <2>3, EmptySeq DEF Asked, Bare
      <3> QED
        BY <1>0, <1>1, <2>1, <2>2, <3>1
    <2>4. CASE phase # "boot"
      <3>1. Asked(t, r) = <<<<"append", r>>>>
        BY <1>0, <2>4 DEF Asked
      <3>2. <<<<"append", r>>>> \in Seq(Appends)
        <4>1. <<"append", r>> \in Appends
          BY DEF Appends
        <4> QED
          BY <4>1
      <3>3. agenda'[t] = <<<<"append", r>>>>
        <4>1. agenda'[t] = <<<<"append", r>>>> \o <<>>
          BY <1>0, <2>1, <2>2, <3>1, ThenRest DEF Rest
        <4> QED
          BY <3>2, <4>1, ConcatEmptySeq
      <3>4. Shallow(t, agenda'[t])
        BY <3>3 DEF Shallow
      <3>5. \A u \in Threads : u # t => agenda'[u] = agenda[u]
        BY <1>0, <2>1, ThenRest
      <3> QED
        BY <2>2, <3>4, <3>5 DEF ShallowStacks
    <2> QED
      BY <2>3, <2>4
  <1>10. ASSUME NEW i \in Instances, CheckStop(i) PROVE ShallowStacks'
    <2>1. Idle(Async(i)) /\ inlined' = inlined
      BY <1>10 DEF CheckStop
    <2>2. <<<<"enter", i>>>> \in Seq(AgendaSteps) /\ Bare(<<<<"enter", i>>>>)
      <3>1. <<"enter", i>> \in AgendaSteps
        BY DEF AgendaSteps
      <3> QED
        BY <3>1 DEF Bare
    <2> QED
      BY <1>0, <1>1, <1>2, <1>10, <2>1, <2>2 DEF CheckStop
  <1>11. ASSUME NEW i \in Instances, GameCallback(i) PROVE ShallowStacks'
    <2>1. Idle(Game) /\ RunLua(Game, i)
      BY <1>11 DEF GameCallback
    <2>2. Shallow(Game, agenda'[Game]) /\ (inlined => inlined')
      BY <1>0, <2>1, LuaIsShallow, LuaAsks DEF ShallowStacks
    <2>3. \A u \in Threads : u # Game => agenda'[u] = agenda[u]
      BY <1>0, <2>1, LuaAsks, ThenRest
    <2> QED
      BY <1>0, <2>2, <2>3 DEF ShallowStacks
  <1>12. CASE UNCHANGED AllButTaken
    BY <1>2, <1>12 DEF AllButTaken
  <1> QED
    BY <1>3, <1>4, <1>5, <1>6, <1>7, <1>8, <1>9, <1>10, <1>11, <1>12, NextKinds DEF LoopStep, WatcherStep

\* A thread inside of a callback has its end before it, directly or behind the
\* request it is about to queue.
LEMMA InsideOfLua ==
  ASSUME LoopInv, ShallowStacks, NEW t \in Threads, t # Loop \/ ~inlined, Held(agenda[t]) # 0
  PROVE  NextIs(t, "leave") \/ (NextIs(t, "append") /\ LockedIn(t) # {})
  <1>1. agenda[t] \in Seq(AgendaSteps) /\ Shallow(t, agenda[t])
    BY DEF LoopInv, Agendas, ShallowStacks
  <1>2. PICK k \in DOMAIN agenda[t] : agenda[t][k][1] = "leave"
    BY <1>1, HeldType
  <1>3. agenda[t][k] \in AgendaSteps /\ agenda[t] # <<>>
    BY <1>1, ElementOfSeq, LenProperties, EmptySeq
  <1>4. PICK i \in Instances : agenda[t][k] = <<"leave", i>>
    BY <1>2, <1>3 DEF AgendaSteps, Appends, Building, Scanning
  <1>5. i \in LockedIn(t)
    BY <1>4 DEF LockedIn, InsideOf
  <1> QED
    BY <1>1, <1>2, <1>3, <1>5 DEF Shallow, NextIs

\* A request of an async thread comes from a callback.
LEMMA RequestsAreFromLua ==
  ASSUME LoopInv, ShallowStacks, NEW t \in Threads, t \notin {Loop, Gui, Game}, NextIs(t, "append")
  PROVE  LockedIn(t) # {}
  <1>1. agenda[t] \in Seq(AgendaSteps) /\ Shallow(t, agenda[t]) /\ agenda[t] # <<>>
    BY DEF LoopInv, Agendas, ShallowStacks, NextIs
  <1>2. Len(agenda[t]) > 1 /\ agenda[t][2][1] = "leave"
    BY <1>1 DEF Shallow, NextIs
  <1>3. 2 \in 1 .. Len(agenda[t]) /\ 2 \in DOMAIN agenda[t]
    BY <1>1, <1>2, LenProperties
  <1>4. agenda[t][2] \in AgendaSteps
    BY <1>1, <1>3, ElementOfSeq
  <1>5. PICK i \in Instances : agenda[t][2] = <<"leave", i>>
    BY <1>2, <1>4 DEF AgendaSteps, Appends, Building, Scanning
  <1>6. i \in LockedIn(t)
    BY <1>3, <1>5 DEF LockedIn, InsideOf
  <1> QED
    BY <1>6

\* The blocked threads of a circular wait, and what each is blocked by.
LEMMA BlockedCases ==
  ASSUME LoopInv, NEW t \in Threads, BlockedBy(t) # {}
  PROVE  \/ t = Loop /\ phase = "await" /\ BlockedBy(t) = {Watcher}
         \/ NextIs(t, "append") /\ QueueHeld /\ BlockedBy(t) = {Loop}
         \/ NextIs(t, "join") /\ Subject(t) \in Instances /\ BlockedBy(t) = {Async(Subject(t))}
         \/ /\ NextIs(t, "close") \/ NextIs(t, "enter") \/ NextIs(t, "launch")
            /\ ~CanLock(t) /\ BlockedBy(t) = {lua.by}
  <1>1. CASE Idle(t)
    BY <1>1 DEF BlockedBy
  <1>2. CASE ~Idle(t)
    <2>1. NextIs(t, "join") => Subject(t) \in Instances
      BY Subjects DEF LoopInv, SubjectsOf
    <2>2. BlockedBy(t) = CASE agenda[t][1][1] = "append" /\ QueueHeld -> {Loop}
                           [] agenda[t][1][1] = "join" /\ async[Subject(t)] # "exited" -> {Async(Subject(t))}
                           [] agenda[t][1][1] \in {"close", "enter"} /\ ~CanLock(t) -> {lua.by}
                           [] agenda[t][1][1] = "launch" /\ ~CanLock(t) -> {lua.by}
                           [] OTHER -> {}
      BY <1>2 DEF BlockedBy
    <2>3. CASE agenda[t][1][1] = "append"
      BY <1>2, <2>2, <2>3 DEF NextIs, Idle
    <2>4. CASE agenda[t][1][1] = "join"
      BY <1>2, <2>1, <2>2, <2>4 DEF NextIs, Idle
    <2>5. CASE agenda[t][1][1] \in {"close", "enter"}
      BY <1>2, <2>2, <2>5 DEF NextIs, Idle
    <2>6. CASE agenda[t][1][1] = "launch"
      BY <1>2, <2>2, <2>6 DEF NextIs, Idle
    <2>7. CASE agenda[t][1][1] \notin {"append", "join", "close", "enter", "launch"}
      BY <2>2, <2>7
    <2> QED
      BY <2>3, <2>4, <2>5, <2>6, <2>7
  <1> QED
    BY <1>1, <1>2

\* A circular wait is possible only while a batch of events is being executed
\* and a Lua callback on another thread asks for a restart or an uninstall, or
\* when Lua on the loop thread had a request executed inside it
\* (LuaMod::uninstall, queue_event).
THEOREM DeadlocksAreKnown == Spec => []DeadlockNeedsRequestFromLua
  <1>1. TypesInv /\ ShallowStacks => DeadlockNeedsRequestFromLua
    <2> SUFFICES ASSUME LoopInv, ShallowStacks, CircularWait, ~inlined,
                        ~(QueueHeld /\ \E t \in Threads : LockedIn(t) # {} /\ NextIs(t, "append"))
                 PROVE  FALSE
      BY DEF TypesInv, DeadlockNeedsRequestFromLua
    <2>1. PICK S \in SUBSET {t \in Threads : BlockedBy(t) # {}} : S # {} /\ \A t \in S : BlockedBy(t) \cap S # {}
      BY DEF CircularWait
    <2>2. \A t \in S : t \in Threads /\ BlockedBy(t) # {}
      BY <2>1
    <2>3. \A t \in S : ~NextIs(t, "leave")
      <3>1. \A t \in S : NextIs(t, "leave") => BlockedBy(t) = {}
        BY DEF NextIs, BlockedBy, Idle
      <3> QED
        BY <2>2, <3>1
    \* The holder of m_thread_actions_mutex is not blocked.
    <2>4. \A t \in S : Held(agenda[t]) = 0
      <3> SUFFICES ASSUME NEW t \in S, Held(agenda[t]) # 0 PROVE FALSE
        OBVIOUS
      <3>1. NextIs(t, "append") /\ LockedIn(t) # {}
        BY <2>2, <2>3, InsideOfLua
      <3>2. ~QueueHeld
        BY <2>2, <3>1
      <3>3. BlockedBy(t) = {}
        BY <3>1, <3>2 DEF BlockedBy, NextIs, Idle
      <3> QED
        BY <2>2, <3>3
    <2>5. \A t \in S : CanLock(t) \/ lua.by \notin S
      <3> SUFFICES ASSUME NEW t \in S, lua.by \in S, lua.by # Nobody PROVE FALSE
        BY DEF CanLock
      <3>1. lua.by \in Threads /\ lua.count # 0 /\ Held(agenda[lua.by]) = lua.count
        BY <2>2 DEF LoopInv, MutexCounts
      <3> QED
        BY <2>4, <3>1
    <2>6. \A t \in S : \/ t = Loop /\ phase = "await" /\ Watcher \in S
                       \/ NextIs(t, "append") /\ QueueHeld /\ Loop \in S
                       \/ NextIs(t, "join") /\ Subject(t) \in Instances /\ Async(Subject(t)) \in S
      BY <2>1, <2>2, <2>5, BlockedCases
    \* No async thread is blocked: it waits for the queue from inside of Lua.
    <2>7. \A i \in Instances : Async(i) \notin S
      <3> SUFFICES ASSUME NEW i \in Instances, Async(i) \in S PROVE FALSE
        OBVIOUS
      <3>1. Async(i) \in Threads /\ Async(i) \notin {Loop, Watcher, Game, Gui}
        BY ThreadKinds
      <3>2. ~NextIs(Async(i), "join")
        BY <3>1, Subjects DEF LoopInv, SubjectsOf
      <3>3. NextIs(Async(i), "append") /\ QueueHeld
        BY <2>6, <3>1, <3>2
      <3>4. LockedIn(Async(i)) # {}
        BY <3>1, <3>3, RequestsAreFromLua
      <3> QED
        BY <3>1, <3>3, <3>4
    <2>8. Loop \in S => phase = "await" /\ Watcher \in S
      <3>1. Loop \in S => ~NextIs(Loop, "append")
        BY <2>2, Subjects DEF LoopInv, SubjectsOf
      <3> QED
        BY <2>6, <2>7, <3>1
    <2>9. Loop \in S
      <3>1. PICK t \in S : TRUE
        BY <2>1
      <3> QED
        BY <2>6, <2>7, <3>1
    <2>10. phase = "await" /\ Watcher \in S
      BY <2>8, <2>9
    <2>11. ~QueueHeld /\ Watcher # Loop
      BY <2>10, ThreadKinds DEF QueueHeld
    <2> QED
      BY <2>6, <2>7, <2>10, <2>11
  <1> QED
    BY <1>1, AlwaysTypes, ShallowInit, ShallowNext, PTL DEF Spec

-----------------------------------------------------------------------------
(* What has to be done before a step of an agenda is taken.                 *)

\* What the steps depend on: the mods in the list and their names, those that
\* run, and those whose async thread has not been joined.
World == [listed |-> ToSet(m_mods), name |-> name,
          running |-> {i \in Instances : stage[i] = "started"},
          threads |-> {i \in Instances : async[i] # "none"}]

Ends(i, done) == <<"uninstall", i>> \in done \/ <<"close", i>> \in done
Removes(i, done) == <<"clear", 0>> \in done \/ <<"delete", i>> \in done

\* Behind one of these a thread only starts mods and leaves callbacks.
LastOps == {"launch", "enter", "leave", "replace", "scan"}
HarmlessOps == {"launch", "enter", "leave", "resume"}
CalmOps == HarmlessOps \cup {"scan"}

\* In a world w, x may be done behind the steps in done: the async thread has
\* been joined before the state is closed, a mod is ended before it is removed,
\* and removed before another one of its name is made.
Ready(w, x, done) ==
    /\ x[1] = "close" => x[2] \notin w.threads \/ <<"join", x[2]>> \in done \/ <<"uninstall", x[2]>> \in done
    /\ x[1] \in {"delete", "replace"} => x[2] \notin w.running \/ Ends(x[2], done)
    /\ x[1] = "clear" => \A i \in w.running : Ends(i, done)
    /\ x[1] = "create" => x \notin done /\ \A i \in w.listed : w.name[i] = x[2] => Removes(i, done)
    /\ x[1] = "scan" => /\ \A i \in w.listed : w.name[i] \notin x[2]
                        /\ \A y \in done : y[1] # "scan" /\ (y[1] = "create" => y[2] \notin x[2])
    /\ (\E y \in done : y[1] \in LastOps) => x[1] \in CalmOps

\* Every step of q is ready behind those in done and those before it.
Earlier(q, k) == {q[j] : j \in 1 .. k - 1}
Follows(w, q, done) == \A k \in DOMAIN q : Ready(w, q[k], done \cup Earlier(q, k))

LEMMA HarmlessReady ==
  ASSUME NEW w, NEW x, NEW done, x[1] \in HarmlessOps
  PROVE  Ready(w, x, done)
  BY DEF Ready, HarmlessOps, CalmOps

LEMMA ChainFollows ==
  ASSUME NEW w, NEW done, NEW S, NEW a \in Seq(S), NEW b \in Seq(S)
  PROVE  Follows(w, a \o b, done) <=> Follows(w, a, done) /\ Follows(w, b, done \cup ToSet(a))
  <1> DEFINE c == a \o b
  <1>1. /\ Len(a) \in Nat /\ Len(b) \in Nat
        /\ DOMAIN a = 1 .. Len(a) /\ DOMAIN b = 1 .. Len(b) /\ DOMAIN c = 1 .. Len(a) + Len(b)
        /\ \A k \in DOMAIN a : c[k] = a[k]
        /\ \A k \in DOMAIN c : k > Len(a) => k - Len(a) \in DOMAIN b /\ c[k] = b[k - Len(a)]
        /\ \A k \in DOMAIN b : Len(a) + k \in DOMAIN c /\ c[Len(a) + k] = b[k]
    BY ConcatElements
  <1> HIDE DEF c
  <1>2. \A k \in DOMAIN a : k \in DOMAIN c /\ Earlier(c, k) = Earlier(a, k)
    <2> SUFFICES ASSUME NEW k \in DOMAIN a PROVE k \in DOMAIN c /\ Earlier(c, k) = Earlier(a, k)
      OBVIOUS
    <2>1. k \in DOMAIN c /\ \A j \in 1 .. k - 1 : j \in DOMAIN a
      BY <1>1
    <2>2. \A j \in 1 .. k - 1 : c[j] = a[j]
      BY <1>1, <2>1
    <2> QED
      BY <2>1, <2>2 DEF Earlier
  <1>3. \A k \in DOMAIN b : Earlier(c, Len(a) + k) = ToSet(a) \cup Earlier(b, k)
    <2> SUFFICES ASSUME NEW k \in DOMAIN b PROVE Earlier(c, Len(a) + k) = ToSet(a) \cup Earlier(b, k)
      OBVIOUS
    <2>1. ASSUME NEW y \in Earlier(c, Len(a) + k) PROVE y \in ToSet(a) \cup Earlier(b, k)
      <3>1. PICK j \in 1 .. Len(a) + k - 1 : y = c[j]
        BY <2>1 DEF Earlier
      <3>2. CASE j <= Len(a)
        BY <1>1, <3>1, <3>2 DEF ToSet
      <3>3. CASE j > Len(a)
        <4>1. j \in DOMAIN c /\ j - Len(a) \in 1 .. k - 1
          BY <1>1, <3>1, <3>3
        <4>2. y = b[j - Len(a)]
          BY <1>1, <3>1, <3>3, <4>1
        <4> QED
          BY <4>1, <4>2 DEF Earlier
      <3> QED
        BY <1>1, <3>1, <3>2, <3>3
    <2>2. ASSUME NEW y \in ToSet(a) PROVE y \in Earlier(c, Len(a) + k)
      <3>1. PICK j \in DOMAIN a : y = a[j]
        BY <2>2 DEF ToSet
      <3>2. j \in 1 .. Len(a) + k - 1 /\ y = c[j]
        BY <1>1, <3>1
      <3> QED
        BY <3>2 DEF Earlier
    <2>3. ASSUME NEW y \in Earlier(b, k) PROVE y \in Earlier(c, Len(a) + k)
      <3>1. PICK j \in 1 .. k - 1 : y = b[j]
        BY <2>3 DEF Earlier
      <3>2. j \in DOMAIN b /\ Len(a) + j \in 1 .. Len(a) + k - 1
        BY <1>1, <3>1
      <3>3. y = c[Len(a) + j]
        BY <1>1, <3>1, <3>2
      <3> QED
        BY <3>2, <3>3 DEF Earlier
    <2> QED
      BY <2>1, <2>2, <2>3
  <1>4. ASSUME Follows(w, c, done) PROVE Follows(w, a, done) /\ Follows(w, b, done \cup ToSet(a))
    <2>1. Follows(w, a, done)
      BY <1>1, <1>2, <1>4 DEF Follows
    <2>2. ASSUME NEW k \in DOMAIN b PROVE Ready(w, b[k], (done \cup ToSet(a)) \cup Earlier(b, k))
      <3>1. Ready(w, c[Len(a) + k], done \cup Earlier(c, Len(a) + k))
        BY <1>1, <1>4 DEF Follows
      <3>2. done \cup Earlier(c, Len(a) + k) = (done \cup ToSet(a)) \cup Earlier(b, k)
        BY <1>3
      <3> QED
        BY <1>1, <3>1, <3>2
    <2> QED
      BY <2>1, <2>2 DEF Follows
  <1>5. ASSUME Follows(w, a, done), Follows(w, b, done \cup ToSet(a)) PROVE Follows(w, c, done)
    <2> SUFFICES ASSUME NEW k \in DOMAIN c PROVE Ready(w, c[k], done \cup Earlier(c, k))
      BY DEF Follows
    <2>1. CASE k <= Len(a)
      <3>1. k \in DOMAIN a
        BY <1>1, <2>1
      <3> QED
        BY <1>1, <1>2, <1>5, <3>1 DEF Follows
    <2>2. CASE k > Len(a)
      <3>1. PICK l \in DOMAIN b : l = k - Len(a)
        BY <1>1, <2>2
      <3>2. k = Len(a) + l /\ c[k] = b[l]
        BY <1>1, <2>2, <3>1
      <3>3. Ready(w, b[l], (done \cup ToSet(a)) \cup Earlier(b, l))
        BY <1>5 DEF Follows
      <3>4. done \cup Earlier(c, k) = (done \cup ToSet(a)) \cup Earlier(b, l)
        BY <1>3, <3>2
      <3> QED
        BY <3>2, <3>3, <3>4
    <2> QED
      BY <1>1, <2>1, <2>2
  <1> QED
    BY <1>4, <1>5 DEF c

LEMMA OneFollows ==
  ASSUME NEW w, NEW done, NEW x
  PROVE  /\ Follows(w, <<x>>, done) <=> Ready(w, x, done)
         /\ ToSet(<<x>>) = {x}
  <1> DEFINE q == <<x>>
  <1>1. DOMAIN q = {1} /\ q[1] = x /\ ToSet(q) = {x}
    BY DEF ToSet
  <1> HIDE DEF q
  <1>2. done \cup Earlier(q, 1) = done
    BY DEF Earlier
  <1>3. Follows(w, q, done) <=> Ready(w, x, done)
    BY <1>1, <1>2 DEF Follows
  <1> QED
    BY <1>1, <1>3 DEF q

LEMMA TwoFollow ==
  ASSUME NEW w, NEW done, NEW x, NEW y, Ready(w, x, done), Ready(w, y, done \cup {x})
  PROVE  Follows(w, <<x, y>>, done) /\ ToSet(<<x, y>>) = {x, y}
  <1> DEFINE q == <<x, y>>
  <1>1. DOMAIN q = {1, 2} /\ q[1] = x /\ q[2] = y /\ ToSet(q) = {x, y}
    BY DEF ToSet
  <1> HIDE DEF q
  <1>2. done \cup Earlier(q, 1) = done /\ done \cup Earlier(q, 2) = done \cup {x}
    BY <1>1 DEF Earlier
  <1>3. Follows(w, q, done)
    BY <1>1, <1>2 DEF Follows
  <1> QED
    BY <1>1, <1>3 DEF q

LEMMA NothingFollows ==
  ASSUME NEW w, NEW done
  PROVE  Follows(w, <<>>, done) /\ ToSet(<<>>) = {}
  BY DEF Follows, ToSet

\* What the steps behind another one need of it, or of what it has done.
Enabling == {"uninstall", "join", "close", "clear", "delete"}

LEMMA Forgotten ==
  ASSUME NEW w, NEW x, NEW h, NEW E, h[1] \notin Enabling, Ready(w, x, {h} \cup E)
  PROVE  Ready(w, x, E)
  <1>1. \A i : /\ <<"uninstall", i>> \in {h} \cup E => <<"uninstall", i>> \in E
               /\ <<"join", i>> \in {h} \cup E => <<"join", i>> \in E
               /\ <<"close", i>> \in {h} \cup E => <<"close", i>> \in E
               /\ <<"clear", i>> \in {h} \cup E => <<"clear", i>> \in E
               /\ <<"delete", i>> \in {h} \cup E => <<"delete", i>> \in E
    BY DEF Enabling
  <1>2. \A y \in E : y \in {h} \cup E
    OBVIOUS
  <1> QED
    BY <1>1, <1>2 DEF Ready, Ends, Removes

\* In a world with fewer mods, fewer that run and fewer threads more is ready.
Shrinks(w, v) == /\ v.listed \subseteq w.listed /\ v.name = w.name
                 /\ v.running \subseteq w.running /\ v.threads \subseteq w.threads

LEMMA AfterUninstall ==
  ASSUME NEW w, NEW x, NEW i, NEW E, NEW D, <<"close", i>> \in D,
         i \notin w.threads \/ <<"join", i>> \in D, \A y \in D : y[1] \in {"join", "close"},
         Ready(w, x, {<<"uninstall", i>>} \cup E)
  PROVE  Ready(w, x, D \cup E)
  <1> DEFINE F == {<<"uninstall", i>>} \cup E
  <1>1. /\ x[1] = "close" => x[2] \notin w.threads \/ <<"join", x[2]>> \in F \/ <<"uninstall", x[2]>> \in F
        /\ x[1] \in {"delete", "replace"} => x[2] \notin w.running \/ Ends(x[2], F)
        /\ x[1] = "clear" => \A j \in w.running : Ends(j, F)
        /\ x[1] = "create" => x \notin F /\ \A j \in w.listed : w.name[j] = x[2] => Removes(j, F)
        /\ x[1] = "scan" => /\ \A j \in w.listed : w.name[j] \notin x[2]
                            /\ \A y \in F : y[1] # "scan" /\ (y[1] = "create" => y[2] \notin x[2])
        /\ (\E y \in F : y[1] \in LastOps) => x[1] \in CalmOps
    BY DEF Ready
  <1>2. \A j : Ends(j, F) => Ends(j, D \cup E)
    BY DEF Ends
  <1>3. \A j : Removes(j, F) => Removes(j, D \cup E)
    BY DEF Removes
  <1>4. x[1] = "close" => x[2] \notin w.threads \/ <<"join", x[2]>> \in D \cup E \/ <<"uninstall", x[2]>> \in D \cup E
    BY <1>1
  <1>5. x[1] = "create" => x \notin D \cup E
    BY <1>1
  <1>6. x[1] = "scan" => \A y \in D \cup E : y[1] # "scan" /\ (y[1] = "create" => y[2] \notin x[2])
    BY <1>1
  <1>7. (\E y \in D \cup E : y[1] \in LastOps) => x[1] \in CalmOps
    BY <1>1 DEF LastOps
  <1> HIDE DEF F
  <1> QED
    BY <1>1, <1>2, <1>3, <1>4, <1>5, <1>6, <1>7 DEF Ready

LEMMA AfterEnabling ==
  ASSUME NEW w, NEW v, NEW x, NEW h, NEW E, Shrinks(w, v), Ready(w, x, {h} \cup E),
         \A i : /\ h = <<"join", i>> => i \notin v.threads
                /\ h = <<"close", i>> => i \notin v.running
                /\ h = <<"delete", i>> => i \notin v.listed,
         h[1] = "clear" => v.listed = {},
         h[1] # "uninstall"
  PROVE  Ready(v, x, E)
  <1> DEFINE F == {h} \cup E
  <1>1. /\ x[1] = "close" => x[2] \notin w.threads \/ <<"join", x[2]>> \in F \/ <<"uninstall", x[2]>> \in F
        /\ x[1] \in {"delete", "replace"} => x[2] \notin w.running \/ Ends(x[2], F)
        /\ x[1] = "clear" => \A j \in w.running : Ends(j, F)
        /\ x[1] = "create" => x \notin F /\ \A j \in w.listed : w.name[j] = x[2] => Removes(j, F)
        /\ x[1] = "scan" => /\ \A j \in w.listed : w.name[j] \notin x[2]
                            /\ \A y \in F : y[1] # "scan" /\ (y[1] = "create" => y[2] \notin x[2])
        /\ (\E y \in F : y[1] \in LastOps) => x[1] \in CalmOps
    BY DEF Ready
  <1>2. \A j : Ends(j, F) => j \notin v.running \/ Ends(j, E)
    BY DEF Ends
  <1>3. \A j \in v.listed : Removes(j, F) => Removes(j, E)
    BY DEF Removes
  <1>4. x[1] = "close" => x[2] \notin v.threads \/ <<"join", x[2]>> \in E \/ <<"uninstall", x[2]>> \in E
    BY <1>1 DEF Shrinks
  <1>5. E \subseteq F
    OBVIOUS
  <1> HIDE DEF F
  <1>6. /\ x[1] \in {"delete", "replace"} => x[2] \notin v.running \/ Ends(x[2], E)
        /\ x[1] = "clear" => \A j \in v.running : Ends(j, E)
    BY <1>1, <1>2 DEF Shrinks
  <1>7. x[1] = "create" => x \notin E /\ \A j \in v.listed : v.name[j] = x[2] => Removes(j, E)
    BY <1>1, <1>3, <1>5 DEF Shrinks
  <1>8. x[1] = "scan" => /\ \A j \in v.listed : v.name[j] \notin x[2]
                         /\ \A y \in E : y[1] # "scan" /\ (y[1] = "create" => y[2] \notin x[2])
    BY <1>1, <1>5 DEF Shrinks
  <1>9. (\E y \in E : y[1] \in LastOps) => x[1] \in CalmOps
    BY <1>1, <1>5
  <1> QED
    BY <1>4, <1>6, <1>7, <1>8, <1>9 DEF Ready

\* A new mod has a name that no mod in the list has.
LEMMA AfterCreate ==
  ASSUME NEW w, NEW v, NEW x, NEW n, NEW new, NEW E,
         v.listed = w.listed \cup {new}, v.name[new] = n, \A i \in w.listed : v.name[i] = w.name[i],
         v.running = w.running, v.threads = w.threads,
         Ready(w, x, {<<"create", n>>} \cup E), x = <<x[1], x[2]>>
  PROVE  Ready(v, x, E)
  <1>1. Ready(w, x, E)
    BY Forgotten DEF Enabling
  <1>2. /\ x[1] = "create" => x # <<"create", n>>
        /\ x[1] = "scan" => n \notin x[2]
    <2> DEFINE h == <<"create", n>>
    <2>1. h \in {<<"create", n>>} \cup E /\ h[1] = "create" /\ h[2] = n
      OBVIOUS
    <2>2. x[1] = "create" => x # h
      BY <2>1 DEF Ready
    <2>3. x[1] = "scan" => n \notin x[2]
      <3> HIDE DEF h
      <3> QED
        BY <2>1 DEF Ready
    <2> QED
      BY <2>2, <2>3
  <1>3. x[1] = "create" => x \notin E /\ \A i \in v.listed : v.name[i] = x[2] => Removes(i, E)
    BY <1>1, <1>2 DEF Ready
  <1>4. x[1] = "scan" => \A i \in v.listed : v.name[i] \notin x[2]
    BY <1>1, <1>2 DEF Ready
  <1> QED
    BY <1>1, <1>3, <1>4 DEF Ready

\* Behind a step of LastOps everything is calm, and a scan depends on the names only.
KnownNames(w, v) == \A i \in v.listed : \E j \in w.listed : v.name[i] = w.name[j]
MoreCallbacks(F, G) == \A y \in G : y \in F \/ y[1] \in {"append", "leave"}

LEMMA AfterLast ==
  ASSUME NEW w, NEW v, NEW x, NEW F, NEW G, \E y \in F : y[1] \in LastOps, Ready(w, x, F),
         x[1] = "scan" => KnownNames(w, v) /\ MoreCallbacks(F, G)
  PROVE  Ready(v, x, G)
  <1>1. x[1] \in CalmOps
    BY DEF Ready
  <1>2. CASE x[1] \in HarmlessOps
    BY <1>2, HarmlessReady
  <1>3. CASE x[1] = "scan"
    <2>1. /\ \A j \in w.listed : w.name[j] \notin x[2]
          /\ \A y \in F : y[1] # "scan" /\ (y[1] = "create" => y[2] \notin x[2])
      BY <1>3 DEF Ready
    <2>2. \A i \in v.listed : v.name[i] \notin x[2]
      BY <1>3, <2>1 DEF KnownNames
    <2>3. \A y \in G : y[1] # "scan" /\ (y[1] = "create" => y[2] \notin x[2])
      BY <1>3, <2>1 DEF MoreCallbacks
    <2> QED
      BY <1>1, <1>3, <2>2, <2>3 DEF Ready
  <1> QED
    BY <1>1, <1>2, <1>3 DEF CalmOps

\* A scan that has found the mod n: n is made and started, and the scan goes on.
LEMMA AfterScan ==
  ASSUME NEW w, NEW x, NEW T, NEW n \in T, NEW E, Ready(w, x, {<<"scan", T>>} \cup E)
  PROVE  Ready(w, x, {<<"create", n>>, <<"launch", n>>, <<"scan", T \ {n}>>} \cup E)
  <1>1. x[1] \in CalmOps /\ x[1] # "scan"
    <2> DEFINE h == <<"scan", T>>
    <2>1. h \in {<<"scan", T>>} \cup E /\ h[1] = "scan" /\ h[1] \in LastOps
      BY DEF LastOps
    <2> HIDE DEF h
    <2> QED
      BY <2>1 DEF Ready
  <1> QED
    BY <1>1, HarmlessReady DEF CalmOps

\* The steps s take the place of h, in a world that has become v.
LEMMA ReplacedFollows ==
  ASSUME NEW w, NEW v, NEW S, NEW q \in Seq(S), q # <<>>, NEW s \in Seq(S), Follows(w, q, {}), Follows(v, s, {}),
         \A x \in S : \A E : Ready(w, x, {q[1]} \cup E) => Ready(v, x, ToSet(s) \cup E)
  PROVE  Follows(v, s \o Rest(q), {})
  <1>1. /\ Rest(q) \in Seq(S) /\ 1 \in DOMAIN q
        /\ \A k \in DOMAIN Rest(q) : Rest(q)[k] = q[k + 1] /\ k + 1 \in DOMAIN q /\ k \in Nat \ {0}
        /\ \A k \in DOMAIN Rest(q) : Rest(q)[k] \in S
        /\ Len(Rest(q)) \in Nat /\ DOMAIN Rest(q) = 1 .. Len(Rest(q))
    BY RestElements
  <1>2. ASSUME NEW k \in DOMAIN Rest(q) PROVE Earlier(q, k + 1) = {q[1]} \cup Earlier(Rest(q), k)
    <2>1. \A j \in 1 .. k - 1 : j \in DOMAIN Rest(q)
      BY <1>1
    <2>2. ASSUME NEW j \in 1 .. (k + 1) - 1 PROVE q[j] \in {q[1]} \cup Earlier(Rest(q), k)
      <3>1. CASE j = 1
        BY <3>1
      <3>2. CASE j # 1
        <4>1. j - 1 \in 1 .. k - 1
          BY <1>1, <3>2
        <4>2. Rest(q)[j - 1] = q[j]
          <5>1. Rest(q)[j - 1] = q[(j - 1) + 1]
            BY <1>1, <2>1, <4>1
          <5>2. k \in Nat /\ (j - 1) + 1 = j
            BY <1>1
          <5> QED
            BY <5>1, <5>2
        <4> QED
          BY <4>1, <4>2 DEF Earlier
      <3> QED
        BY <3>1, <3>2
    <2>3. ASSUME NEW j \in 1 .. k - 1 PROVE \E l \in 1 .. (k + 1) - 1 : Rest(q)[j] = q[l]
      <3>1. k \in Nat /\ j \in Nat /\ j <= k - 1 /\ j >= 1
        BY <1>1
      <3>2. j + 1 \in 1 .. (k + 1) - 1
        BY <3>1
      <3>3. Rest(q)[j] = q[j + 1]
        BY <1>1, <2>1
      <3> QED
        BY <3>2, <3>3
    <2>4. \E l \in 1 .. (k + 1) - 1 : q[1] = q[l]
      BY <1>1
    <2> QED
      BY <2>2, <2>3, <2>4 DEF Earlier
  <1>3. Follows(v, Rest(q), ToSet(s))
    <2> SUFFICES ASSUME NEW k \in DOMAIN Rest(q) PROVE Ready(v, Rest(q)[k], ToSet(s) \cup Earlier(Rest(q), k))
      BY DEF Follows
    <2>1. Ready(w, q[k + 1], {} \cup Earlier(q, k + 1))
      BY <1>1 DEF Follows
    <2>2. {} \cup Earlier(q, k + 1) = {q[1]} \cup Earlier(Rest(q), k)
      BY <1>2
    <2>3. Ready(w, Rest(q)[k], {q[1]} \cup Earlier(Rest(q), k))
      BY <1>1, <2>1, <2>2
    <2> QED
      BY <1>1, <2>3
  <1>4. {} \cup ToSet(s) = ToSet(s)
    OBVIOUS
  <1> QED
    BY <1>1, <1>3, <1>4, ChainFollows

\* What is next is ready.
LEMMA HeadReady ==
  ASSUME NEW w, NEW S, NEW q \in Seq(S), q # <<>>, Follows(w, q, {})
  PROVE  Ready(w, q[1], {})
  <1>1. 1 \in DOMAIN q
    OBVIOUS
  <1>2. {} \cup Earlier(q, 1) = {}
    BY DEF Earlier
  <1> QED
    BY <1>1, <1>2 DEF Follows

-----------------------------------------------------------------------------
(* What requests and notices put on an agenda is in order.                  *)

\* No two mods in m_mods have the same name.
OneEach == \A k, l \in DOMAIN m_mods : name[m_mods[k]] = name[m_mods[l]] => k = l

\* A world with the mods of now.
OfNow(w) == w.listed = ToSet(m_mods) /\ w.name = name /\ w.running \subseteq ToSet(m_mods)

LEMMA ToSetConcat ==
  ASSUME NEW S, NEW a \in Seq(S), NEW b \in Seq(S)
  PROVE  ToSet(a \o b) = ToSet(a) \cup ToSet(b)
  <1>1. /\ Len(a) \in Nat /\ Len(b) \in Nat
        /\ DOMAIN a = 1 .. Len(a) /\ DOMAIN b = 1 .. Len(b) /\ DOMAIN (a \o b) = 1 .. Len(a) + Len(b)
        /\ \A k \in DOMAIN a : (a \o b)[k] = a[k]
        /\ \A k \in DOMAIN (a \o b) : k > Len(a) => k - Len(a) \in DOMAIN b /\ (a \o b)[k] = b[k - Len(a)]
        /\ \A k \in DOMAIN b : Len(a) + k \in DOMAIN (a \o b) /\ (a \o b)[Len(a) + k] = b[k]
    BY ConcatElements
  <1> DEFINE c == a \o b
  <1> HIDE DEF c
  <1>2. ASSUME NEW k \in DOMAIN c PROVE c[k] \in ToSet(a) \cup ToSet(b)
    <2>1. CASE k <= Len(a)
      <3>1. k \in DOMAIN a
        BY <1>1, <1>2, <2>1 DEF c
      <3> QED
        BY <1>1, <3>1 DEF c, ToSet
    <2>2. CASE k > Len(a)
      <3>1. k - Len(a) \in DOMAIN b /\ c[k] = b[k - Len(a)]
        BY <1>1, <1>2, <2>2 DEF c
      <3> QED
        BY <3>1 DEF ToSet
    <2> QED
      BY <1>1, <1>2, <2>1, <2>2 DEF c
  <1>3. ASSUME NEW k \in DOMAIN a PROVE \E j \in DOMAIN c : a[k] = c[j]
    <2>1. k \in DOMAIN c
      BY <1>1 DEF c
    <2> QED
      BY <1>1, <2>1 DEF c
  <1>4. ASSUME NEW k \in DOMAIN b PROVE \E j \in DOMAIN c : b[k] = c[j]
    BY <1>1 DEF c
  <1>5. ToSet(c) = ToSet(a) \cup ToSet(b)
    BY <1>2, <1>3, <1>4 DEF ToSet
  <1> QED
    BY <1>5 DEF c

\* A sequence of uninstalls, and a sequence of harmless steps.
LEMMA UninstallReady ==
  ASSUME NEW w, NEW x, NEW done, x[1] \in {"uninstall", "append", "pause"}, \A y \in done : y[1] \notin LastOps
  PROVE  Ready(w, x, done)
  BY DEF Ready

LEMMA HarmlessFollow ==
  ASSUME NEW w, NEW q, NEW done, \A k \in DOMAIN q : q[k][1] \in HarmlessOps
  PROVE  Follows(w, q, done)
  BY HarmlessReady DEF Follows

\* A mod is ended and then removed; a mod is made and then started.
LEMMA TeardownFollows ==
  ASSUME NEW w, NEW i
  PROVE  Follows(w, Teardown(i), {}) /\ ToSet(Teardown(i)) = {<<"uninstall", i>>, <<"delete", i>>}
  <1> DEFINE x == <<"uninstall", i>>
             y == <<"delete", i>>
  <1>1. Ready(w, x, {})
    BY UninstallReady
  <1>2. Ready(w, y, {} \cup {x})
    BY DEF Ready, Ends, LastOps
  <1>3. Teardown(i) = <<x, y>>
    BY DEF Teardown
  <1> HIDE DEF x, y
  <1>4. Follows(w, <<x, y>>, {}) /\ ToSet(<<x, y>>) = {x, y}
    BY <1>1, <1>2, TwoFollow
  <1> QED
    BY <1>3, <1>4 DEF x, y

LEMMA BirthFollows ==
  ASSUME NEW w, NEW n, NEW done, Ready(w, <<"create", n>>, done)
  PROVE  Follows(w, Birth(n), done) /\ ToSet(Birth(n)) = {<<"create", n>>, <<"launch", n>>}
  <1> DEFINE x == <<"create", n>>
             y == <<"launch", n>>
  <1>1. Ready(w, y, done \cup {x})
    BY HarmlessReady DEF HarmlessOps
  <1>2. Birth(n) = <<x, y>>
    BY DEF Birth
  <1>3. Ready(w, x, done)
    OBVIOUS
  <1> HIDE DEF x, y
  <1>4. Follows(w, <<x, y>>, done) /\ ToSet(<<x, y>>) = {x, y}
    BY <1>1, <1>3, TwoFollow
  <1> QED
    BY <1>2, <1>4 DEF x, y

LEMMA RestartAllFollows ==
  ASSUME Mods, NEW w, OfNow(w)
  PROVE  Follows(w, RestartAll, {})
  <1> DEFINE u == [k \in DOMAIN m_mods |-> <<"uninstall", m_mods[k]>>]
             z == <<<<"clear", 0>>>>
             c == [k \in DOMAIN ModNames |-> <<"create", ModNames[k]>>]
             l == [k \in DOMAIN ModNames |-> <<"launch", ModNames[k]>>]
             a == u \o z
             b == a \o c
  <1>1. DOMAIN m_mods = 1 .. Len(m_mods) /\ Len(m_mods) \in Nat
        /\ \A k \in 1 .. Len(m_mods) : m_mods[k] \in Born
    BY LenProperties, ElementOfSeq DEF Mods, Born
  <1>2. \A k \in DOMAIN ModNames : ModNames[k] \in Names
    BY ModNamesType, ElementOfSeq
  <1>3. u \in [1 .. Len(m_mods) -> LoopBuild]
    BY <1>1 DEF LoopBuild
  <1>4. c \in [1 .. Len(ModNames) -> LoopBuild] /\ l \in [1 .. Len(ModNames) -> LoopBuild]
    BY <1>2, ModNamesType DEF LoopBuild
  <1>5. z \in Seq(LoopBuild)
    BY DEF LoopBuild
  <1>6. RestartAll = b \o l
    BY DEF RestartAll
  <1>7. /\ \A k \in DOMAIN u : u[k] = <<"uninstall", m_mods[k]>>
        /\ DOMAIN u = DOMAIN m_mods
        /\ \A k \in DOMAIN c : c[k] = <<"create", ModNames[k]>>
        /\ DOMAIN c = DOMAIN ModNames
        /\ \A k \in DOMAIN l : l[k] = <<"launch", ModNames[k]>>
    OBVIOUS
  <1>8. Follows(w, z, ToSet(u)) <=> Ready(w, <<"clear", 0>>, ToSet(u))
    BY OneFollows
  <1>9. ToSet(z) = {<<"clear", 0>>}
    BY OneFollows
  <1> HIDE DEF u, z, c, l
  <1>10. u \in Seq(LoopBuild) /\ c \in Seq(LoopBuild) /\ l \in Seq(LoopBuild)
    BY <1>1, <1>3, <1>4, ModNamesType, FunIsSeq
  <1>11. a \in Seq(LoopBuild)
    BY <1>5, <1>10, ConcatProperties
  <1>12. ToSet(a) = ToSet(u) \cup ToSet(z)
    BY <1>5, <1>10, ToSetConcat
  <1>13. Follows(w, u, {})
    <2> SUFFICES ASSUME NEW k \in DOMAIN u PROVE Ready(w, u[k], {} \cup Earlier(u, k))
      BY DEF Follows
    <2>1. \A j \in 1 .. k - 1 : j \in DOMAIN u
      BY <1>1, <1>7
    <2>2. \A y \in {} \cup Earlier(u, k) : y[1] = "uninstall"
      BY <1>7, <2>1 DEF Earlier
    <2>3. \A y \in {} \cup Earlier(u, k) : y[1] \notin LastOps
      BY <2>2 DEF LastOps
    <2> QED
      BY <1>7, <2>3, UninstallReady
  <1>14. \A y \in ToSet(u) : y[1] = "uninstall"
    BY <1>7 DEF ToSet
  <1>15. \A i \in w.running : <<"uninstall", i>> \in ToSet(u)
    BY <1>7 DEF ToSet, OfNow
  <1>16. Ready(w, <<"clear", 0>>, ToSet(u))
    BY <1>14, <1>15 DEF Ready, Ends, LastOps
  <1>17. {} \cup ToSet(u) = ToSet(u)
    OBVIOUS
  <1>18. Follows(w, a, {})
    BY <1>5, <1>8, <1>10, <1>13, <1>16, <1>17, ChainFollows
  <1>19. <<"clear", 0>> \in ToSet(a) /\ \A y \in ToSet(a) : y[1] \in {"uninstall", "clear"}
    BY <1>9, <1>12, <1>14
  <1> HIDE DEF a
  <1>20. Follows(w, c, ToSet(a))
    <2> SUFFICES ASSUME NEW k \in DOMAIN c PROVE Ready(w, c[k], ToSet(a) \cup Earlier(c, k))
      BY DEF Follows
    <2> DEFINE done == ToSet(a) \cup Earlier(c, k)
    <2>1. \A j \in 1 .. k - 1 : j \in DOMAIN c /\ j # k
      BY <1>7, ModNamesType
    <2>2. \A j \in 1 .. k - 1 : c[j][1] = "create" /\ c[j][2] # ModNames[k]
      BY <1>7, <2>1, ModNamesType
    <2>3. \A y \in Earlier(c, k) : y[1] = "create" /\ y[2] # ModNames[k]
      BY <2>2 DEF Earlier
    <2>4. /\ <<"clear", 0>> \in done
          /\ \A y \in done : y[1] \in {"uninstall", "clear", "create"}
          /\ <<"create", ModNames[k]>> \notin done
      BY <1>19, <2>3
    <2> HIDE DEF done
    <2>5. Ready(w, <<"create", ModNames[k]>>, done)
      BY <2>4 DEF Ready, Removes, LastOps
    <2> QED
      BY <1>7, <2>5 DEF done
  <1>21. {} \cup ToSet(a) = ToSet(a)
    OBVIOUS
  <1>22. Follows(w, b, {})
    BY <1>10, <1>11, <1>18, <1>20, <1>21, ChainFollows
  <1>23. b \in Seq(LoopBuild)
    BY <1>10, <1>11, ConcatProperties
  <1> HIDE DEF b
  <1>24. Follows(w, l, {} \cup ToSet(b))
    BY <1>7, HarmlessFollow DEF HarmlessOps
  <1> QED
    BY <1>6, <1>10, <1>22, <1>23, <1>24, ChainFollows

\* What is done for a request (queue_reinstall_mod, queue_uninstall_mod,
\* queue_start_lua_mod_by_path, queue_reinstall_mods).
LEMMA HandlingFollows ==
  ASSUME Mods, OneEach, NEW w, OfNow(w), NEW r \in Asks,
         r.op = "start" => \A i \in w.running : stage[i] = "started"
  PROVE  Follows(w, Handling(r), {})
  <1>1. CASE Handling(r) = <<>>
    BY <1>1, NothingFollows
  <1>2. CASE Handling(r) = RestartAll
    BY <1>2, RestartAllFollows
  <1>3. CASE r.op = "start" /\ Matching(r) = {} /\ Handling(r) = Birth(r.name)
    <2>1. \A i \in w.listed : w.name[i] # r.name
      <3>1. r.id = 0
        BY <1>3 DEF Asks
      <3> QED
        BY <1>3, <3>1 DEF Matching, OfNow, ToSet
    <2>2. Ready(w, <<"create", r.name>>, {})
      BY <2>1 DEF Ready
    <2> QED
      BY <1>3, <2>2, BirthFollows
  \* A mod is removed before its successor is made.
  <1>4. ASSUME NEW n, NEW done, n = name[Match(r)], Matching(r) # {}, <<"delete", Match(r)>> \in done,
               \A y \in done : y[1] \in {"uninstall", "delete"}
        PROVE  Follows(w, Birth(n), done)
    <2>1. \A i \in w.listed : w.name[i] = n => i = Match(r)
      BY <1>4, MatchProperties DEF OfNow, ToSet, OneEach
    <2>2. Ready(w, <<"create", n>>, done)
      BY <1>4, <2>1 DEF Ready, Removes, LastOps
    <2> QED
      BY <2>2, BirthFollows
  <1>5. \A i, n : Teardown(i) \in Seq({<<"uninstall", i>>, <<"delete", i>>} \cup {<<"create", n>>, <<"launch", n>>})
                  /\ Birth(n) \in Seq({<<"uninstall", i>>, <<"delete", i>>} \cup {<<"create", n>>, <<"launch", n>>})
                  /\ <<<<"delete", i>>>> \in Seq({<<"uninstall", i>>, <<"delete", i>>} \cup {<<"create", n>>, <<"launch", n>>})
    BY DEF Teardown, Birth
  <1>6. CASE Matching(r) # {} /\ r.op = "restart" /\ Handling(r) = Teardown(Match(r)) \o Birth(name[Match(r)])
    <2> DEFINE i == Match(r)
               n == name[i]
               done == {} \cup ToSet(Teardown(i))
    <2>1. Follows(w, Teardown(i), {}) /\ done = {<<"uninstall", i>>, <<"delete", i>>}
      BY TeardownFollows
    <2>2. Follows(w, Birth(n), done)
      <3>1. <<"delete", i>> \in done /\ \A y \in done : y[1] \in {"uninstall", "delete"}
        BY <2>1
      <3> HIDE DEF done
      <3> QED
        BY <1>4, <1>6, <3>1
    <2> DEFINE S == {<<"uninstall", i>>, <<"delete", i>>} \cup {<<"create", n>>, <<"launch", n>>}
               a == Teardown(i)
               b == Birth(n)
    <2>4. a \in Seq(S) /\ b \in Seq(S)
      BY <1>5
    <2> HIDE DEF i, n, S, a, b
    <2>5. Follows(w, a, {}) /\ Follows(w, b, {} \cup ToSet(a))
      BY <2>1, <2>2 DEF a, b
    <2>3. Follows(w, a \o b, {})
      BY <2>4, <2>5, ChainFollows
    <2> QED
      BY <1>6, <2>3 DEF i, n, a, b
  <1>7. CASE Matching(r) # {} /\ r.op = "uninstall" /\ Handling(r) = Teardown(Match(r))
    BY <1>7, TeardownFollows
  <1>8. CASE Matching(r) # {} /\ r.op = "start" /\ ~HasStarted(Match(r))
             /\ Handling(r) = <<<<"delete", Match(r)>>>> \o Birth(r.name)
    <2> DEFINE i == Match(r)
               x == <<"delete", i>>
               d == <<x>>
               n == r.name
               done == {} \cup ToSet(d)
    <2>1. i \notin w.running
      BY <1>8 DEF HasStarted
    <2>2. Ready(w, x, {})
      BY <2>1 DEF Ready
    <2>3. (Follows(w, d, {}) <=> Ready(w, x, {})) /\ done = {x}
      BY OneFollows
    <2>4. n = name[Match(r)]
      BY <1>8, MatchProperties DEF Asks
    <2>5. Follows(w, Birth(n), done)
      <3>1. <<"delete", Match(r)>> \in done /\ \A y \in done : y[1] \in {"uninstall", "delete"}
        BY <2>3
      <3> HIDE DEF done, n
      <3> QED
        BY <1>4, <1>8, <2>4, <3>1
    <2>6. d \in Seq({<<"uninstall", i>>, <<"delete", i>>} \cup {<<"create", n>>, <<"launch", n>>})
          /\ Birth(n) \in Seq({<<"uninstall", i>>, <<"delete", i>>} \cup {<<"create", n>>, <<"launch", n>>})
      BY <1>5
    <2>7. Handling(r) = d \o Birth(n)
      BY <1>8
    <2> HIDE DEF d, i, n, x
    <2>8. Follows(w, d \o Birth(n), {})
      BY <2>2, <2>3, <2>5, <2>6, ChainFollows
    <2> QED
      BY <2>7, <2>8
  <1> QED
    BY <1>1, <1>2, <1>3, <1>6, <1>7, <1>8, HandlingCases

\* What the watcher does for a notice (queue_reinstall_mod of the watcher, and
\* the scan of the mods directory).
LEMMA ReloadFollows ==
  ASSUME NEW w, NEW i
  PROVE  Follows(w, Reload(i), {})
  <1> DEFINE q == Reload(i)
  <1>1. DOMAIN q = {1, 2, 3} /\ q[1] = <<"uninstall", i>> /\ q[2] = <<"replace", i>> /\ q[3] = <<"launch", name[i]>>
    BY DEF Reload
  <1> HIDE DEF q
  <1>2. {} \cup Earlier(q, 1) = {} /\ {} \cup Earlier(q, 2) = {q[1]}
    BY DEF Earlier
  <1>3. Ready(w, q[1], {})
    BY <1>1, UninstallReady
  <1>4. Ready(w, q[2], {q[1]})
    BY <1>1 DEF Ready, Ends, LastOps
  <1>5. \A done : Ready(w, q[3], done)
    BY <1>1, HarmlessReady DEF HarmlessOps
  <1>6. Follows(w, q, {})
    BY <1>1, <1>2, <1>3, <1>4, <1>5 DEF Follows
  <1> QED
    BY <1>6 DEF q

LEMMA DiscoverFollows ==
  ASSUME NEW w, w.listed = ToSet(m_mods), w.name = name
  PROVE  Follows(w, Discover, {})
  <1> DEFINE q == Discover
             T == {n \in Names : \A k \in DOMAIN m_mods : name[m_mods[k]] # n}
  <1>1. DOMAIN q = {1, 2, 3} /\ q[1] = <<"pause", 0>> /\ q[2] = <<"scan", T>> /\ q[3] = <<"resume", 0>>
    BY DEF Discover
  <1>0. \A i \in w.listed : w.name[i] \notin T
    BY DEF ToSet
  <1> HIDE DEF q, T
  <1>2. {} \cup Earlier(q, 1) = {} /\ {} \cup Earlier(q, 2) = {q[1]}
    BY DEF Earlier
  <1>3. Ready(w, q[1], {})
    BY <1>1, UninstallReady
  <1>4. Ready(w, q[2], {q[1]})
    BY <1>0, <1>1 DEF Ready, Ends, LastOps
  <1>5. \A done : Ready(w, q[3], done)
    BY <1>1, HarmlessReady DEF HarmlessOps
  <1>6. Follows(w, q, {})
    BY <1>1, <1>2, <1>3, <1>4, <1>5 DEF Follows
  <1> QED
    BY <1>6 DEF q

-----------------------------------------------------------------------------
(* The loop and the watcher keep their agendas in order.                    *)

\* A mod that runs is in m_mods.
RunningListed == \A i \in Instances : stage[i] = "started" => i \in ToSet(m_mods)

InOrder(t) == Follows(World, agenda[t], {})

LEMMA OrderStep ==
  ASSUME Agendas, NEW t \in Threads, ~Idle(t), InOrder(t), NEW s \in Seq(Repertoire(t)), Then(t, s),
         NEW w, w = World', Follows(w, s, {}),
         \A x \in Repertoire(t) : \A E : Ready(World, x, {agenda[t][1]} \cup E) => Ready(w, x, ToSet(s) \cup E)
  PROVE  InOrder(t)'
  <1>1. agenda[t] \in Seq(Repertoire(t)) /\ agenda[t] # <<>>
    BY DEF Agendas, Idle
  <1>2. Follows(World, agenda[t], {})
    BY DEF InOrder
  <1>3. Follows(w, s \o Rest(agenda[t]), {})
    BY <1>1, <1>2, ReplacedFollows
  <1>4. agenda'[t] = s \o Rest(agenda[t])
    BY ThenRest
  <1> QED
    BY <1>3, <1>4 DEF InOrder

\* The next step, and that it is ready.
LEMMA NextReady ==
  ASSUME Agendas, NEW t \in Threads, ~Idle(t), InOrder(t)
  PROVE  /\ agenda[t][1] = <<agenda[t][1][1], Subject(t)>>
         /\ agenda[t][1] \in Repertoire(t)
         /\ Ready(World, agenda[t][1], {})
  <1>1. agenda[t] \in Seq(Repertoire(t)) /\ agenda[t] # <<>>
    BY DEF Agendas, Idle
  <1> QED
    BY <1>1, NextStatement, HeadReady DEF InOrder

\* A step with nothing to do after it.
LEMMA OrderDone ==
  ASSUME Agendas, NEW t \in Threads, ~Idle(t), InOrder(t), Then(t, <<>>), NEW w, w = World',
         \A x \in Repertoire(t) : \A E : Ready(World, x, {agenda[t][1]} \cup E) => Ready(w, x, E)
  PROVE  InOrder(t)'
  <1> DEFINE s == <<>>
  <1>1. s \in Seq(Repertoire(t)) /\ ToSet(s) = {} /\ Follows(w, s, {}) /\ Then(t, s)
    BY EmptySeq, NothingFollows
  <1> HIDE DEF s
  <1>2. \A E : ToSet(s) \cup E = E
    BY <1>1
  <1> QED
    BY <1>1, <1>2, OrderStep

LEMMA SameWorld ==
  ASSUME UNCHANGED <<m_mods, name, stage, async>>
  PROVE  World' = World
  BY DEF World

\* A step that only gives way to the next one.
LEMMA OrderForgotten ==
  ASSUME Agendas, NEW t \in Threads, ~Idle(t), InOrder(t), Then(t, <<>>), agenda[t][1][1] \notin Enabling,
         UNCHANGED <<m_mods, name, stage, async>>
  PROVE  InOrder(t)'
  <1>1. PICK w : w = World'
    OBVIOUS
  <1>2. w = World
    BY <1>1, SameWorld
  <1>3. \A x, E : Ready(World, x, {agenda[t][1]} \cup E) => Ready(World, x, E)
    BY Forgotten
  <1> QED
    BY <1>1, <1>2, <1>3, OrderDone

\* A scan of the mods directory finds a mod.
LEMMA ScanInOrder ==
  ASSUME LoopInv, NEW t \in Threads, ScanMods(t), InOrder(t)
  PROVE  InOrder(t)'
  <1> USE DEF LoopInv
  <1>1. ~Idle(t) /\ NextIs(t, "scan") /\ UNCHANGED <<m_mods, name, stage, async>> /\ agenda[t][1][1] = "scan"
    BY DEF ScanMods, NextIs, Idle, modVars
  <1>2. CASE Then(t, <<>>)
    BY <1>1, <1>2, OrderForgotten DEF Enabling
  <1>3. ASSUME NEW n \in Subject(t), Then(t, Birth(n) \o <<<<"scan", Subject(t) \ {n}>>>>)
        PROVE  InOrder(t)'
    <2> DEFINE T == Subject(t)
               x == <<"create", n>>
               y == <<"launch", n>>
               z == <<"scan", T \ {n}>>
               s == <<x, y, z>>
    <2>0. T \in SUBSET Names /\ t = Watcher
      BY <1>1, Subjects DEF SubjectsOf
    <2>1. s = Birth(n) \o <<<<"scan", Subject(t) \ {n}>>>>
      BY DEF Birth
    <2>2. x \in Repertoire(t) /\ y \in Repertoire(t) /\ z \in Repertoire(t)
      BY <2>0, PlainTypes DEF Plain
    <2>3. Ready(World, <<"scan", T>>, {}) /\ agenda[t][1] = <<"scan", T>>
      BY <1>1, NextReady
    <2>4. \A i \in World.listed : World.name[i] \notin T
      BY <2>3 DEF Ready
    <2>5. Ready(World, x, {})
      BY <2>4 DEF Ready
    <2>6. Ready(World, y, {x})
      BY HarmlessReady DEF HarmlessOps
    <2>7. Ready(World, z, {x, y})
      BY <2>4 DEF Ready, CalmOps
    <2>8. \A v, E : Ready(World, v, {<<"scan", T>>} \cup E) => Ready(World, v, {x, y, z} \cup E)
      BY AfterScan
    <2>9. n \in Subject(t)
      OBVIOUS
    <2> HIDE DEF x, y, z, T
    <2>10. DOMAIN s = {1, 2, 3} /\ s[1] = x /\ s[2] = y /\ s[3] = z /\ ToSet(s) = {x, y, z} /\ s \in Seq(Repertoire(t))
      BY <2>2 DEF ToSet
    <2>11. Then(t, s)
      BY <1>3, <2>1
    <2> HIDE DEF s
    <2>12. {} \cup Earlier(s, 1) = {} /\ {} \cup Earlier(s, 2) = {x} /\ {} \cup Earlier(s, 3) = {x, y}
      <3>1. 1 .. 1 - 1 = {} /\ 1 .. 2 - 1 = {1} /\ 1 .. 3 - 1 = {1, 2}
        OBVIOUS
      <3> QED
        BY <2>10, <3>1 DEF Earlier
    <2>13. Follows(World, s, {})
      BY <2>5, <2>6, <2>7, <2>10, <2>12 DEF Follows
    <2>14. PICK w : w = World'
      OBVIOUS
    <2>15. w = World
      BY <1>1, <2>14, SameWorld
    <2> QED
      BY <1>1, <2>3, <2>8, <2>10, <2>11, <2>13, <2>14, <2>15, OrderStep
  <1> QED
    BY <1>2, <1>3 DEF ScanMods

\* LuaMod::uninstall: the async thread is asked to stop...
LEMMA StopInOrder ==
  ASSUME LoopInv, NEW t \in Threads, StopAsync(t), InOrder(t)
  PROVE  InOrder(t)'
  <1> USE DEF LoopInv
  <1> DEFINE i == Subject(t)
             x == <<"join", i>>
             y == <<"close", i>>
             h == <<"uninstall", i>>
  <1>1. ~Idle(t) /\ NextIs(t, "uninstall") /\ UNCHANGED <<m_mods, name, stage, async>> /\ agenda[t][1][1] = "uninstall"
    BY DEF StopAsync, NextIs, Idle
  <1>2. i \in Instances /\ i \in Born /\ t \in {Loop, Watcher}
    BY <1>1, Subjects, HeadBorn DEF SubjectsOf, Born
  <1>3. agenda[t][1] = h
    BY <1>1, NextReady
  <1>4. x \in Repertoire(t) /\ y \in Repertoire(t)
    BY <1>2, PlainTypes DEF Plain
  <1>5. PICK w : w = World'
    OBVIOUS
  <1>6. w = World
    BY <1>1, <1>5, SameWorld
  <1>7. CASE async[i] = "none" /\ Then(t, <<y>>)
    <2> DEFINE s == <<y>>
    <2>1. i \notin World.threads
      BY <1>7 DEF World
    <2>2. Ready(World, y, {})
      BY <2>1 DEF Ready
    <2>3. (Follows(World, s, {}) <=> Ready(World, y, {})) /\ ToSet(s) = {y}
      BY OneFollows
    <2>4. \A v, E : Ready(World, v, {h} \cup E) => Ready(World, v, {y} \cup E)
      <3> SUFFICES ASSUME NEW v, NEW E, Ready(World, v, {h} \cup E) PROVE Ready(World, v, {y} \cup E)
        OBVIOUS
      <3> DEFINE D == {y}
      <3>1. <<"close", i>> \in D /\ \A z \in D : z[1] \in {"join", "close"}
        OBVIOUS
      <3>2. i \notin World.threads \/ <<"join", i>> \in D
        BY <2>1
      <3>3. Ready(World, v, {<<"uninstall", i>>} \cup E)
        OBVIOUS
      <3> HIDE DEF D, i
      <3>4. Ready(World, v, D \cup E)
        BY <3>1, <3>2, <3>3, AfterUninstall
      <3> QED
        BY <3>4 DEF D
    <2> HIDE DEF x, y, h
    <2>5. s \in Seq(Repertoire(t)) /\ Then(t, s)
      BY <1>4, <1>7
    <2> HIDE DEF s
    <2> QED
      BY <1>1, <1>3, <1>5, <1>6, <2>2, <2>3, <2>4, <2>5, OrderStep
  <1>8. CASE Then(t, <<x, y>>)
    <2> DEFINE s == <<x, y>>
    <2>1. Ready(World, x, {})
      BY DEF Ready
    <2>2. Ready(World, y, {} \cup {x})
      BY DEF Ready, LastOps
    <2>4. \A v, E : Ready(World, v, {h} \cup E) => Ready(World, v, {x, y} \cup E)
      <3> SUFFICES ASSUME NEW v, NEW E, Ready(World, v, {h} \cup E) PROVE Ready(World, v, {x, y} \cup E)
        OBVIOUS
      <3> DEFINE D == {x, y}
      <3>1. <<"close", i>> \in D /\ \A z \in D : z[1] \in {"join", "close"}
        OBVIOUS
      <3>2. i \notin World.threads \/ <<"join", i>> \in D
        OBVIOUS
      <3>3. Ready(World, v, {<<"uninstall", i>>} \cup E)
        OBVIOUS
      <3> HIDE DEF D, i
      <3>4. Ready(World, v, D \cup E)
        BY <3>1, <3>2, <3>3, AfterUninstall
      <3> QED
        BY <3>4 DEF D
    <2> HIDE DEF x, y, h
    <2>3. Follows(World, s, {}) /\ ToSet(s) = {x, y}
      BY <2>1, <2>2, TwoFollow
    <2>5. s \in Seq(Repertoire(t)) /\ Then(t, s)
      BY <1>4, <1>8
    <2> HIDE DEF s
    <2> QED
      BY <1>1, <1>3, <1>5, <1>6, <2>3, <2>4, <2>5, OrderStep
  <1> QED
    BY <1>7, <1>8 DEF StopAsync

\* ... joined, its state is closed, and the mod is removed, or all mods are.
LEMMA EnablingInOrder ==
  ASSUME Agendas, NEW t \in Threads, ~Idle(t), InOrder(t), Then(t, <<>>), NEW w, w = World',
         Shrinks(World, w), agenda[t][1][1] # "uninstall",
         \A i : /\ agenda[t][1] = <<"join", i>> => i \notin w.threads
                /\ agenda[t][1] = <<"close", i>> => i \notin w.running
                /\ agenda[t][1] = <<"delete", i>> => i \notin w.listed,
         agenda[t][1][1] = "clear" => w.listed = {}
  PROVE  InOrder(t)'
  <1>1. \A x, E : Ready(World, x, {agenda[t][1]} \cup E) => Ready(w, x, E)
    BY AfterEnabling
  <1> QED
    BY <1>1, OrderDone

LEMMA JoinInOrder ==
  ASSUME LoopInv, NEW t \in Threads, JoinAsync(t), InOrder(t)
  PROVE  InOrder(t)'
  <1> USE DEF LoopInv
  <1>1. ~Idle(t) /\ UNCHANGED <<m_mods, name, stage>> /\ agenda[t][1][1] = "join" /\ Then(t, <<>>)
        /\ async' = [async EXCEPT ![Subject(t)] = "none"]
    BY DEF JoinAsync, NextIs, Idle
  <1>2. Subject(t) \in Instances /\ agenda[t][1] = <<"join", Subject(t)>>
    BY <1>1, NextReady, Subjects DEF SubjectsOf, NextIs, Idle
  <1>3. PICK w : w = World'
    OBVIOUS
  <1>4. Shrinks(World, w) /\ Subject(t) \notin w.threads
    BY <1>1, <1>2, <1>3 DEF World, Shrinks, Mods
  <1>5. \A i : agenda[t][1] = <<"join", i>> => i \notin w.threads
    BY <1>2, <1>4
  <1>6. \A i : agenda[t][1] # <<"close", i>> /\ agenda[t][1] # <<"delete", i>>
    BY <1>1
  <1> QED
    BY <1>1, <1>3, <1>4, <1>5, <1>6, EnablingInOrder

LEMMA CloseInOrder ==
  ASSUME LoopInv, NEW t \in Threads, CloseState(t), InOrder(t), RunningListed
  PROVE  InOrder(t)' /\ RunningListed'
  <1> USE DEF LoopInv
  <1>1. ~Idle(t) /\ UNCHANGED <<m_mods, name, async>> /\ agenda[t][1][1] = "close" /\ Then(t, <<>>)
        /\ stage' = [stage EXCEPT ![Subject(t)] = "closed"]
    BY DEF CloseState, NextIs, Idle
  <1>2. Subject(t) \in Instances /\ agenda[t][1] = <<"close", Subject(t)>>
    BY <1>1, NextReady, Subjects DEF SubjectsOf, NextIs, Idle
  <1>3. PICK w : w = World'
    OBVIOUS
  <1>4. Shrinks(World, w) /\ Subject(t) \notin w.running
    BY <1>1, <1>2, <1>3 DEF World, Shrinks, Mods
  <1>5. \A i : agenda[t][1] = <<"close", i>> => i \notin w.running
    BY <1>2, <1>4
  <1>6. \A i : agenda[t][1] # <<"join", i>> /\ agenda[t][1] # <<"delete", i>>
    BY <1>1
  <1>7. RunningListed'
    BY <1>1, <1>2 DEF RunningListed, Mods
  <1> QED
    BY <1>1, <1>3, <1>4, <1>5, <1>6, <1>7, EnablingInOrder

\* m_mods as a set, once a mod is removed, appended or replaced.
LEMMA RemovedSet ==
  ASSUME NEW S, NEW m \in Seq(S), NEW k \in DOMAIN m, \A j \in DOMAIN m : m[j] = m[k] => j = k
  PROVE  ToSet(RemoveAt(m, k)) = ToSet(m) \ {m[k]}
  <1>1. \A j \in DOMAIN RemoveAt(m, k) : \E l \in DOMAIN m : l # k /\ RemoveAt(m, k)[j] = m[l]
    BY Removed
  <1>2. \A l \in DOMAIN m : l # k => \E j \in DOMAIN RemoveAt(m, k) : RemoveAt(m, k)[j] = m[l]
    BY Removed
  <1> QED
    BY <1>1, <1>2 DEF ToSet

LEMMA AppendedSet ==
  ASSUME NEW S, NEW m \in Seq(S), NEW new \in S
  PROVE  ToSet(Append(m, new)) = ToSet(m) \cup {new}
  <1>1. /\ DOMAIN m = 1 .. Len(m) /\ Len(m) \in Nat
        /\ DOMAIN Append(m, new) = 1 .. Len(m) + 1
        /\ \A k \in 1 .. Len(m) : Append(m, new)[k] = m[k]
        /\ Append(m, new)[Len(m) + 1] = new
    BY AppendProperties, LenProperties
  <1>2. \A k \in 1 .. Len(m) + 1 : k \in 1 .. Len(m) \/ k = Len(m) + 1
    BY <1>1
  <1>3. \A k \in 1 .. Len(m) : k \in 1 .. Len(m) + 1
    BY <1>1
  <1>4. Len(m) + 1 \in 1 .. Len(m) + 1
    BY <1>1
  <1> QED
    BY <1>1, <1>2, <1>3, <1>4 DEF ToSet

LEMMA MemberType ==
  ASSUME Mods, NEW i \in ToSet(m_mods)
  PROVE  i \in Instances /\ stage[i] # "unborn"
  <1>1. PICK k \in DOMAIN m_mods : i = m_mods[k]
    BY DEF ToSet
  <1> QED
    BY <1>1, LenProperties, ElementOfSeq DEF Mods

\* delete_mod removes the mod, which does not run any more.
LEMMA DeleteInOrder ==
  ASSUME LoopInv, NEW t \in Threads, ChangeMods(t), Deletes(t), InOrder(t), OneEach, RunningListed
  PROVE  InOrder(t)' /\ OneEach' /\ RunningListed'
  <1> USE DEF LoopInv
  <1>1. ~Idle(t) /\ agenda[t][1][1] = "delete" /\ Then(t, <<>>) /\ UNCHANGED <<name, stage, async>>
    BY ChangeCases DEF Deletes, NextIs, Idle
  <1> DEFINE i == Subject(t)
  <1>2. agenda[t][1] = <<"delete", i>> /\ Ready(World, agenda[t][1], {})
    BY <1>1, NextReady
  <1>3. i \notin World.running
    BY <1>2 DEF Ready, Ends
  <1>4. m_mods \in Seq(Instances)
    BY DEF Mods
  <1>5. ToSet(m_mods') = ToSet(m_mods) \ {i}
    <2>1. ASSUME NEW k \in DOMAIN m_mods, m_mods[k] = i, m_mods' = RemoveAt(m_mods, k)
          PROVE  ToSet(m_mods') = ToSet(m_mods) \ {i}
      BY <1>4, <2>1, RemovedSet DEF OneEach
    <2> QED
      BY <2>1 DEF Deletes
  <1>6. OneEach'
    <2>1. ASSUME NEW k \in DOMAIN m_mods, m_mods' = RemoveAt(m_mods, k)
          PROVE  OneEach'
      <3>1. \A j \in DOMAIN m_mods' : \E l \in DOMAIN m_mods : l # k /\ m_mods'[j] = m_mods[l] /\ l = IF j < k THEN j ELSE j + 1
        BY <1>4, <2>1, Removed
      <3>2. m_mods' \in Seq(Instances) /\ \A j \in DOMAIN m_mods' : j \in Nat
        <4>1. m_mods' \in Seq(Instances)
          BY <1>4, <2>1, Removed
        <4>2. \A q \in Seq(Instances) : \A j \in DOMAIN q : j \in Nat
          BY LenProperties
        <4> QED
          BY <4>1, <4>2
      <3>3. k \in Nat
        BY <1>4, LenProperties
      <3> SUFFICES ASSUME NEW j1 \in DOMAIN m_mods', NEW j2 \in DOMAIN m_mods',
                          name[m_mods'[j1]] = name[m_mods'[j2]]
                   PROVE  j1 = j2
        BY <1>1 DEF OneEach
      <3>4. PICK l1 \in DOMAIN m_mods : l1 # k /\ m_mods'[j1] = m_mods[l1] /\ l1 = IF j1 < k THEN j1 ELSE j1 + 1
        BY <3>1
      <3>5. PICK l2 \in DOMAIN m_mods : l2 # k /\ m_mods'[j2] = m_mods[l2] /\ l2 = IF j2 < k THEN j2 ELSE j2 + 1
        BY <3>1
      <3>6. l1 = l2
        BY <3>4, <3>5 DEF OneEach
      <3> QED
        BY <3>2, <3>3, <3>4, <3>5, <3>6
    <2>2. CASE m_mods' = m_mods
      BY <1>1, <2>2 DEF OneEach
    <2> QED
      BY <2>1, <2>2 DEF Deletes
  <1>7. RunningListed'
    BY <1>1, <1>3, <1>5 DEF RunningListed, World
  <1>8. PICK w : w = World'
    OBVIOUS
  <1>9. w.listed = World.listed \ {i} /\ w.name = World.name /\ w.running = World.running /\ w.threads = World.threads
    BY <1>1, <1>5, <1>8 DEF World
  <1> HIDE DEF i
  <1>10. Shrinks(World, w) /\ \A j : agenda[t][1] = <<"delete", j>> => j \notin w.listed
    BY <1>2, <1>9 DEF Shrinks
  <1>11. \A j : agenda[t][1] # <<"join", j>> /\ agenda[t][1] # <<"close", j>>
    BY <1>1
  <1> QED
    BY <1>1, <1>6, <1>7, <1>8, <1>10, <1>11, EnablingInOrder

\* m_mods.clear, once all mods have been ended.
LEMMA ClearInOrder ==
  ASSUME LoopInv, NEW t \in Threads, ChangeMods(t), Clears(t), InOrder(t), RunningListed
  PROVE  InOrder(t)' /\ OneEach' /\ RunningListed'
  <1> USE DEF LoopInv
  <1>1. ~Idle(t) /\ agenda[t][1][1] = "clear" /\ Then(t, <<>>) /\ UNCHANGED <<name, stage, async>> /\ m_mods' = <<>>
    BY ChangeCases DEF Clears, NextIs, Idle
  <1>2. Ready(World, agenda[t][1], {})
    BY <1>1, NextReady
  <1>3. World.running = {}
    BY <1>1, <1>2 DEF Ready, Ends
  <1>4. DOMAIN m_mods' = {} /\ ToSet(m_mods') = {}
    BY <1>1 DEF ToSet
  <1>5. OneEach' /\ RunningListed'
    BY <1>1, <1>3, <1>4 DEF OneEach, RunningListed, World
  <1>6. PICK w : w = World'
    OBVIOUS
  <1>7. w.listed = {} /\ w.name = World.name /\ w.running = World.running /\ w.threads = World.threads
    BY <1>1, <1>4, <1>6 DEF World
  <1>8. Shrinks(World, w)
    BY <1>7 DEF Shrinks
  <1>9. \A j : agenda[t][1] # <<"join", j>> /\ agenda[t][1] # <<"close", j>> /\ agenda[t][1] # <<"delete", j>>
    BY <1>1
  <1> QED
    BY <1>1, <1>5, <1>6, <1>7, <1>8, <1>9, EnablingInOrder

LEMMA Pairs ==
  ASSUME NEW t \in Threads
  PROVE  \A x \in Repertoire(t) : x = <<x[1], x[2]>>
  <1>1. \A x \in AgendaSteps : x = <<x[1], x[2]>>
    BY DEF AgendaSteps, Appends, Building, Scanning
  <1> QED
    BY <1>1, RepertoireType

\* A new mod, whose name no mod in m_mods has.
LEMMA CreateInOrder ==
  ASSUME LoopInv, NEW t \in Threads, ChangeMods(t), NEW new \in Instances, Creates(t, new), InOrder(t),
         OneEach, RunningListed
  PROVE  InOrder(t)' /\ OneEach' /\ RunningListed'
  <1> USE DEF LoopInv
  <1> DEFINE n == Subject(t)
  <1>1. ~Idle(t) /\ agenda[t][1][1] = "create" /\ Then(t, <<>>) /\ async' = async /\ m_mods' = Append(m_mods, new)
    BY ChangeCases DEF Creates, NextIs, Idle
  <1>2. n \in Names
    BY Subjects DEF Creates, SubjectsOf
  <1>3. agenda[t][1] = <<"create", n>> /\ Ready(World, agenda[t][1], {})
    BY <1>1, NextReady
  <1>4. \A i \in World.listed : World.name[i] # n
    BY <1>3 DEF Ready, Removes
  <1>5. /\ stage[new] = "unborn" /\ stage'[new] = "created" /\ name'[new] = n
        /\ \A i \in Instances : i # new => stage'[i] = stage[i] /\ name'[i] = name[i]
    BY <1>2, ConstructKeeps DEF Creates
  <1>6. m_mods \in Seq(Instances) /\ ToSet(m_mods') = ToSet(m_mods) \cup {new}
    BY <1>1, AppendedSet DEF Mods
  <1>7. \A i \in ToSet(m_mods) : i \in Instances /\ i # new
    BY <1>5, MemberType
  <1>8. OneEach'
    <2>1. /\ DOMAIN m_mods = 1 .. Len(m_mods) /\ Len(m_mods) \in Nat
          /\ DOMAIN m_mods' = 1 .. Len(m_mods) + 1
          /\ \A k \in 1 .. Len(m_mods) : m_mods'[k] = m_mods[k]
          /\ m_mods'[Len(m_mods) + 1] = new
      BY <1>1, <1>6, AppendProperties, LenProperties
    <2>2. \A k \in 1 .. Len(m_mods) : m_mods[k] \in ToSet(m_mods)
      BY <2>1 DEF ToSet
    <2>3. \A k \in 1 .. Len(m_mods) : name'[m_mods'[k]] = name[m_mods[k]] /\ name[m_mods[k]] # n
      BY <1>4, <1>5, <1>7, <2>1, <2>2 DEF World
    <2>4. \A k \in DOMAIN m_mods' : k \in 1 .. Len(m_mods) \/ k = Len(m_mods) + 1
      BY <2>1
    <2>5. name'[m_mods'[Len(m_mods) + 1]] = n
      BY <1>5, <2>1
    <2> HIDE DEF n
    <2> SUFFICES ASSUME NEW k \in DOMAIN m_mods', NEW l \in DOMAIN m_mods', name'[m_mods'[k]] = name'[m_mods'[l]]
                 PROVE  k = l
      BY DEF OneEach
    <2>6. CASE k \in 1 .. Len(m_mods) /\ l \in 1 .. Len(m_mods)
      BY <2>1, <2>3, <2>6 DEF OneEach
    <2> QED
      BY <2>3, <2>4, <2>5, <2>6
  <1>9. RunningListed'
    BY <1>5, <1>6 DEF RunningListed
  <1>10. PICK w : w = World'
    OBVIOUS
  <1>11. w.listed = World.listed \cup {new} /\ w.name[new] = n /\ (\A i \in World.listed : w.name[i] = World.name[i])
        /\ w.running = World.running /\ w.threads = World.threads
    <2>1. w.running = World.running
      BY <1>5, <1>10 DEF World
    <2>2. w.threads = World.threads /\ w.listed = World.listed \cup {new}
      BY <1>1, <1>6, <1>10 DEF World
    <2>3. w.name[new] = n /\ (\A i \in World.listed : w.name[i] = World.name[i])
      BY <1>5, <1>7, <1>10 DEF World
    <2> QED
      BY <2>1, <2>2, <2>3
  <1>12. \A x \in Repertoire(t) : x = <<x[1], x[2]>>
    BY Pairs
  <1>13. \A x \in Repertoire(t) : \A E : Ready(World, x, {agenda[t][1]} \cup E) => Ready(w, x, E)
    <2> SUFFICES ASSUME NEW x \in Repertoire(t), NEW E, Ready(World, x, {agenda[t][1]} \cup E)
                 PROVE  Ready(w, x, E)
      OBVIOUS
    <2>1. Ready(World, x, {<<"create", n>>} \cup E) /\ x = <<x[1], x[2]>>
      BY <1>3, <1>12
    <2> HIDE DEF n
    <2> QED
      BY <1>11, <2>1, AfterCreate
  <1> QED
    BY <1>1, <1>8, <1>9, <1>10, <1>13, OrderDone

\* The watcher replaces an ended mod by a new one of its name.
LEMMA ReplaceInOrder ==
  ASSUME LoopInv, NEW t \in Threads, ChangeMods(t), NEW new \in Instances, Replaces(t, new), InOrder(t),
         OneEach, RunningListed
  PROVE  InOrder(t)' /\ OneEach' /\ RunningListed'
  <1> USE DEF LoopInv
  <1> DEFINE i == Subject(t)
  <1>1. ~Idle(t) /\ agenda[t][1][1] = "replace" /\ Then(t, <<>>) /\ async' = async /\ m_mods' = ReplaceAll(m_mods, i, new)
    BY ChangeCases DEF Replaces, NextIs, Idle
  <1>2. i \in Instances /\ name[i] \in Names
    BY Subjects, HeadBorn DEF Replaces, Born, Mods, SubjectsOf
  <1>3. agenda[t][1] = <<"replace", i>> /\ Ready(World, agenda[t][1], {})
    BY <1>1, NextReady
  <1>4. i \notin World.running
    BY <1>3 DEF Ready, Ends
  <1>5. /\ stage[new] = "unborn" /\ stage'[new] = "created" /\ name'[new] = name[i]
        /\ \A j \in Instances : j # new => stage'[j] = stage[j] /\ name'[j] = name[j]
    BY <1>2, ConstructKeeps DEF Replaces
  <1>6. /\ DOMAIN m_mods' = DOMAIN m_mods
        /\ \A k \in DOMAIN m_mods : m_mods'[k] = IF m_mods[k] = i THEN new ELSE m_mods[k]
    BY <1>1, Replaced DEF Mods
  <1>7. \A k \in DOMAIN m_mods : m_mods[k] \in Instances /\ m_mods[k] # new /\ m_mods[k] \in ToSet(m_mods)
    <2>1. \A k \in DOMAIN m_mods : m_mods[k] \in ToSet(m_mods)
      BY DEF ToSet
    <2> QED
      BY <1>5, <2>1, MemberType
  <1>8. \A k \in DOMAIN m_mods : name'[m_mods'[k]] = name[m_mods[k]]
    BY <1>5, <1>6, <1>7
  <1>9. OneEach'
    BY <1>6, <1>8 DEF OneEach
  <1>10. RunningListed'
    <2> SUFFICES ASSUME NEW j \in Instances, stage'[j] = "started" PROVE j \in ToSet(m_mods')
      BY DEF RunningListed
    <2>1. j # new /\ stage[j] = "started" /\ j # i
      BY <1>4, <1>5 DEF World
    <2>2. PICK k \in DOMAIN m_mods : m_mods[k] = j
      BY <2>1 DEF RunningListed, ToSet
    <2> QED
      BY <1>6, <2>1, <2>2 DEF ToSet
  <1>11. PICK w : w = World'
    OBVIOUS
  <1>12. KnownNames(World, w)
    <2> SUFFICES ASSUME NEW j \in ToSet(m_mods') PROVE \E l \in ToSet(m_mods) : name'[j] = name[l]
      BY <1>11 DEF World, KnownNames
    <2>1. PICK k \in DOMAIN m_mods : j = m_mods'[k]
      BY <1>6 DEF ToSet
    <2> QED
      BY <1>7, <1>8, <2>1
  <1>13. ASSUME NEW x, NEW E, Ready(World, x, {agenda[t][1]} \cup E)
         PROVE  Ready(w, x, E)
    <2> DEFINE F == {agenda[t][1]} \cup E
    <2>1. agenda[t][1] \in F /\ agenda[t][1][1] \in LastOps
      BY <1>1 DEF LastOps
    <2>2. MoreCallbacks(F, E)
      BY DEF MoreCallbacks
    <2>3. Ready(World, x, F)
      BY <1>13
    <2> HIDE DEF F
    <2> QED
      BY <1>12, <2>1, <2>2, <2>3, AfterLast
  <1> QED
    BY <1>1, <1>9, <1>10, <1>11, <1>13, OrderDone

\* Lua code runs: its request, if there is one, and its end come before the rest.
LEMMA LuaInOrder ==
  ASSUME LoopInv, NEW t \in {Loop, Watcher}, NEW i \in Instances, RunLua(t, i), ~Idle(t), InOrder(t),
         OneEach, agenda[t][1][1] \in {"launch", "enter"}, NEW w, w = World', OfNow(w)
  PROVE  InOrder(t)'
  <1> USE DEF LoopInv
  <1>0. t \in Threads /\ Loop # Watcher
    BY ThreadKinds
  <1>1. PICK s \in Seq(Plain(t)) : Then(t, s \o <<<<"leave", i>>>>) /\ Request(t, i, s)
    BY <1>0, LuaAsks
  <1> DEFINE x == <<"leave", i>>
             l == <<x>>
             q == s \o l
  <1>2. x \in Repertoire(t) /\ x[1] \in HarmlessOps
    BY <1>0, RepertoireType DEF Leaves, HarmlessOps
  <1>3. ToSet(l) = {x} /\ \A done : (Follows(w, l, done) <=> Ready(w, x, done))
    BY OneFollows
  <1>4. x[1] = "leave"
    OBVIOUS
  <1> HIDE DEF x
  <1>5. l \in Seq(Repertoire(t))
    BY <1>2
  <1>6. s \in Seq(Repertoire(t))
    <2>1. Plain(t) \subseteq Repertoire(t)
      BY DEF Plain
    <2> QED
      BY <2>1, SeqMonotonic
  <1> HIDE DEF l
  <1>7. q \in Seq(Repertoire(t)) /\ ToSet(q) = ToSet(s) \cup {x}
    BY <1>3, <1>5, <1>6, ConcatProperties, ToSetConcat
  <1>8. Follows(w, s, {}) /\ (t = Watcher => \A y \in ToSet(s) : y[1] = "append")
    <2>1. CASE s = <<>>
      BY <2>1, NothingFollows
    <2>2. ASSUME NEW r \in Asks, s = <<<<"append", r>>>>
          PROVE  Follows(w, s, {}) /\ \A y \in ToSet(s) : y[1] = "append"
      <3> DEFINE a == <<"append", r>>
      <3>1. Ready(w, a, {}) /\ a[1] = "append"
        BY UninstallReady
      <3> HIDE DEF a
      <3>2. (Follows(w, <<a>>, {}) <=> Ready(w, a, {})) /\ ToSet(<<a>>) = {a}
        BY OneFollows
      <3>3. s = <<a>>
        BY <2>2 DEF a
      <3> QED
        BY <3>1, <3>2, <3>3
    <2>3. ASSUME NEW r \in LuaRequests(i), s = Handling(r), t = Loop
          PROVE  Follows(w, s, {})
      <3>1. r \in Asks /\ r.op # "start"
        BY RequestTypes DEF LuaRequests, ById, ByName
      <3> QED
        BY <2>3, <3>1, HandlingFollows
    <2> QED
      BY <1>0, <1>1, <2>1, <2>2, <2>3 DEF Request
  <1>9. Follows(w, l, {} \cup ToSet(s))
    BY <1>2, <1>3, HarmlessReady
  <1>10. Follows(w, q, {})
    BY <1>5, <1>6, <1>8, <1>9, ChainFollows
  <1>11. \A v \in Repertoire(t) : v[1] = "scan" => t = Watcher
    BY RepertoireOf DEF LoopSteps
  <1> DEFINE D == ToSet(q)
  <1>12. t = Watcher => \A y \in D : y[1] \in {"append", "leave"}
    BY <1>4, <1>7, <1>8
  <1>13. Then(t, q)
    BY <1>1 DEF x, l
  <1> HIDE DEF q, D
  <1>14. ASSUME NEW v \in Repertoire(t), NEW E, Ready(World, v, {agenda[t][1]} \cup E)
         PROVE  Ready(w, v, D \cup E)
    <2> DEFINE F == {agenda[t][1]} \cup E
               G == D \cup E
    <2>1. agenda[t][1] \in F /\ agenda[t][1][1] \in LastOps
      BY DEF LastOps
    <2>2. KnownNames(World, w)
      BY DEF OfNow, World, KnownNames
    <2>3. v[1] = "scan" => MoreCallbacks(F, G)
      BY <1>11, <1>12 DEF MoreCallbacks
    <2>4. Ready(World, v, F)
      BY <1>14
    <2> HIDE DEF F, G
    <2>5. Ready(w, v, G)
      BY <2>1, <2>2, <2>3, <2>4, AfterLast
    <2> QED
      BY <2>5 DEF G
  <1> QED
    BY <1>0, <1>7, <1>10, <1>13, <1>14, OrderStep DEF D

\* start_mod: the mod that begins to run is in m_mods.
LEMMA StartInOrder ==
  ASSUME LoopInv, NEW t \in {Loop, Watcher}, StartMod(t), InOrder(t), OneEach, RunningListed
  PROVE  InOrder(t)' /\ OneEach' /\ RunningListed'
  <1> USE DEF LoopInv
  <1>0. t \in Threads
    BY ThreadKinds
  <1>1. ~Idle(t) /\ agenda[t][1][1] = "launch" /\ UNCHANGED <<m_mods, name>>
    BY StartCases DEF NextIs, Idle
  <1>2. OneEach'
    BY <1>1 DEF OneEach
  <1>3. CASE Then(t, <<>>) /\ UNCHANGED <<stage, async, lua, requests, inlined>>
    <2>1. RunningListed'
      BY <1>1, <1>3 DEF RunningListed
    <2>2. agenda[t][1][1] \notin Enabling
      BY <1>1 DEF Enabling
    <2> QED
      BY <1>0, <1>1, <1>2, <1>3, <2>1, <2>2, OrderForgotten
  <1>4. CASE /\ Waiting(Subject(t)) # {}
             /\ RunLua(t, First(Subject(t)))
             /\ stage' = [stage EXCEPT ![First(Subject(t))] = "started"]
             /\ async' = [async EXCEPT ![First(Subject(t))] = "running"]
    <2> DEFINE i == First(Subject(t))
    <2>1. i \in Instances /\ i \in ToSet(m_mods)
      BY <1>4, FirstProperties DEF ToSet
    <2>2. RunLua(t, i) /\ stage' = [stage EXCEPT ![i] = "started"]
      BY <1>4
    <2> HIDE DEF i
    <2>3. RunningListed'
      BY <1>1, <2>1, <2>2 DEF RunningListed, Mods
    <2>4. PICK w : w = World'
      OBVIOUS
    <2>5. OfNow(w)
      <3>1. w.listed = ToSet(m_mods) /\ w.name = name
        BY <1>1, <2>4 DEF World
      <3>2. w.running \subseteq ToSet(m_mods)
        BY <1>1, <2>3, <2>4 DEF World, RunningListed
      <3> QED
        BY <3>1, <3>2 DEF OfNow
    <2> QED
      BY <1>1, <1>2, <2>1, <2>2, <2>3, <2>4, <2>5, LuaInOrder
  <1> QED
    BY <1>3, <1>4, StartCases

LEMMA EnterInOrder ==
  ASSUME LoopInv, NEW t \in {Loop, Watcher}, EnterLua(t), InOrder(t), OneEach, RunningListed
  PROVE  InOrder(t)'
  <1> USE DEF LoopInv
  <1>0. t \in Threads
    BY ThreadKinds
  <1>1. ~Idle(t) /\ agenda[t][1][1] = "enter" /\ UNCHANGED <<m_mods, name, stage, async>> /\ RunLua(t, Subject(t))
    BY DEF EnterLua, NextIs, Idle, modVars
  <1>2. Subject(t) \in Instances
    BY <1>0, <1>1, Subjects DEF SubjectsOf, EnterLua
  <1>3. PICK w : w = World'
    OBVIOUS
  <1>4. w = World
    BY <1>1, <1>3, SameWorld
  <1>5. OfNow(w)
    BY <1>4 DEF OfNow, World, RunningListed
  <1> QED
    BY <1>1, <1>2, <1>3, <1>5, LuaInOrder

\* What the loop and the watcher do with the mods.
ModsInOrder(t) == InOrder(t) /\ OneEach /\ RunningListed

LEMMA StepInOrder ==
  ASSUME LoopInv, NEW t \in {Loop, Watcher}, Step(t), ModsInOrder(t)
  PROVE  ModsInOrder(t)'
  <1> USE DEF LoopInv
  <1>0. t \in Threads /\ ~Idle(t)
    BY ThreadKinds, StepIsLocal
  <1>1. InOrder(t) /\ OneEach /\ RunningListed
    BY DEF ModsInOrder
  \* The steps that leave the mods alone.
  <1>2. ASSUME UNCHANGED <<m_mods, name, stage>>
        PROVE  OneEach' /\ RunningListed'
    BY <1>1, <1>2 DEF OneEach, RunningListed
  <1>3. CASE LeaveLua(t) \/ AppendEvent(t) \/ SetPause(t)
    <2>1. Then(t, <<>>) /\ UNCHANGED <<m_mods, name, stage, async>>
          /\ agenda[t][1][1] \in {"leave", "append", "pause", "resume"}
      BY <1>3 DEF LeaveLua, AppendEvent, SetPause, NextIs, modVars
    <2>2. agenda[t][1][1] \notin Enabling
      BY <2>1 DEF Enabling
    <2> QED
      BY <1>0, <1>1, <1>2, <2>1, <2>2, OrderForgotten DEF ModsInOrder
  <1>4. CASE ScanMods(t)
    <2>1. UNCHANGED <<m_mods, name, stage>>
      BY <1>4 DEF ScanMods, modVars
    <2> QED
      BY <1>0, <1>1, <1>2, <1>4, <2>1, ScanInOrder DEF ModsInOrder
  <1>5. CASE StopAsync(t)
    <2>1. UNCHANGED <<m_mods, name, stage>>
      BY <1>5 DEF StopAsync
    <2> QED
      BY <1>0, <1>1, <1>2, <1>5, <2>1, StopInOrder DEF ModsInOrder
  <1>6. CASE JoinAsync(t)
    <2>1. UNCHANGED <<m_mods, name, stage>>
      BY <1>6 DEF JoinAsync
    <2> QED
      BY <1>0, <1>1, <1>2, <1>6, <2>1, JoinInOrder DEF ModsInOrder
  <1>7. CASE CloseState(t)
    <2>1. OneEach'
      BY <1>1, <1>7 DEF CloseState, OneEach
    <2> QED
      BY <1>0, <1>1, <1>7, <2>1, CloseInOrder DEF ModsInOrder
  <1>8. CASE ChangeMods(t)
    BY <1>0, <1>1, <1>8, ChangeCases, DeleteInOrder, ClearInOrder, CreateInOrder, ReplaceInOrder DEF ModsInOrder
  <1>9. CASE StartMod(t)
    BY <1>1, <1>9, StartInOrder DEF ModsInOrder
  <1>10. CASE EnterLua(t)
    <2>1. UNCHANGED <<m_mods, name, stage>>
      BY <1>10 DEF EnterLua, modVars
    <2> QED
      BY <1>1, <1>2, <1>10, <2>1, EnterInOrder DEF ModsInOrder
  <1> QED
    BY <1>3, <1>4, <1>5, <1>6, <1>7, <1>8, <1>9, <1>10 DEF Step

-----------------------------------------------------------------------------
(* The lives of mod instances.                                              *)

\* The watcher's section excludes the loop, so that one of the two is idle.
LEMMA OneIsIdle ==
  ASSUME TypesInv, SyncInv, ~overwritten
  PROVE  Idle(Loop) \/ Idle(Watcher)
  BY DEF TypesInv, Rests, SyncInv, Handshake

\* Neither the mods nor the agenda of t changes.
LEMMA StillInOrder ==
  ASSUME NEW t, ModsInOrder(t), agenda'[t] = agenda[t], World' = World, UNCHANGED <<m_mods, name, stage>>
  PROVE  ModsInOrder(t)'
  <1>1. OneEach' /\ RunningListed'
    BY DEF ModsInOrder, OneEach, RunningListed
  <1>2. PICK w : w = World'
    OBVIOUS
  <1>3. Follows(w, agenda'[t], {})
    BY <1>2 DEF ModsInOrder, InOrder
  <1> QED
    BY <1>1, <1>2, <1>3 DEF ModsInOrder, InOrder

\* t begins something, or has nothing to do.
LEMMA BeginsInOrder ==
  ASSUME NEW t, NEW q, OneEach, RunningListed, agenda'[t] = q, Follows(World, q, {}),
         UNCHANGED <<m_mods, name, stage, async>>
  PROVE  ModsInOrder(t)'
  <1>1. OneEach' /\ RunningListed'
    BY DEF OneEach, RunningListed
  <1>2. PICK w : w = World'
    OBVIOUS
  <1>3. Follows(w, agenda'[t], {})
    BY <1>2, SameWorld
  <1> QED
    BY <1>1, <1>2, <1>3 DEF ModsInOrder, InOrder

LEMMA IdleInOrder ==
  ASSUME NEW t, NEW u, agenda'[t] = <<>>, ModsInOrder(u)'
  PROVE  ModsInOrder(t)'
  <1>1. PICK w : w = World'
    OBVIOUS
  <1>2. Follows(w, agenda'[t], {})
    BY NothingFollows
  <1> QED
    BY <1>1, <1>2 DEF ModsInOrder, InOrder

\* The other threads run callbacks and queue requests.
LEMMA OtherSteps ==
  ASSUME LoopInv, NEW t \in Threads, t \notin {Loop, Watcher}, Step(t)
  PROVE  LeaveLua(t) \/ AppendEvent(t) \/ EnterLua(t)
  <1>1. SubjectsOf(t)
    BY Subjects DEF LoopInv
  <1> QED
    BY <1>1, StartCases, ChangeCases
          DEF SubjectsOf, Step, SetPause, ScanMods, StopAsync, JoinAsync, CloseState, Deletes, Clears, Creates, Replaces

LEMMA NowIsNow ==
  ASSUME RunningListed
  PROVE  OfNow(World) /\ \A i \in World.running : stage[i] = "started"
  BY DEF OfNow, World, RunningListed

\* What is on an agenda once an idle thread has begun s.
LEMMA ThenFromIdle ==
  ASSUME Agendas, NEW t \in Threads, Idle(t), NEW S, NEW s \in Seq(S), Then(t, s)
  PROVE  agenda'[t] = s /\ \A u \in Threads : u # t => agenda'[u] = agenda[u]
  <1>1. agenda'[t] = s \o <<>> /\ \A u \in Threads : u # t => agenda'[u] = agenda[u]
    BY ThenRest DEF Rest, Idle
  <1> QED
    BY <1>1, ConcatEmptySeq

LEMMA RequestRuns ==
  ASSUME LoopInv, RunEvent
  PROVE  \E r \in Asks : Then(Loop, Handling(r))
  <1> USE DEF LoopInv
  <1>1. executed + 1 \in 1 .. Len(m_queued_events)
    BY LenProperties DEF RunEvent, BatchOver, Queue
  <1>2. m_queued_events[executed + 1] \in Asks
    BY <1>1, ElementOfSeq DEF Queue
  <1> QED
    BY <1>2 DEF RunEvent

\* The hot-reload key and the key binds.
LEMMA InputCases ==
  ASSUME LoopInv, Rests, Input
  PROVE  \/ agenda'[Loop] = <<>>
         \/ agenda'[Loop] = RestartAll
         \/ \E i \in Instances : stage[i] = "started" /\ agenda'[Loop] = <<<<"enter", i>>>>
         \/ \E i \in Instances : inlined' /\ agenda'[Loop] = RestartAll \o <<<<"enter", i>>>>
  <1> USE DEF LoopInv
  <1>0. Idle(Loop) /\ Loop \in Threads
    BY ThreadKinds DEF Input, Rests
  <1>1. PICK reload \in BOOLEAN, binds \in {<<>>} \cup
             {<<<<"enter", i>>>> : i \in {j \in Instances : stage[j] = "started"}} :
          /\ Then(Loop, (IF reload THEN RestartAll ELSE <<>>) \o binds)
          /\ inlined' = (reload /\ binds # <<>>)
    BY DEF Input
  <1> DEFINE a == IF reload THEN RestartAll ELSE <<>>
             b == binds
             S == AgendaSteps
  <1>2. RestartAll \in Seq(S)
    <2>1. LoopBuild \subseteq S
      BY DEF LoopBuild, Born, AgendaSteps, Building
    <2> QED
      BY <2>1, RestartAllType, SeqMonotonic
  <1>3. a \in Seq(S)
    BY <1>2, EmptySeq
  <1>4. \A i \in Instances : <<<<"enter", i>>>> \in Seq(S)
    <2> SUFFICES ASSUME NEW i \in Instances PROVE <<<<"enter", i>>>> \in Seq(S)
      OBVIOUS
    <2>1. <<"enter", i>> \in S
      BY DEF AgendaSteps
    <2> HIDE DEF S
    <2> QED
      BY <2>1
  <1>5. b \in Seq(S)
    BY <1>1, <1>4, EmptySeq
  <1>6. agenda'[Loop] = a \o b
    <2>1. a \o b \in Seq(S) /\ Then(Loop, a \o b)
      BY <1>1, <1>3, <1>5, ConcatProperties
    <2> HIDE DEF a, b, S
    <2> QED
      BY <1>0, <2>1, ThenFromIdle
  <1>7. \/ b = <<>>
        \/ \E i \in Instances : stage[i] = "started" /\ b = <<<<"enter", i>>>>
    BY <1>1
  <1>8. CASE reload /\ b = <<>>
    <2>1. agenda'[Loop] = RestartAll \o <<>>
      BY <1>6, <1>8
    <2> HIDE DEF S
    <2> QED
      BY <1>2, <2>1, ConcatEmptySeq
  <1>9. CASE reload /\ b # <<>>
    <2>1. inlined'
      BY <1>1, <1>9, Zenon
    <2>2. agenda'[Loop] = RestartAll \o b
      BY <1>6, <1>9
    <2> QED
      BY <1>7, <1>9, <2>1, <2>2
  <1>10. CASE ~reload
    <2>1. agenda'[Loop] = <<>> \o b
      BY <1>6, <1>10
    <2>2. agenda'[Loop] = b
      <3> HIDE DEF b, S
      <3> QED
        BY <1>5, <2>1, ConcatEmptySeq
    <2> QED
      BY <1>7, <2>2
  <1> QED
    BY <1>8, <1>9, <1>10

LEMMA InputFollows ==
  ASSUME LoopInv, Rests, Input, RunningListed
  PROVE  Follows(World, agenda'[Loop], {})
  <1> USE DEF LoopInv
  <1>1. Follows(World, RestartAll, {})
    BY NowIsNow, RestartAllFollows
  <1>2. ASSUME NEW i \in Instances, NEW done
        PROVE  Follows(World, <<<<"enter", i>>>>, done)
    <2> DEFINE x == <<"enter", i>>
    <2>1. Ready(World, x, done)
      BY HarmlessReady DEF HarmlessOps
    <2> HIDE DEF x
    <2>2. Follows(World, <<x>>, done) <=> Ready(World, x, done)
      BY OneFollows
    <2> QED
      BY <2>1, <2>2 DEF x
  <1>3. ASSUME NEW i \in Instances
        PROVE  Follows(World, RestartAll \o <<<<"enter", i>>>>, {})
    <2> DEFINE b == <<<<"enter", i>>>>
               S == AgendaSteps
    <2>1. RestartAll \in Seq(S)
      <3>1. LoopBuild \subseteq S
        BY DEF LoopBuild, Born, AgendaSteps, Building
      <3> QED
        BY <3>1, RestartAllType, SeqMonotonic
    <2>2. b \in Seq(S)
      <3>1. <<"enter", i>> \in S
        BY DEF AgendaSteps
      <3> HIDE DEF S
      <3> QED
        BY <3>1
    <2>3. Follows(World, b, {} \cup ToSet(RestartAll))
      BY <1>2
    <2> HIDE DEF b, S
    <2>4. Follows(World, RestartAll \o b, {})
      BY <1>1, <2>1, <2>2, <2>3, ChainFollows
    <2> QED
      BY <2>4 DEF b
  <1> QED
    BY <1>1, <1>2, <1>3, InputCases, NothingFollows

LEMMA ModsNext ==
  ASSUME TypesInv, SyncInv, ~overwritten, ModsInOrder(Loop), ModsInOrder(Watcher), [Next]_vars
  PROVE  ModsInOrder(Loop)' /\ ModsInOrder(Watcher)'
  <1> USE DEF TypesInv, LoopInv
  <1>0. /\ Loop \in Threads /\ Watcher \in Threads /\ Game \in Threads /\ Gui \in Threads
        /\ \A i \in Instances : Async(i) \in Threads /\ Async(i) \notin {Loop, Watcher}
        /\ Loop # Watcher /\ Game \notin {Loop, Watcher} /\ Gui \notin {Loop, Watcher}
    BY ThreadKinds
  <1>1. OneEach /\ RunningListed
    BY DEF ModsInOrder
  \* Only other threads' agendas change.
  <1>2. ASSUME World' = World, UNCHANGED <<m_mods, name, stage>>,
               agenda'[Loop] = agenda[Loop], agenda'[Watcher] = agenda[Watcher]
        PROVE  ModsInOrder(Loop)' /\ ModsInOrder(Watcher)'
    BY <1>2, StillInOrder
  <1>3. ASSUME NEW t \in Threads, Step(t)
        PROVE  ModsInOrder(Loop)' /\ ModsInOrder(Watcher)'
    <2>1. ~Idle(t) /\ \A u \in Threads : u # t => agenda'[u] = agenda[u]
      BY <1>3, StepIsLocal
    <2>2. CASE t = Loop
      <3>1. ModsInOrder(Loop)'
        BY <1>3, <2>2, StepInOrder
      <3>2. agenda'[Watcher] = <<>>
        BY <1>0, <2>1, <2>2, OneIsIdle DEF Idle
      <3> QED
        BY <3>1, <3>2, IdleInOrder
    <2>3. CASE t = Watcher
      <3>1. ModsInOrder(Watcher)'
        BY <1>3, <2>3, StepInOrder
      <3>2. agenda'[Loop] = <<>>
        BY <1>0, <2>1, <2>3, OneIsIdle DEF Idle
      <3> QED
        BY <3>1, <3>2, IdleInOrder
    <2>4. CASE t \notin {Loop, Watcher}
      <3>1. UNCHANGED <<m_mods, name, stage, async>>
        BY <1>3, <2>4, OtherSteps DEF LeaveLua, AppendEvent, EnterLua, modVars
      <3> QED
        BY <1>0, <1>2, <2>1, <2>4, <3>1, SameWorld
    <2> QED
      BY <2>2, <2>3, <2>4
  <1>4. ASSUME UNCHANGED <<m_mods, name, stage, async, agenda>>
        PROVE  ModsInOrder(Loop)' /\ ModsInOrder(Watcher)'
    BY <1>2, <1>4, SameWorld
  <1>5. CASE StartLoop \/ Fetch \/ EndBatch \/ Answer \/ Awake \/ StoreIdle \/ Notice \/ FallAsleep \/ EndSection
             \/ UNCHANGED AllButTaken
    <2>1. UNCHANGED <<m_mods, name, stage, async, agenda>>
      BY <1>5 DEF StartLoop, Fetch, EndBatch, Answer, Awake, StoreIdle, Notice, FallAsleep, EndSection, AllButTaken,
          modVars
    <2> QED
      BY <1>4, <2>1
  <1>6. CASE RunEvent
    <2>1. PICK r \in Asks : Then(Loop, Handling(r))
      BY <1>6, RequestRuns
    <2>2. Idle(Loop) /\ UNCHANGED <<m_mods, name, stage, async>>
      BY <1>6 DEF RunEvent, modVars
    <2>3. agenda'[Loop] = Handling(r) /\ agenda'[Watcher] = agenda[Watcher]
      BY <1>0, <2>1, <2>2, HandlingType, ThenFromIdle
    <2>4. Follows(World, Handling(r), {})
      BY <1>1, NowIsNow, HandlingFollows
    <2>5. ModsInOrder(Loop)'
      BY <1>1, <2>2, <2>3, <2>4, BeginsInOrder
    <2>6. ModsInOrder(Watcher)'
      BY <2>2, <2>3, SameWorld, StillInOrder
    <2> QED
      BY <2>5, <2>6
  <1>7. CASE Input
    <2>1. UNCHANGED <<m_mods, name, stage, async>>
      BY <1>7 DEF Input, modVars
    <2>2. agenda'[Watcher] = agenda[Watcher]
      BY <1>0, <1>7, ThenRest DEF Input
    <2>3. ModsInOrder(Loop)'
      BY <1>1, <1>7, <2>1, InputFollows, BeginsInOrder
    <2>4. ModsInOrder(Watcher)'
      BY <2>1, <2>2, SameWorld, StillInOrder
    <2> QED
      BY <2>3, <2>4
  <1>8. CASE BeginSection
    <2>1. UNCHANGED <<m_mods, name, stage, async>> /\ Idle(Watcher)
      BY <1>8 DEF BeginSection, modVars, Rests
    <2>2. ASSUME NEW q, NEW S, q \in Seq(S), Then(Watcher, q), Follows(World, q, {})
          PROVE  ModsInOrder(Loop)' /\ ModsInOrder(Watcher)'
      <3>1. agenda'[Watcher] = q /\ agenda'[Loop] = agenda[Loop]
        BY <1>0, <2>1, <2>2, ThenFromIdle
      <3>2. ModsInOrder(Watcher)'
        BY <1>1, <2>1, <2>2, <3>1, BeginsInOrder
      <3>3. ModsInOrder(Loop)'
        BY <2>1, <3>1, SameWorld, StillInOrder
      <3> QED
        BY <3>2, <3>3
    <2>3. CASE UNCHANGED agenda
      BY <1>4, <2>1, <2>3
    <2>4. CASE Then(Watcher, Discover)
      <3>1. Discover \in Seq({Discover[1], Discover[2], Discover[3]})
        BY DEF Discover
      <3>2. Follows(World, Discover, {})
        BY DiscoverFollows DEF World
      <3> QED
        BY <2>2, <2>4, <3>1, <3>2
    <2>5. ASSUME NEW i \in ToSet(m_mods), Then(Watcher, Reload(i))
          PROVE  ModsInOrder(Loop)' /\ ModsInOrder(Watcher)'
      <3>1. Reload(i) \in Seq({Reload(i)[1], Reload(i)[2], Reload(i)[3]})
        BY DEF Reload
      <3> QED
        BY <2>2, <2>5, <3>1, ReloadFollows
    <2> QED
      BY <1>8, <2>3, <2>4, <2>5 DEF BeginSection
  <1>9. ASSUME NEW t \in {Gui, Game}, OutsideAsk(t) PROVE ModsInOrder(Loop)' /\ ModsInOrder(Watcher)'
    <2>1. PICK r : Then(t, Asked(t, r))
      BY <1>9 DEF OutsideAsk
    <2>2. agenda'[Loop] = agenda[Loop] /\ agenda'[Watcher] = agenda[Watcher]
      BY <1>0, <2>1, ThenRest
    <2>3. UNCHANGED <<m_mods, name, stage, async>>
      BY <1>9 DEF OutsideAsk, modVars
    <2> QED
      BY <1>2, <2>2, <2>3, SameWorld
  <1>10. ASSUME NEW i \in Instances, CheckStop(i)
         PROVE  ModsInOrder(Loop)' /\ ModsInOrder(Watcher)'
    <2>1. agenda'[Loop] = agenda[Loop] /\ agenda'[Watcher] = agenda[Watcher]
      BY <1>0, <1>10, ThenRest DEF CheckStop
    <2>2. UNCHANGED <<m_mods, name, stage>> /\ async[i] = "running"
          /\ (async' = async \/ async' = [async EXCEPT ![i] = "exited"])
      BY <1>10 DEF CheckStop
    <2>3. {j \in Instances : async'[j] # "none"} = {j \in Instances : async[j] # "none"}
      BY <2>2 DEF Mods
    <2>4. World' = World
      BY <2>2, <2>3 DEF World
    <2> QED
      BY <1>2, <2>1, <2>2, <2>4
  <1>11. ASSUME NEW i \in Instances, GameCallback(i)
         PROVE  ModsInOrder(Loop)' /\ ModsInOrder(Watcher)'
    <2>1. agenda'[Loop] = agenda[Loop] /\ agenda'[Watcher] = agenda[Watcher]
      BY <1>0, <1>11, LuaAsks, ThenRest DEF GameCallback
    <2>2. UNCHANGED <<m_mods, name, stage, async>>
      BY <1>11 DEF GameCallback, modVars
    <2> QED
      BY <1>2, <2>1, <2>2, SameWorld
  <1> QED
    BY <1>3, <1>5, <1>6, <1>7, <1>8, <1>9, <1>10, <1>11, NextKinds DEF LoopStep, WatcherStep

\* A key bind is called by a loop that has nothing else to do, and its mod runs.
Entering ==
    ~inlined => \A k \in DOMAIN agenda[Loop] :
        agenda[Loop][k][1] = "enter" => k = 1 /\ stage[agenda[Loop][k][2]] = "started"

EntersNone(q) == \A k \in DOMAIN q : q[k][1] # "enter"

LEMMA EntersConcat ==
  ASSUME NEW S, NEW a \in Seq(S), NEW b \in Seq(S), EntersNone(a), EntersNone(b)
  PROVE  EntersNone(a \o b)
  <1> DEFINE c == a \o b
  <1>1. /\ Len(a) \in Nat /\ Len(b) \in Nat
        /\ DOMAIN a = 1 .. Len(a) /\ DOMAIN c = 1 .. Len(a) + Len(b)
        /\ \A k \in DOMAIN a : c[k] = a[k]
        /\ \A k \in DOMAIN c : k > Len(a) => k - Len(a) \in DOMAIN b /\ c[k] = b[k - Len(a)]
    BY ConcatElements
  <1> HIDE DEF c
  <1>2. ASSUME NEW k \in DOMAIN c PROVE c[k][1] # "enter"
    <2>1. CASE k \in DOMAIN a
      BY <1>1, <2>1 DEF EntersNone
    <2>2. CASE k > Len(a)
      <3>1. k - Len(a) \in DOMAIN b /\ c[k] = b[k - Len(a)]
        BY <1>1, <2>2
      <3> QED
        BY <3>1 DEF EntersNone
    <2>3. k \in DOMAIN a \/ k > Len(a)
      BY <1>1
    <2> QED
      BY <2>1, <2>2, <2>3
  <1>3. EntersNone(c)
    BY <1>2 DEF EntersNone
  <1> QED
    BY <1>3 DEF c

LEMMA NothingEnters ==
  ASSUME NEW S
  PROVE  <<>> \in Seq(S) /\ EntersNone(<<>>)
  BY EmptySeq DEF EntersNone

\* What the loop puts on its agenda in a step of it calls no key bind, unless
\* Lua has had a request executed.
LEMMA StepEnters ==
  ASSUME LoopInv, Step(Loop), ~inlined'
  PROVE  /\ ~inlined
         /\ \E s \in Seq(AgendaSteps) : Then(Loop, s) /\ EntersNone(s)
  <1> USE DEF LoopInv
  <1>0. Loop \in Threads /\ Loop # Watcher /\ SubjectsOf(Loop)
    BY ThreadKinds, Subjects
  <1> DEFINE none == <<>>
  <1>1. none \in Seq(AgendaSteps) /\ EntersNone(none)
    BY NothingEnters
  <1>2. CASE LeaveLua(Loop) \/ AppendEvent(Loop) \/ SetPause(Loop) \/ JoinAsync(Loop) \/ CloseState(Loop) \/ ChangeMods(Loop)
    <2>1. Then(Loop, none) /\ inlined' = inlined
      BY <1>2, ChangeCases DEF LeaveLua, AppendEvent, SetPause, JoinAsync, CloseState
    <2> HIDE DEF none
    <2> QED
      BY <1>1, <2>1
  <1>3. ~ScanMods(Loop)
    BY <1>0 DEF ScanMods, SubjectsOf
  <1>4. CASE StopAsync(Loop)
    <2> DEFINE i == Subject(Loop)
    <2>1. i \in Instances /\ inlined' = inlined
      BY <1>0, <1>4 DEF StopAsync, SubjectsOf
    <2>2. <<"join", i>> \in AgendaSteps /\ <<"close", i>> \in AgendaSteps
      BY <2>1 DEF AgendaSteps, Building
    <2> DEFINE a == <<<<"close", i>>>>
               b == <<<<"join", i>>, <<"close", i>>>>
    <2>3. a \in Seq(AgendaSteps) /\ b \in Seq(AgendaSteps)
      BY <2>2
    <2>4. EntersNone(a) /\ EntersNone(b)
      BY DEF EntersNone
    <2>5. Then(Loop, a) \/ Then(Loop, b)
      BY <1>4 DEF StopAsync
    <2> HIDE DEF a, b
    <2> QED
      BY <2>1, <2>3, <2>4, <2>5
  <1>5. ASSUME NEW i \in Instances, RunLua(Loop, i)
        PROVE  /\ ~inlined
               /\ \E s \in Seq(AgendaSteps) : Then(Loop, s) /\ EntersNone(s)
    <2>1. PICK s \in Seq(Plain(Loop)) : Then(Loop, s \o <<<<"leave", i>>>>) /\ Request(Loop, i, s)
      BY <1>0, <1>5, LuaAsks
    <2>2. s = <<>> /\ ~inlined
      BY <1>0, <1>5, <2>1, LuaAsks DEF Request
    <2> DEFINE q == <<<<"leave", i>>>>
    <2>3. q \in Seq(AgendaSteps) /\ EntersNone(q)
      <3>1. <<"leave", i>> \in AgendaSteps
        BY DEF AgendaSteps
      <3> QED
        BY <3>1 DEF EntersNone
    <2>4. Then(Loop, <<>> \o q)
      BY <2>1, <2>2
    <2> HIDE DEF q
    <2>5. <<>> \o q = q
      BY <2>3, ConcatEmptySeq
    <2> QED
      BY <2>2, <2>3, <2>4, <2>5
  <1>6. CASE StartMod(Loop)
    <2>1. CASE Then(Loop, <<>>) /\ UNCHANGED <<stage, async, lua, requests, inlined>>
      BY <1>1, <2>1
    <2> QED
      BY <1>5, <1>6, <2>1, StartCases, FirstProperties
  <1>7. CASE EnterLua(Loop)
    BY <1>0, <1>5, <1>7 DEF EnterLua, SubjectsOf
  <1> QED
    BY <1>2, <1>3, <1>4, <1>6, <1>7 DEF Step

LEMMA EnteringStep ==
  ASSUME LoopInv, Entering, Step(Loop)
  PROVE  Entering'
  <1> USE DEF LoopInv
  <1>1. SUFFICES ASSUME ~inlined' PROVE EntersNone(agenda'[Loop])
    BY DEF Entering, EntersNone
  <1>2. Loop \in Threads
    BY ThreadKinds
  <1>3. PICK s \in Seq(AgendaSteps) : Then(Loop, s) /\ EntersNone(s)
    BY <1>1, StepEnters
  <1>4. agenda[Loop] \in Seq(AgendaSteps)
    BY <1>2 DEF Agendas
  <1>5. /\ Rest(agenda[Loop]) \in Seq(AgendaSteps)
        /\ \A k \in DOMAIN Rest(agenda[Loop]) :
              Rest(agenda[Loop])[k] = agenda[Loop][k + 1] /\ k + 1 \in DOMAIN agenda[Loop] /\ k + 1 # 1
    <2>1. /\ Rest(agenda[Loop]) \in Seq(AgendaSteps)
          /\ DOMAIN Rest(agenda[Loop]) = 1 .. Len(Rest(agenda[Loop])) /\ Len(Rest(agenda[Loop])) \in Nat
          /\ \A k \in DOMAIN Rest(agenda[Loop]) :
                Rest(agenda[Loop])[k] = agenda[Loop][k + 1] /\ k + 1 \in DOMAIN agenda[Loop]
      BY <1>4, RestElements
    <2> QED
      BY <2>1
  <1>6. EntersNone(Rest(agenda[Loop]))
    BY <1>1, <1>5, StepEnters DEF Entering, EntersNone
  <1>7. agenda'[Loop] = s \o Rest(agenda[Loop])
    BY <1>2, <1>3, ThenRest
  <1> QED
    BY <1>3, <1>5, <1>6, <1>7, EntersConcat

\* What is only built calls no key bind and ends no callback.
LEMMA BuiltIsPlain ==
  ASSUME NEW s \in Seq(LoopBuild)
  PROVE  EntersNone(s) /\ \A i : <<"leave", i>> \notin ToSet(s)
  <1>1. \A x \in LoopBuild : x[1] \notin {"enter", "leave"}
    BY DEF LoopBuild
  <1>2. \A k \in DOMAIN s : s[k] \in LoopBuild
    BY LenProperties, ElementOfSeq
  <1>3. \A x \in ToSet(s) : x \in LoopBuild
    BY <1>2 DEF ToSet
  <1> QED
    BY <1>1, <1>2, <1>3 DEF EntersNone

LEMMA EnteringNext ==
  ASSUME TypesInv, SyncInv, ~overwritten, Entering, [Next]_vars
  PROVE  Entering'
  <1> USE DEF TypesInv, LoopInv
  <1>0. /\ Loop \in Threads /\ Watcher \in Threads /\ Game \in Threads /\ Gui \in Threads
        /\ \A i \in Instances : Async(i) \in Threads /\ Async(i) # Loop
        /\ Loop # Watcher /\ Game # Loop /\ Gui # Loop
    BY ThreadKinds
  <1>1. ASSUME agenda'[Loop] = agenda[Loop], stage' = stage, inlined => inlined' PROVE Entering'
    BY <1>1 DEF Entering
  <1>2. ASSUME EntersNone(agenda'[Loop]) PROVE Entering'
    BY <1>2 DEF Entering, EntersNone
  <1>3. ASSUME NEW t \in Threads, Step(t) PROVE Entering'
    <2>1. ~Idle(t) /\ \A u \in Threads : u # t => agenda'[u] = agenda[u]
      BY <1>3, StepIsLocal
    <2>2. CASE t = Loop
      BY <1>3, <2>2, EnteringStep
    <2>3. CASE t = Watcher
      <3>1. agenda'[Loop] = <<>>
        BY <1>0, <2>1, <2>3, OneIsIdle DEF Idle
      <3> QED
        BY <1>2, <3>1 DEF EntersNone
    <2>4. CASE t \notin {Loop, Watcher}
      <3>1. LeaveLua(t) \/ AppendEvent(t) \/ EnterLua(t)
        BY <1>3, <2>4, OtherSteps
      <3>2. stage' = stage
        BY <3>1 DEF LeaveLua, AppendEvent, EnterLua, modVars
      <3>3. inlined => inlined'
        <4>1. CASE LeaveLua(t) \/ AppendEvent(t)
          BY <4>1 DEF LeaveLua, AppendEvent
        <4>2. CASE EnterLua(t)
          BY <4>2, Subjects, LuaAsks DEF EnterLua, SubjectsOf
        <4> QED
          BY <3>1, <4>1, <4>2
      <3> QED
        BY <1>0, <1>1, <2>1, <2>4, <3>2, <3>3
    <2> QED
      BY <2>2, <2>3, <2>4
  <1>4. CASE StartLoop \/ Fetch \/ EndBatch \/ Answer \/ Awake \/ StoreIdle \/ Notice \/ FallAsleep \/ EndSection
             \/ UNCHANGED AllButTaken
    <2>1. agenda' = agenda /\ stage' = stage /\ inlined' = inlined
      BY <1>4 DEF StartLoop, Fetch, EndBatch, Answer, Awake, StoreIdle, Notice, FallAsleep, EndSection, AllButTaken,
          modVars
    <2> QED
      BY <1>1, <2>1
  <1>5. CASE RunEvent
    <2>1. PICK r \in Asks : Then(Loop, Handling(r))
      BY <1>5, RequestRuns
    <2>2. agenda'[Loop] = Handling(r)
      BY <1>0, <1>5, <2>1, HandlingType, ThenFromIdle DEF RunEvent
    <2> QED
      BY <1>2, <2>2, HandlingType, BuiltIsPlain
  <1>6. CASE Input
    <2>1. stage' = stage
      BY <1>6 DEF Input, modVars
    <2>2. CASE agenda'[Loop] = <<>>
      BY <1>2, <2>2 DEF EntersNone
    <2>3. CASE agenda'[Loop] = RestartAll
      BY <1>2, <2>3, RestartAllType, BuiltIsPlain
    <2>4. ASSUME NEW i \in Instances, stage[i] = "started", agenda'[Loop] = <<<<"enter", i>>>>
          PROVE  Entering'
      BY <2>1, <2>4 DEF Entering
    <2>5. CASE inlined'
      BY <2>5 DEF Entering
    <2> QED
      BY <1>6, <2>2, <2>3, <2>4, <2>5, InputCases
  <1>7. CASE BeginSection
    <2>1. agenda'[Loop] = agenda[Loop]
      BY <1>0, <1>7, ThenRest DEF BeginSection
    <2>2. stage' = stage /\ inlined' = inlined
      BY <1>7 DEF BeginSection, modVars
    <2> QED
      BY <1>1, <2>1, <2>2
  <1>8. ASSUME NEW t \in {Gui, Game}, OutsideAsk(t) PROVE Entering'
    <2>1. PICK r : Then(t, Asked(t, r))
      BY <1>8 DEF OutsideAsk
    <2>2. agenda'[Loop] = agenda[Loop]
      BY <1>0, <2>1, ThenRest
    <2>3. stage' = stage /\ inlined' = inlined
      BY <1>8 DEF OutsideAsk, modVars
    <2> QED
      BY <1>1, <2>2, <2>3
  <1>9. ASSUME NEW i \in Instances, CheckStop(i) PROVE Entering'
    <2>1. agenda'[Loop] = agenda[Loop]
      BY <1>0, <1>9, ThenRest DEF CheckStop
    <2>2. stage' = stage /\ inlined' = inlined
      BY <1>9 DEF CheckStop
    <2> QED
      BY <1>1, <2>1, <2>2
  <1>10. ASSUME NEW i \in Instances, GameCallback(i) PROVE Entering'
    <2>1. agenda'[Loop] = agenda[Loop] /\ (inlined => inlined')
      BY <1>0, <1>10, LuaAsks, ThenRest DEF GameCallback
    <2>2. stage' = stage
      BY <1>10 DEF GameCallback, modVars
    <2> QED
      BY <1>1, <2>1, <2>2
  <1> QED
    BY <1>3, <1>4, <1>5, <1>6, <1>7, <1>8, <1>9, <1>10, NextKinds DEF LoopStep, WatcherStep

\* A closed Lua state has no async thread and no callback that is running, but
\* for the loop's own when a request ran inside it.
Quiet ==
    \A i \in Instances : stage[i] = "closed" =>
        /\ async[i] = "none"
        /\ \A t \in Threads : i \in LockedIn(t) => t = Loop /\ inlined

\* The callbacks a thread is inside of were there before, or are on the agenda
\* that it has begun.
LEMMA ThenInLua ==
  ASSUME Agendas, NEW t \in Threads, NEW s \in Seq(AgendaSteps), Then(t, s), NEW i \in Instances, i \in LockedIn(t)'
  PROVE  i \in LockedIn(t) \/ <<"leave", i>> \in ToSet(s)
  <1> DEFINE q == agenda[t]
             c == s \o Rest(q)
  <1>1. agenda'[t] = c
    BY ThenRest
  <1>2. q \in Seq(AgendaSteps)
    BY DEF Agendas
  <1>3. PICK k \in DOMAIN c : c[k] = <<"leave", i>>
    BY <1>1 DEF LockedIn, InsideOf
  <1> HIDE DEF q
  <1>4. /\ Rest(q) \in Seq(AgendaSteps)
        /\ \A j \in DOMAIN Rest(q) : Rest(q)[j] = q[j + 1] /\ j + 1 \in DOMAIN q
    BY <1>2, RestElements
  <1>5. /\ Len(s) \in Nat /\ DOMAIN s = 1 .. Len(s)
        /\ DOMAIN c = 1 .. Len(s) + Len(Rest(q)) /\ Len(Rest(q)) \in Nat
        /\ \A j \in DOMAIN s : c[j] = s[j]
        /\ \A j \in DOMAIN c : j > Len(s) => j - Len(s) \in DOMAIN Rest(q) /\ c[j] = Rest(q)[j - Len(s)]
    BY <1>4, ConcatElements
  <1> HIDE DEF c
  <1>6. CASE k \in DOMAIN s
    BY <1>3, <1>5, <1>6 DEF ToSet
  <1>7. CASE k > Len(s)
    <2>1. PICK j \in DOMAIN Rest(q) : c[k] = Rest(q)[j]
      BY <1>5, <1>7
    <2>2. q[j + 1] = <<"leave", i>> /\ j + 1 \in DOMAIN q
      BY <1>3, <1>4, <2>1
    <2> QED
      BY <2>2 DEF LockedIn, InsideOf, q
  <1>8. k \in DOMAIN s \/ k > Len(s)
    BY <1>5
  <1> QED
    BY <1>6, <1>7, <1>8

\* No state is closed, and no callback of a closed one begins.
LEMMA StaysQuiet ==
  ASSUME Agendas, Quiet, NEW t \in Threads, NEW s \in Seq(AgendaSteps), Then(t, s),
         (inlined => inlined') \/ (t = Loop /\ Idle(Loop)),
         \A i \in Instances : stage'[i] = "closed" =>
             /\ stage[i] = "closed" /\ async'[i] = "none"
             /\ <<"leave", i>> \notin ToSet(s) \/ (t = Loop /\ inlined')
  PROVE  Quiet'
  <1> SUFFICES ASSUME NEW i \in Instances, stage'[i] = "closed"
               PROVE  /\ async'[i] = "none"
                      /\ \A u \in Threads : i \in LockedIn(u)' => u = Loop /\ inlined'
    BY DEF Quiet
  <1>1. \A u \in Threads : u # t => agenda'[u] = agenda[u]
    BY ThenRest
  <1>2. ASSUME NEW u \in Threads, i \in LockedIn(u)'
        PROVE  u = Loop /\ inlined'
    <2>1. CASE u # t
      <3>1. i \in LockedIn(u)
        BY <1>1, <1>2, <2>1 DEF LockedIn, InsideOf
      <3>2. u = Loop /\ inlined
        BY <3>1 DEF Quiet
      <3> QED
        BY <2>1, <3>2
    <2>2. CASE u = t
      <3>1. i \in LockedIn(t) \/ <<"leave", i>> \in ToSet(s)
        BY <1>2, <2>2, ThenInLua
      <3>2. CASE i \in LockedIn(t)
        <4>1. t = Loop /\ inlined
          BY <3>2 DEF Quiet
        <4>2. ~Idle(Loop)
          BY <3>2, <4>1 DEF LockedIn, InsideOf, Idle
        <4> QED
          BY <2>2, <4>1, <4>2
      <3> QED
        BY <2>2, <3>1, <3>2
    <2> QED
      BY <2>1, <2>2
  <1> QED
    BY <1>2

\* Neither the agendas nor the mods change.
LEMMA StillQuiet ==
  ASSUME Quiet, agenda' = agenda, inlined' = inlined, stage' = stage,
         \A i \in Instances : async[i] = "none" => async'[i] = "none"
  PROVE  Quiet'
  BY DEF Quiet, LockedIn, InsideOf

\* Nothing runs of a mod whose state is closed (LuaMod::uninstall).
LEMMA CloseQuietly ==
  ASSUME LoopInv, ShallowStacks, Quiet, NEW t \in {Loop, Watcher}, CloseState(t), InOrder(t)
  PROVE  Quiet'
  <1> USE DEF LoopInv
  <1> DEFINE c == Subject(t)
  <1>0. t \in Threads /\ c \in Instances
    BY ThreadKinds, Subjects DEF CloseState, SubjectsOf
  <1>1. ~Idle(t) /\ agenda[t][1][1] = "close" /\ CanLock(t) /\ Then(t, <<>>)
        /\ stage' = [stage EXCEPT ![c] = "closed"] /\ async' = async /\ inlined' = inlined
    BY DEF CloseState, NextIs, Idle
  <1>2. Ready(World, agenda[t][1], {}) /\ agenda[t][1] = <<"close", c>>
    BY <1>0, <1>1, NextReady
  <1>3. async[c] = "none"
    BY <1>0, <1>2 DEF Ready, World
  <1> HIDE DEF c
  <1>4. ASSUME NEW u \in Threads, Held(agenda[u]) = 0, NEW i \in Instances
        PROVE  i \notin LockedIn(u)
    <2>1. agenda[u] \in Seq(AgendaSteps)
      BY DEF Agendas
    <2>2. \A k \in DOMAIN agenda[u] : agenda[u][k][1] # "leave"
      BY <1>4, <2>1, HeldType
    <2> QED
      BY <2>2 DEF LockedIn, InsideOf
  <1>5. ASSUME NEW u \in Threads, u # t PROVE Held(agenda[u]) = 0
    <2>1. lua.by # u
      BY <1>1, <1>5, NobodyIsNoThread DEF CanLock
    <2> QED
      BY <2>1 DEF MutexCounts
  <1>6. t # Loop \/ ~inlined => Held(agenda[t]) = 0
    <2>1. ~NextIs(t, "leave") /\ ~NextIs(t, "append")
      BY <1>1 DEF NextIs
    <2> QED
      BY <1>0, <2>1, InsideOfLua
  <1>7. \A u \in Threads, i \in Instances : i \in LockedIn(u) => u = Loop /\ inlined
    BY <1>4, <1>5, <1>6
  <1>8. ASSUME NEW u \in Threads, NEW i \in Instances, i \in LockedIn(u)' PROVE u = Loop /\ inlined'
    <2>1. i \in LockedIn(u)
      <3>1. CASE u # t
        <4>1. agenda'[u] = agenda[u]
          BY <1>0, <1>1, <3>1, ThenRest
        <4> QED
          BY <1>8, <4>1 DEF LockedIn, InsideOf
      <3>2. CASE u = t
        <4> DEFINE s == <<>>
        <4>1. s \in Seq(AgendaSteps) /\ Then(t, s) /\ <<"leave", i>> \notin ToSet(s)
          BY <1>1, EmptySeq DEF ToSet
        <4> HIDE DEF s
        <4> QED
          BY <1>0, <1>8, <3>2, <4>1, ThenInLua
      <3> QED
        BY <3>1, <3>2
    <2> QED
      BY <1>1, <1>7, <2>1
  <1>9. \A i \in Instances : stage'[i] = "closed" => async'[i] = "none"
    BY <1>1, <1>3 DEF Quiet, Mods
  <1> QED
    BY <1>8, <1>9 DEF Quiet

\* Lua code of a mod begins to run.
LEMMA LuaStaysQuiet ==
  ASSUME LoopInv, Quiet, NEW t \in Threads, NEW i \in Instances, RunLua(t, i),
         stage'[i] # "closed" \/ (t = Loop /\ inlined'),
         \A j \in Instances : stage'[j] = "closed" => stage[j] = "closed" /\ async'[j] = "none"
  PROVE  Quiet'
  <1> USE DEF LoopInv
  <1>1. PICK s \in Seq(Plain(t)) : Then(t, s \o <<<<"leave", i>>>>)
    BY LuaAsks
  <1>2. inlined => inlined'
    BY LuaAsks
  <1> DEFINE x == <<"leave", i>>
             l == <<x>>
             q == s \o l
  <1>3. x \in AgendaSteps
    BY DEF AgendaSteps
  <1>4. ToSet(l) = {x}
    BY OneFollows
  <1>5. Plain(t) \subseteq AgendaSteps
    BY RepertoireType DEF Plain
  <1>6. \A j : <<"leave", j>> \notin ToSet(s)
    <2>1. \A k \in DOMAIN s : s[k] \in Plain(t)
      BY LenProperties, ElementOfSeq
    <2>2. \A y \in ToSet(s) : y[1] # "leave"
      BY <2>1 DEF ToSet, Plain
    <2> QED
      BY <2>2
  <1>7. \A j : <<"leave", j>> = x => j = i
    OBVIOUS
  <1> HIDE DEF x
  <1>8. l \in Seq(AgendaSteps) /\ s \in Seq(AgendaSteps)
    BY <1>3, <1>5, SeqMonotonic
  <1> HIDE DEF l
  <1>9. q \in Seq(AgendaSteps) /\ ToSet(q) = ToSet(s) \cup {x}
    BY <1>4, <1>8, ConcatProperties, ToSetConcat
  <1>10. Then(t, q)
    BY <1>1 DEF x, l
  <1>11. \A j : <<"leave", j>> \in ToSet(q) => j = i
    BY <1>6, <1>7, <1>9
  <1> HIDE DEF q
  <1> QED
    BY <1>2, <1>9, <1>10, <1>11, StaysQuiet

\* Nothing is put on an agenda.
LEMMA DoneStaysQuiet ==
  ASSUME LoopInv, Quiet, NEW t \in Threads, Then(t, <<>>), inlined' = inlined,
         \A j \in Instances : stage'[j] = "closed" => stage[j] = "closed" /\ (async[j] = "none" => async'[j] = "none")
  PROVE  Quiet'
  <1> DEFINE s == <<>>
  <1>1. s \in Seq(AgendaSteps) /\ Then(t, s) /\ \A j : <<"leave", j>> \notin ToSet(s)
    BY EmptySeq DEF ToSet
  <1>2. \A j \in Instances : stage'[j] = "closed" => stage[j] = "closed" /\ async'[j] = "none"
    BY DEF Quiet
  <1> HIDE DEF s
  <1> QED
    BY <1>1, <1>2, StaysQuiet DEF LoopInv

\* A thread that calls a callback of a mod: its async thread runs, or the loop
\* calls a key bind.
LEMMA EnterQuietly ==
  ASSUME TypesInv, Quiet, Entering, NEW t \in Threads, EnterLua(t)
  PROVE  Quiet'
  <1> USE DEF TypesInv, LoopInv
  <1> DEFINE i == Subject(t)
  <1>1. i \in Instances /\ RunLua(t, i) /\ ~Idle(t) /\ agenda[t][1][1] = "enter" /\ UNCHANGED <<stage, async>>
    BY Subjects DEF EnterLua, SubjectsOf, NextIs, Idle, modVars
  <1>2. stage[i] # "closed" \/ (t = Loop /\ inlined')
    <2>1. CASE t = Loop
      <3>1. inlined => inlined'
        BY <1>1, LuaAsks
      <3>2. ~inlined => stage[i] = "started"
        <4>1. agenda[Loop] \in Seq(AgendaSteps) /\ agenda[Loop] # <<>>
          BY <1>1, <2>1 DEF Agendas, Idle
        <4>2. 1 \in DOMAIN agenda[Loop]
          BY <4>1
        <4> QED
          BY <1>1, <2>1, <4>2 DEF Entering, Subject
      <3> QED
        BY <2>1, <3>1, <3>2
    <2>2. CASE t # Loop
      <3>1. t \notin {Watcher, Game, Gui} /\ i = t[2]
        BY <2>2, Subjects DEF EnterLua, SubjectsOf
      <3>2. t = Async(i)
        BY <2>2, <3>1, ThreadKinds
      <3>3. async[i] = "running"
        BY <1>1, <3>2 DEF Rests
      <3> QED
        BY <1>1, <3>3 DEF Quiet
    <2> QED
      BY <2>1, <2>2
  <1> HIDE DEF i
  <1>3. \A j \in Instances : stage'[j] = "closed" => stage[j] = "closed" /\ async'[j] = "none"
    BY <1>1 DEF Quiet
  <1> QED
    BY <1>1, <1>2, <1>3, LuaStaysQuiet

LEMMA QuietStep ==
  ASSUME TypesInv, ShallowStacks, Quiet, Entering, NEW t \in Threads, Step(t),
         t \in {Loop, Watcher} => InOrder(t)
  PROVE  Quiet'
  <1> USE DEF TypesInv, LoopInv
  <1>0. SubjectsOf(t)
    BY Subjects
  <1>1. CASE LeaveLua(t) \/ AppendEvent(t) \/ SetPause(t)
    <2>1. Then(t, <<>>) /\ UNCHANGED <<stage, async, inlined>>
      BY <1>1 DEF LeaveLua, AppendEvent, SetPause, modVars
    <2> QED
      BY <2>1, DoneStaysQuiet
  <1>2. CASE ScanMods(t) \/ StopAsync(t)
    <2>1. PICK s \in Seq(AgendaSteps) : Then(t, s) /\ Bare(s)
      BY <1>2, BareSteps
    <2>2. UNCHANGED <<stage, async, inlined>>
      BY <1>2 DEF ScanMods, StopAsync, modVars
    <2>3. \A j : <<"leave", j>> \notin ToSet(s)
      <3>1. \A y \in ToSet(s) : y[1] # "leave"
        BY <2>1 DEF Bare, ToSet
      <3> QED
        BY <3>1
    <2>4. \A j \in Instances : stage'[j] = "closed" => stage[j] = "closed" /\ async'[j] = "none"
      BY <2>2 DEF Quiet
    <2> QED
      BY <2>1, <2>2, <2>3, <2>4, StaysQuiet
  <1>3. CASE JoinAsync(t)
    <2>1. Then(t, <<>>) /\ UNCHANGED <<stage, inlined>> /\ async' = [async EXCEPT ![Subject(t)] = "none"]
      BY <1>3 DEF JoinAsync
    <2>2. \A j \in Instances : async[j] = "none" => async'[j] = "none"
      BY <2>1 DEF Mods
    <2> QED
      BY <2>1, <2>2, DoneStaysQuiet
  <1>4. CASE CloseState(t)
    <2>1. t \in {Loop, Watcher}
      BY <1>0, <1>4 DEF CloseState, SubjectsOf
    <2> QED
      BY <1>4, <2>1, CloseQuietly
  <1>5. CASE ChangeMods(t)
    <2>1. Then(t, <<>>) /\ UNCHANGED <<async, inlined>>
      BY <1>5, ChangeCases
    <2>2. \A j \in Instances : stage'[j] = "closed" => stage[j] = "closed"
      <3>1. CASE stage' = stage
        BY <3>1
      <3>2. ASSUME NEW new \in Instances, NEW n, Construct(new, n)
            PROVE  \A j \in Instances : stage'[j] = "closed" => stage[j] = "closed"
        BY <3>2 DEF Construct, Mods
      <3> QED
        BY <1>5, <3>1, <3>2, ChangeCases DEF Deletes, Clears, Creates, Replaces
    <2> QED
      BY <2>1, <2>2, DoneStaysQuiet
  <1>6. CASE StartMod(t)
    <2>1. CASE Then(t, <<>>) /\ UNCHANGED <<stage, async, lua, requests, inlined>>
      BY <2>1, DoneStaysQuiet
    <2>2. CASE /\ Waiting(Subject(t)) # {}
               /\ RunLua(t, First(Subject(t)))
               /\ stage' = [stage EXCEPT ![First(Subject(t))] = "started"]
               /\ async' = [async EXCEPT ![First(Subject(t))] = "running"]
      <3> DEFINE i == First(Subject(t))
      <3>1. i \in Instances /\ RunLua(t, i) /\ stage' = [stage EXCEPT ![i] = "started"]
            /\ async' = [async EXCEPT ![i] = "running"]
        BY <2>2, FirstProperties
      <3> HIDE DEF i
      <3>2. stage'[i] # "closed"
        BY <3>1 DEF Mods
      <3>3. \A j \in Instances : stage'[j] = "closed" => stage[j] = "closed" /\ async'[j] = "none"
        BY <3>1 DEF Quiet, Mods
      <3> QED
        BY <3>1, <3>2, <3>3, LuaStaysQuiet
    <2> QED
      BY <1>6, <2>1, <2>2, StartCases
  <1>7. CASE EnterLua(t)
    BY <1>7, EnterQuietly
  <1> QED
    BY <1>1, <1>2, <1>3, <1>4, <1>5, <1>6, <1>7 DEF Step

\* An idle thread begins what ends no callback.
LEMMA BeginsQuietly ==
  ASSUME LoopInv, Quiet, NEW t \in Threads, Idle(t), NEW s \in Seq(AgendaSteps), Then(t, s),
         t = Loop \/ inlined' = inlined, \A j : <<"leave", j>> \notin ToSet(s), UNCHANGED <<stage, async>>
  PROVE  Quiet'
  <1>1. \A j \in Instances : stage'[j] = "closed" => stage[j] = "closed" /\ async'[j] = "none"
    BY DEF Quiet
  <1> QED
    BY <1>1, StaysQuiet DEF LoopInv

LEMMA QuietNext ==
  ASSUME TypesInv, ShallowStacks, ~overwritten, Quiet, Entering, InOrder(Loop), InOrder(Watcher), [Next]_vars
  PROVE  Quiet'
  <1> USE DEF TypesInv, LoopInv
  <1>0. /\ Loop \in Threads /\ Watcher \in Threads /\ Game \in Threads /\ Gui \in Threads
        /\ \A i \in Instances : Async(i) \in Threads
        /\ Gui # Loop /\ Game # Loop
    BY ThreadKinds
  <1>1. ASSUME NEW t \in Threads, Step(t) PROVE Quiet'
    BY <1>1, QuietStep
  <1>2. CASE StartLoop \/ Fetch \/ EndBatch \/ Answer \/ Awake \/ StoreIdle \/ Notice \/ FallAsleep \/ EndSection
             \/ UNCHANGED AllButTaken
    <2>1. UNCHANGED <<agenda, stage, inlined, async>>
      BY <1>2 DEF StartLoop, Fetch, EndBatch, Answer, Awake, StoreIdle, Notice, FallAsleep, EndSection, AllButTaken,
          modVars
    <2> QED
      BY <2>1, StillQuiet
  <1>3. CASE RunEvent
    <2>1. PICK r \in Asks : Then(Loop, Handling(r))
      BY <1>3, RequestRuns
    <2>2. Handling(r) \in Seq(AgendaSteps)
      <3>1. LoopBuild \subseteq AgendaSteps
        BY DEF LoopBuild, Born, AgendaSteps, Building
      <3> QED
        BY <3>1, HandlingType, SeqMonotonic
    <2>3. Idle(Loop) /\ UNCHANGED <<stage, async>>
      BY <1>3 DEF RunEvent, modVars
    <2>4. \A j : <<"leave", j>> \notin ToSet(Handling(r))
      BY HandlingType, BuiltIsPlain
    <2> QED
      BY <1>0, <2>1, <2>2, <2>3, <2>4, BeginsQuietly
  <1>4. CASE Input
    <2>1. PICK s \in Seq(Plain(Loop)) : Then(Loop, s)
      BY <1>4, InputType
    <2>2. Idle(Loop) /\ UNCHANGED <<stage, async>>
      BY <1>4 DEF Input, Rests, modVars
    <2>3. s \in Seq(AgendaSteps) /\ \A j : <<"leave", j>> \notin ToSet(s)
      <3>1. Bare(s) /\ s \in Seq(AgendaSteps)
        BY PlainIsBare
      <3>2. \A y \in ToSet(s) : y[1] # "leave"
        BY <3>1 DEF Bare, ToSet
      <3> QED
        BY <3>1, <3>2
    <2> QED
      BY <1>0, <2>1, <2>2, <2>3, BeginsQuietly
  <1>5. CASE BeginSection
    <2>1. Idle(Watcher) /\ UNCHANGED <<stage, async, inlined>>
      BY <1>5 DEF BeginSection, Rests, modVars
    <2>2. CASE UNCHANGED agenda
      BY <2>1, <2>2, StillQuiet
    <2>3. CASE Then(Watcher, Discover)
      <3>1. Discover \in Seq(AgendaSteps)
        <4>1. {n \in Names : \A k \in DOMAIN m_mods : name[m_mods[k]] # n} \in SUBSET Names
          OBVIOUS
        <4>2. \A T \in SUBSET Names : <<"scan", T>> \in AgendaSteps
          BY DEF AgendaSteps, Scanning
        <4>3. <<"pause", 0>> \in AgendaSteps /\ <<"resume", 0>> \in AgendaSteps
          BY DEF AgendaSteps, Scanning
        <4> QED
          BY <4>1, <4>2, <4>3 DEF Discover
      <3>2. \A j : <<"leave", j>> \notin ToSet(Discover)
        BY DEF Discover, ToSet
      <3> QED
        BY <1>0, <2>1, <2>3, <3>1, <3>2, BeginsQuietly
    <2>4. ASSUME NEW i \in ToSet(m_mods), Then(Watcher, Reload(i)) PROVE Quiet'
      <3>1. i \in Instances /\ name[i] \in Names
        BY MemberType DEF Mods
      <3>2. Reload(i) \in Seq(AgendaSteps)
        <4>1. <<"uninstall", i>> \in AgendaSteps /\ <<"replace", i>> \in AgendaSteps /\ <<"launch", name[i]>> \in AgendaSteps
          BY <3>1 DEF AgendaSteps, Building
        <4> QED
          BY <4>1 DEF Reload
      <3>3. \A j : <<"leave", j>> \notin ToSet(Reload(i))
        BY DEF Reload, ToSet
      <3> QED
        BY <1>0, <2>1, <2>4, <3>2, <3>3, BeginsQuietly
    <2> QED
      BY <1>5, <2>2, <2>3, <2>4 DEF BeginSection
  <1>6. ASSUME NEW t \in {Gui, Game}, OutsideAsk(t) PROVE Quiet'
    <2>1. PICK r \in Asks : Then(t, Asked(t, r))
      BY <1>6 DEF OutsideAsk
    <2>2. Idle(t) /\ UNCHANGED <<stage, async, inlined>>
      BY <1>6 DEF OutsideAsk, modVars
    <2> DEFINE s == Asked(t, r)
               x == <<"append", r>>
               l == <<x>>
               none == <<>>
    <2>3. x \in AgendaSteps
      BY DEF AgendaSteps, Appends
    <2>4. s = none \/ s = l
      BY <1>0 DEF Asked
    <2>5. \A j : <<"leave", j>> # x
      OBVIOUS
    <2>6. ToSet(l) = {x} /\ ToSet(none) = {}
      BY OneFollows, NothingFollows
    <2>7. Then(t, s)
      BY <2>1
    <2> HIDE DEF x, s
    <2>8. s \in Seq(AgendaSteps) /\ \A j : <<"leave", j>> \notin ToSet(s)
      <3>1. l \in Seq(AgendaSteps) /\ none \in Seq(AgendaSteps)
        BY <2>3, EmptySeq
      <3> HIDE DEF l, none
      <3>2. ToSet(s) \subseteq {x}
        BY <2>4, <2>6
      <3> QED
        BY <2>4, <2>5, <3>1, <3>2
    <2> QED
      BY <1>0, <2>2, <2>7, <2>8, BeginsQuietly
  <1>7. ASSUME NEW i \in Instances, CheckStop(i) PROVE Quiet'
    <2>1. UNCHANGED <<stage, inlined>> /\ Idle(Async(i)) /\ async[i] = "running"
      BY <1>7 DEF CheckStop
    <2>2. CASE async' = [async EXCEPT ![i] = "exited"] /\ UNCHANGED agenda
      <3>1. \A j \in Instances : async[j] = "none" => async'[j] = "none"
        BY <2>1, <2>2 DEF Mods
      <3> QED
        BY <2>1, <2>2, <3>1, StillQuiet
    <2>3. CASE Then(Async(i), <<<<"enter", i>>>>) /\ UNCHANGED async
      <3> DEFINE s == <<<<"enter", i>>>>
      <3>1. s \in Seq(AgendaSteps)
        <4>1. <<"enter", i>> \in AgendaSteps
          BY DEF AgendaSteps
        <4> QED
          BY <4>1
      <3>2. (\A j : <<"leave", j>> \notin ToSet(s)) /\ Then(Async(i), s)
        BY <2>3 DEF ToSet
      <3> HIDE DEF s
      <3> QED
        BY <1>0, <2>1, <2>3, <3>1, <3>2, BeginsQuietly
    <2> QED
      BY <1>7, <2>2, <2>3 DEF CheckStop
  <1>8. ASSUME NEW i \in Instances, GameCallback(i) PROVE Quiet'
    <2>1. RunLua(Game, i) /\ stage[i] = "started" /\ UNCHANGED <<stage, async>>
      BY <1>8 DEF GameCallback, modVars
    <2>2. \A j \in Instances : stage'[j] = "closed" => stage[j] = "closed" /\ async'[j] = "none"
      BY <2>1 DEF Quiet
    <2> QED
      BY <1>0, <2>1, <2>2, LuaStaysQuiet
  <1> QED
    BY <1>1, <1>2, <1>3, <1>4, <1>5, <1>6, <1>7, <1>8, NextKinds DEF LoopStep, WatcherStep

-----------------------------------------------------------------------------
(* The invariant of the lives, and what follows from it.                    *)

Lives == ModsInOrder(Loop) /\ ModsInOrder(Watcher) /\ Entering /\ Quiet
LivesInv == overwritten \/ Lives

LEMMA LivesInit == Init => Lives
  <1> SUFFICES ASSUME Init PROVE Lives
    OBVIOUS
  <1>0. Loop \in Threads /\ Watcher \in Threads /\ Loop # Watcher
    BY ThreadKinds
  <1>1. PICK enabled \in SUBSET Names : \E order \in SetToSeqs(enabled) :
            agenda = [t \in Threads |->
                         IF t = Loop THEN [k \in DOMAIN order |-> <<"launch", order[k]>>] ELSE <<>>]
    BY DEF Init
  <1>2. PICK order \in SetToSeqs(enabled) :
            agenda = [t \in Threads |->
                         IF t = Loop THEN [k \in DOMAIN order |-> <<"launch", order[k]>>] ELSE <<>>]
    BY <1>1
  <1>3. \A t \in Threads : \A k \in DOMAIN agenda[t] : agenda[t][k][1] = "launch"
    BY <1>2
  <1>4. InOrder(Loop) /\ InOrder(Watcher)
    BY <1>0, <1>3, HarmlessFollow DEF InOrder, HarmlessOps
  <1>5. /\ DOMAIN m_mods = DOMAIN ModNames
        /\ \A k \in DOMAIN m_mods : m_mods[k] = k /\ k \in 1 .. Len(ModNames)
    BY ModNamesType DEF Init
  <1>6. \A k \in DOMAIN m_mods : k \in Instances
    <2>1. Mods
      BY LoopInvInit DEF LoopInv
    <2> QED
      BY <1>5, <2>1, ElementOfSeq, LenProperties DEF Mods
  <1>7. \A k \in DOMAIN m_mods : name[m_mods[k]] = ModNames[k]
    BY <1>5, <1>6, ModNamesType DEF Init
  <1>8. OneEach
    BY <1>5, <1>7, ModNamesType DEF OneEach
  <1>9. \A i \in Instances : stage[i] \notin {"started", "closed"}
    BY DEF Init
  <1>10. RunningListed /\ Quiet
    BY <1>9 DEF RunningListed, Quiet
  <1>11. Entering
    BY <1>0, <1>3 DEF Entering
  <1> QED
    BY <1>4, <1>8, <1>10, <1>11 DEF Lives, ModsInOrder

LEMMA LivesNext == TypesInv /\ SyncInv /\ ShallowStacks /\ LivesInv /\ [Next]_vars => LivesInv'
  <1> SUFFICES ASSUME TypesInv, SyncInv, ShallowStacks, LivesInv, [Next]_vars, ~overwritten'
               PROVE  Lives'
    BY DEF LivesInv
  <1>1. ~overwritten
    <2>1. overwritten => overwritten'
      <3>1. overwritten' = overwritten \/ StoreIdle
        BY NextKinds, StepIsLocal, AgendaLeavesSync
           DEF TypesInv, LoopStep, WatcherStep, StartLoop, Fetch, RunEvent, EndBatch, Input, Answer, Awake, Notice,
               FallAsleep, BeginSection, EndSection, OutsideAsk, CheckStop, GameCallback, AllButTaken, syncVars
      <3> QED
        BY <3>1 DEF StoreIdle
    <2> QED
      BY <2>1
  <1>2. ModsInOrder(Loop) /\ ModsInOrder(Watcher) /\ Entering /\ Quiet
    BY <1>1 DEF LivesInv, Lives
  <1>3. InOrder(Loop) /\ InOrder(Watcher)
    BY <1>2 DEF ModsInOrder
  <1>4. ModsInOrder(Loop)' /\ ModsInOrder(Watcher)'
    BY <1>1, <1>2, ModsNext
  <1>5. Entering'
    BY <1>1, <1>2, EnteringNext
  <1>6. Quiet'
    BY <1>1, <1>2, <1>3, QuietNext
  <1> QED
    BY <1>4, <1>5, <1>6 DEF Lives

LEMMA AlwaysLives == Spec => []LivesInv
  <1>1. Init => TypesInv /\ SyncInv /\ ShallowStacks /\ LivesInv
    BY TypesInvInit, SyncInvInit, ShallowInit, LivesInit DEF LivesInv
  <1>2. TypesInv /\ SyncInv /\ ShallowStacks /\ LivesInv /\ [Next]_vars
            => (TypesInv /\ SyncInv /\ ShallowStacks /\ LivesInv)'
    BY TypesInvNext, SyncInvNext, ShallowNext, LivesNext
  <1> QED
    BY <1>1, <1>2, PTL DEF Spec

\* When a Lua state is closed its async thread is gone and no callback of it is
\* running, but where the mutex that LuaMod::uninstall takes cannot help: the
\* loop thread had a request executed inside Lua code, or was given the
\* hot-reload key with a key bind (UE4SSProgram.cpp queue_reinstall_mod); the
\* game thread calls it without the mutex, from process_simple_actions or as
\* the post callback of a script hook; or the watcher ran beside the loop.
THEOREM StatesCloseQuietly == Spec => []ClosedStateIsQuiet
  <1>1. LivesInv => ClosedStateIsQuiet
    <2> SUFFICES ASSUME Quiet, NEW i \in Instances, stage[i] = "closed",
                        NEW t \in Threads, InsideOf(t, i)
                 PROVE  t = Loop /\ inlined
      BY DEF LivesInv, Lives, Quiet, ClosedStateIsQuiet
    <2>1. i \in LockedIn(t)
      BY DEF LockedIn
    <2> QED
      BY <2>1 DEF Quiet
  <1> QED
    BY <1>1, AlwaysLives, PTL

\* However restarts, uninstalls, starts by path, reloads and scans of the mods
\* directory are ordered, no two instances of one mod run, and a running one
\* is in m_mods, unless the watcher ran beside the loop (queue_reinstall_mod,
\* queue_start_lua_mod_by_path, start_mod).
THEOREM OneOfEachRuns == Spec => []OneInstanceRuns
  <1>1. LivesInv => OneInstanceRuns
    <2> SUFFICES ASSUME Lives,
                        NEW i \in Instances, NEW j \in Instances, stage[i] = "started", stage[j] = "started"
                 PROVE  (name[i] = name[j] => i = j) /\ i \in ToSet(m_mods)
      BY DEF LivesInv, OneInstanceRuns
    <2>1. OneEach /\ i \in ToSet(m_mods) /\ j \in ToSet(m_mods)
      BY DEF Lives, ModsInOrder, RunningListed
    <2>2. PICK k \in DOMAIN m_mods : i = m_mods[k]
      BY <2>1 DEF ToSet
    <2>3. PICK l \in DOMAIN m_mods : j = m_mods[l]
      BY <2>1 DEF ToSet
    <2> QED
      BY <2>1, <2>2, <2>3 DEF OneEach
  <1> QED
    BY <1>1, AlwaysLives, PTL
=============================================================================
