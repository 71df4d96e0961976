--------------------------- MODULE ScriptHooksProofs ---------------------------
(***************************************************************************)
(* Proofs about the hooks of a function, for any number of mods, hooks and *)
(* nested calls: the types, that a callback which would be called has its  *)
(* data, what becomes of the hooks a call owes a callback or a removal,    *)
(* and who may erase the element under an iterator.                        *)
(***************************************************************************)
EXTENDS ScriptHooks, SequenceTheorems, NaturalsInduction, WellFoundedInduction, TLAPS

-----------------------------------------------------------------------------
(* The operators.                                                            *)

\* A set of numbers that is not empty has a least element.
LEMMA LeastNat ==
  ASSUME NEW T \in SUBSET Nat, T # {}
  PROVE  \E x \in T : \A y \in T : x <= y
  <1>1. PICK x \in T : \A y \in T : ~ (<<y, x>> \in OpToRel(<, Nat))
    <2> DEFINE R == OpToRel(<, Nat)
    <2>1. IsWellFoundedOn(R, Nat)
      BY NatLessThanWellFounded
    <2> HIDE DEF R
    <2>2. \E x \in T : \A y \in T : ~ (<<y, x>> \in R)
      BY <2>1, WFMin
    <2> QED
      BY <2>2 DEF R
  <1>2. \A y \in T : ~(y < x)
    BY <1>1 DEF OpToRel
  <1> QED
    BY <1>2

\* begin() of a map is its least id, and end() only if the map is empty.
LEMMA FirstProperties ==
  ASSUME NEW s \in SUBSET (Nat \ {0})
  PROVE  /\ First(s) \in Nat
         /\ \A h \in s : First(s) # Nothing /\ First(s) <= h
         /\ First(s) # Nothing => First(s) \in s
  <1>1. CASE s = {}
    BY <1>1 DEF First, Nothing
  <1>2. CASE s # {}
    <2>1. \E x \in s : \A y \in s : x <= y
      BY <1>2, LeastNat
    <2>2. First(s) \in s /\ \A h \in s : First(s) <= h
      BY <1>2, <2>1 DEF First
    <2> QED
      BY <2>2 DEF Nothing
  <1> QED BY <1>1, <1>2

\* The next element of a map is passed over by no other.
LEMMA AfterProperties ==
  ASSUME NEW s \in SUBSET (Nat \ {0}), NEW h \in Nat
  PROVE  /\ After(s, h) \in Nat
         /\ \A g \in s : g > h => After(s, h) # Nothing /\ After(s, h) <= g
         /\ After(s, h) # Nothing => After(s, h) > h
  <1> DEFINE later == {g \in s : g > h}
  <1>1. later \in SUBSET (Nat \ {0})
    OBVIOUS
  <1>2. /\ First(later) \in Nat
        /\ \A g \in later : First(later) # Nothing /\ First(later) <= g
        /\ First(later) # Nothing => First(later) \in later
    BY <1>1, FirstProperties
  <1> QED BY <1>2 DEF After

-----------------------------------------------------------------------------
(* The calls on the stack.                                                   *)

FrameRecord ==
    [stage : Kinds \cup {"original"}, hook : Nat,
     at : {"look", "entered", "lua", "returned", "native"},
     due : SUBSET Nat, ran : SUBSET Nat, visited : SUBSET Nat]

\* A call that made another one is in Lua or in the function.
FramesOK ==
    /\ frames \in Seq(FrameRecord)
    /\ \A k \in DOMAIN frames : k < Len(frames) => frames[k].at \in {"lua", "native"}

LEMMA TopIsFrame ==
  ASSUME FramesOK, frames # <<>>
  PROVE  /\ Len(frames) \in DOMAIN frames /\ Len(frames) \in Nat
         /\ Top \in FrameRecord /\ Top = frames[Len(frames)]
         /\ DOMAIN frames = 1 .. Len(frames)
  BY EmptySeq, LenProperties, ElementOfSeq DEF FramesOK, Top

LEMMA TopChanged ==
  ASSUME FramesOK, frames # <<>>, NEW f \in FrameRecord, SetTop(f)
  PROVE  /\ FramesOK'
         /\ Len(frames') = Len(frames) /\ DOMAIN frames' = DOMAIN frames
         /\ frames'[Len(frames)] = f
         /\ \A k \in DOMAIN frames : k # Len(frames) => frames'[k] = frames[k]
         /\ frames' # <<>> /\ Top' = f
  <1>1. frames' = [frames EXCEPT ![Len(frames)] = f]
    BY DEF SetTop, ReplaceAt
  <1>2. Len(frames) \in 1 .. Len(frames) /\ DOMAIN frames = 1 .. Len(frames)
    BY TopIsFrame
  <1>3. frames' \in Seq(FrameRecord) /\ Len(frames') = Len(frames)
    BY <1>1, <1>2, ExceptSeq DEF FramesOK
  <1>4. /\ DOMAIN frames' = DOMAIN frames
        /\ frames'[Len(frames)] = f
        /\ \A k \in DOMAIN frames : k # Len(frames) => frames'[k] = frames[k]
    BY <1>1, <1>2
  <1>5. FramesOK'
    BY <1>3, <1>4 DEF FramesOK
  <1>6. frames' # <<>> /\ Top' = f
    BY <1>2, <1>3, <1>4, EmptySeq DEF Top
  <1> QED BY <1>3, <1>4, <1>5, <1>6

LEMMA TopPopped ==
  ASSUME FramesOK, frames # <<>>, frames' = Front(frames)
  PROVE  /\ FramesOK'
         /\ \A k \in DOMAIN frames' : k \in DOMAIN frames /\ frames'[k] = frames[k]
         /\ Len(frames) \notin DOMAIN frames'
         /\ frames' # <<>> => Top'.at \in {"lua", "native"}
  <1> DEFINE n == Len(frames) - 1
  <1>1. Len(frames) \in Nat \ {0} /\ DOMAIN frames = 1 .. Len(frames)
    BY TopIsFrame
  <1>2. \A k \in 1 .. n : frames[k] \in FrameRecord
    BY <1>1, ElementOfSeq DEF FramesOK
  <1>3. /\ frames' \in Seq(FrameRecord) /\ Len(frames') = n
        /\ \A k \in 1 .. n : frames'[k] = frames[k]
    <2>1. 1 \in Int /\ n \in Int
      BY <1>1
    <2>2. /\ SubSeq(frames, 1, n) \in Seq(FrameRecord)
          /\ Len(SubSeq(frames, 1, n)) = IF 1 <= n THEN n - 1 + 1 ELSE 0
          /\ \A k \in 1 .. n - 1 + 1 : SubSeq(frames, 1, n)[k] = frames[1 + k - 1]
      BY <1>2, <2>1, SubSeqProperties
    <2>3. n - 1 + 1 = n /\ \A k \in 1 .. n : 1 + k - 1 = k
      BY <1>1
    <2> QED BY <1>1, <2>2, <2>3 DEF Front
  <1>4. DOMAIN frames' = 1 .. n
    BY <1>3, LenProperties
  <1>5. \A k \in DOMAIN frames' : frames'[k].at \in {"lua", "native"}
    BY <1>1, <1>3, <1>4 DEF FramesOK
  <1>6. FramesOK'
    BY <1>3, <1>5 DEF FramesOK
  <1>7. frames' # <<>> => Top'.at \in {"lua", "native"}
    BY <1>3, <1>4, <1>5, EmptySeq DEF Top
  <1> QED BY <1>1, <1>3, <1>4, <1>6, <1>7

-----------------------------------------------------------------------------
(* Types.                                                                    *)

\* What the maps, the data and the uninstall in progress are.
MapsOK ==
    /\ open \subseteq Mods
    /\ owner \in Seq(Mods) /\ Len(owner) <= MaxHooks
    /\ data \cup scheduled \subseteq DOMAIN owner
    /\ entries \in [Kinds -> SUBSET DOMAIN owner]
    /\ requested \in [Kinds -> SUBSET DOMAIN owner]
    /\ \A k \in Kinds : requested[k] \subseteq entries[k]
    /\ mid \in BOOLEAN
    /\ leaving \in Mods \cup {NoMod}
    /\ toRemove \subseteq Kinds \X HooksOf(leaving)
    /\ flagRead \in {"unread", "mid", "idle"}

Types == MapsOK /\ FramesOK

LEMMA TypesGiveTypeOK ==
  ASSUME Types
  PROVE  TypeOK
  <1>1. \A k \in DOMAIN frames : frames[k] \in FrameRecord
    BY LenProperties, ElementOfSeq DEF Types, FramesOK
  <1>2. toRemove \subseteq Kinds \X data
    BY DEF Types, MapsOK, HooksOf
  <1>3. \A k \in DOMAIN frames :
          /\ frames[k].stage \in Kinds \cup {"original"}
          /\ frames[k].at \in {"look", "entered", "lua", "returned", "native"}
          /\ k < Len(frames) => frames[k].at \in {"lua", "native"}
    BY <1>1 DEF Types, FramesOK, FrameRecord
  <1> QED BY <1>2, <1>3, Zenon DEF Types, MapsOK, TypeOK

\* Ids are positive; no hook belongs to NoMod.
LEMMA IdTypes ==
  ASSUME MapsOK
  PROVE  /\ DOMAIN owner \subseteq Nat \ {0}
         /\ \A h \in DOMAIN owner : owner[h] \in Mods
         /\ HooksOf(NoMod) = {}
         /\ Len(owner) \in Nat /\ DOMAIN owner = 1 .. Len(owner)
         /\ leaving = NoMod => toRemove = {}
  <1>1. Len(owner) \in Nat /\ DOMAIN owner = 1 .. Len(owner)
    BY LenProperties DEF MapsOK
  <1>2. \A h \in DOMAIN owner : owner[h] \in Mods
    BY <1>1, ElementOfSeq DEF MapsOK
  <1>3. HooksOf(NoMod) = {}
    BY <1>2, HookConstants DEF HooksOf, MapsOK
  <1>4. DOMAIN owner \subseteq Nat \ {0}
    BY <1>1
  <1>5. leaving = NoMod => toRemove = {}
    BY <1>3 DEF MapsOK
  <1> QED BY <1>1, <1>2, <1>3, <1>4, <1>5

LEMMA EntryTypes ==
  ASSUME MapsOK, NEW k \in Kinds
  PROVE  entries[k] \in SUBSET (Nat \ {0})
  BY IdTypes DEF MapsOK

\* In the initial state there are no hooks and no calls (Init).
LEMMA TypesInit == Init => Types
  <1> SUFFICES ASSUME Init PROVE Types
    OBVIOUS
  <1>1. <<>> \in Seq(Mods) /\ <<>> \in Seq(FrameRecord) /\ Len(<<>>) = 0 /\ DOMAIN <<>> = {}
    BY EmptySeq
  <1>2. MapsOK
    <2>1. Len(owner) <= MaxHooks /\ owner \in Seq(Mods)
      BY <1>1, HookConstants DEF Init
    <2> QED BY <2>1 DEF Init, MapsOK
  <1>3. FramesOK
    BY <1>1 DEF Init, FramesOK
  <1> QED BY <1>2, <1>3 DEF Types

\* A new hook gets the next id in both maps.
LEMMA RegisterMaps ==
  ASSUME MapsOK, NEW m \in Mods, RegisterHook(m)
  PROVE  /\ MapsOK'
         /\ DOMAIN owner' = DOMAIN owner \cup {Len(owner) + 1}
         /\ Len(owner) + 1 \notin DOMAIN owner
         /\ \A h \in DOMAIN owner : owner'[h] = owner[h]
         /\ owner'[Len(owner) + 1] = m
  <1> DEFINE n == Len(owner) + 1
  <1>1. n \in Hooks /\ owner' = Append(owner, m) /\ leaving = NoMod
    BY DEF RegisterHook, MayEnter
  <1>2. Len(owner) \in Nat /\ DOMAIN owner = 1 .. Len(owner)
    BY IdTypes
  <1>3. /\ owner' \in Seq(Mods) /\ Len(owner') = n
        /\ \A h \in 1 .. Len(owner) : owner'[h] = owner[h]
        /\ owner'[n] = m
    BY <1>1, AppendProperties DEF MapsOK
  <1>4. DOMAIN owner' = DOMAIN owner \cup {n} /\ n \notin DOMAIN owner
    <2>1. DOMAIN owner' = 1 .. n
      BY <1>3, LenProperties
    <2> QED BY <1>2, <2>1
  <1>5. Len(owner') <= MaxHooks
    BY <1>1, <1>2, <1>3, HookConstants DEF Hooks
  <1>6. /\ data' = data \cup {n}
        /\ entries' = [k \in Kinds |-> entries[k] \cup {n}]
        /\ UNCHANGED <<open, scheduled, requested, mid, leaving, toRemove, flagRead>>
    BY DEF RegisterHook, loopVars
  <1> HIDE DEF n
  <1>7. /\ entries' \in [Kinds -> SUBSET DOMAIN owner']
        /\ requested' \in [Kinds -> SUBSET DOMAIN owner']
        /\ \A k \in Kinds : requested'[k] \subseteq entries'[k]
        /\ data' \cup scheduled' \subseteq DOMAIN owner'
    BY <1>4, <1>6 DEF MapsOK
  <1>8. toRemove' = {}
    BY <1>1, <1>6, IdTypes
  <1>9. MapsOK'
    BY <1>3, <1>5, <1>6, <1>7, <1>8 DEF MapsOK
  <1> QED BY <1>2, <1>3, <1>4, <1>9 DEF n

\* RemoveCallback for both ids, and the data, while no mod is uninstalled.
LEMMA RemoveMaps ==
  ASSUME MapsOK, leaving = NoMod, NEW h, RemoveHook(h),
         UNCHANGED <<open, owner, scheduled, mid, leaving, toRemove, flagRead>>
  PROVE  MapsOK'
  <1>1. /\ entries' \in [Kinds -> SUBSET DOMAIN owner]
        /\ requested' \in [Kinds -> SUBSET DOMAIN owner]
        /\ \A k \in Kinds : requested'[k] \subseteq entries'[k]
    <2>1. CASE mid
      BY <2>1 DEF RemoveHook, MapsOK
    <2>2. CASE ~mid
      BY <2>2 DEF RemoveHook, MapsOK
    <2> QED BY <2>1, <2>2
  <1>2. data' \subseteq data
    BY DEF RemoveHook
  <1>3. toRemove' = {}
    BY IdTypes
  <1> QED BY <1>1, <1>2, <1>3 DEF MapsOK

\* An iteration erases marked entries.
LEMMA SweepMaps ==
  ASSUME MapsOK, NEW k \in Kinds, Look(k) \/ Advance(k)
  PROVE  MapsOK'
  <1>1. \/ UNCHANGED mapVars
        \/ \E gone : /\ entries' = [entries EXCEPT ![k] = @ \ gone]
                     /\ requested' = [requested EXCEPT ![k] = @ \ gone]
    BY DEF Look, Advance
  <1>2. /\ entries' \in [Kinds -> SUBSET DOMAIN owner]
        /\ requested' \in [Kinds -> SUBSET DOMAIN owner]
        /\ \A j \in Kinds : requested'[j] \subseteq entries'[j]
    <2>1. CASE UNCHANGED mapVars
      BY <2>1 DEF MapsOK, mapVars
    <2>2. ASSUME NEW gone, entries' = [entries EXCEPT ![k] = @ \ gone],
                 requested' = [requested EXCEPT ![k] = @ \ gone]
          PROVE  /\ entries' \in [Kinds -> SUBSET DOMAIN owner]
                 /\ requested' \in [Kinds -> SUBSET DOMAIN owner]
                 /\ \A j \in Kinds : requested'[j] \subseteq entries'[j]
      BY <2>2 DEF MapsOK
    <2> QED BY <1>1, <2>1, <2>2
  <1>3. UNCHANGED <<open, owner, data, scheduled, mid, leaving, toRemove, flagRead>>
    BY DEF Look, Advance, luaVars, loopVars
  <1> QED BY <1>2, <1>3 DEF MapsOK, HooksOf

\* The steps of an uninstall.
LEMMA UninstallMaps ==
  ASSUME MapsOK,
         ReadFlag \/ RemoveEntry \/ EndUninstall \/ \E m \in Mods : BeginUninstall(m)
  PROVE  MapsOK'
  <1> USE DEF luaVars, mapVars
  <1>1. CASE ReadFlag
    BY <1>1, Zenon DEF ReadFlag, MapsOK, HooksOf
  <1>2. CASE RemoveEntry
    <2>1. PICK e \in toRemove :
            /\ IF flagRead = "mid"
               THEN /\ requested' = [requested EXCEPT ![e[1]] = @ \cup ({e[2]} \cap entries[e[1]])]
                    /\ UNCHANGED entries
               ELSE /\ entries' = [entries EXCEPT ![e[1]] = @ \ {e[2]}]
                    /\ requested' = [requested EXCEPT ![e[1]] = @ \ {e[2]}]
            /\ toRemove' = toRemove \ {e}
      BY <1>2 DEF RemoveEntry
    <2>2. /\ entries' \in [Kinds -> SUBSET DOMAIN owner]
          /\ requested' \in [Kinds -> SUBSET DOMAIN owner]
          /\ \A j \in Kinds : requested'[j] \subseteq entries'[j]
      <3>1. CASE flagRead = "mid"
        BY <2>1, <3>1 DEF MapsOK
      <3>2. CASE flagRead # "mid"
        BY <2>1, <3>2 DEF MapsOK
      <3> QED BY <3>1, <3>2
    <2>3. flagRead' = "unread" /\ UNCHANGED <<open, owner, data, scheduled, mid, leaving>>
      BY <1>2 DEF RemoveEntry
    <2> QED BY <2>1, <2>2, <2>3 DEF MapsOK, HooksOf
  <1>3. CASE EndUninstall
    BY <1>3 DEF EndUninstall, MapsOK
  <1>4. ASSUME NEW m \in Mods, BeginUninstall(m)
        PROVE  MapsOK'
    <2>1. HooksOf(m) \subseteq data /\ HooksOf(m)' = HooksOf(m)
      BY <1>4 DEF BeginUninstall, HooksOf
    <2>2. /\ leaving' = m /\ scheduled' = scheduled \cup HooksOf(m)
          /\ toRemove' = Kinds \X HooksOf(m)
          /\ UNCHANGED <<open, owner, data, entries, requested, mid, flagRead>>
      BY <1>4 DEF BeginUninstall
    <2> QED BY <2>1, <2>2 DEF MapsOK
  <1> QED BY <1>1, <1>2, <1>3, <1>4

\* The steps that change neither the maps nor the data.
LEMMA OtherMaps ==
  ASSUME MapsOK,
         \/ Call \/ EnterPre \/ ReturnPre \/ BeginOriginal \/ OriginalThrows \/ BeginPost
         \/ EndCall \/ UNCHANGED vars \/ \E m \in Mods, h \in Hooks : UnregisterHook(m, h)
  PROVE  MapsOK'
  <1>1. /\ UNCHANGED <<open, owner, data, entries, requested, leaving, toRemove, flagRead>>
        /\ mid' \in BOOLEAN
    BY DEF Call, EnterPre, ReturnPre, BeginOriginal, OriginalThrows, BeginPost, EndCall,
           UnregisterHook, vars, luaVars, mapVars, loopVars, MapsOK
  <1>2. scheduled' \subseteq DOMAIN owner
    BY DEF Call, EnterPre, ReturnPre, BeginOriginal, OriginalThrows, BeginPost, EndCall,
           UnregisterHook, vars, luaVars, mapVars, loopVars, MapsOK
  <1> QED BY <1>1, <1>2 DEF MapsOK, HooksOf

LEMMA MapsNext == MapsOK /\ [Next]_vars => MapsOK'
  <1> SUFFICES ASSUME MapsOK, [Next]_vars PROVE MapsOK'
    OBVIOUS
  <1>1. CASE EnterPost \/ ReturnPost
    <2>1. /\ leaving = NoMod
          /\ UNCHANGED <<open, owner, scheduled, mid, leaving, toRemove, flagRead>>
          /\ RemoveHook(Top.hook) \/ UNCHANGED <<data, entries, requested>>
      BY <1>1 DEF EnterPost, ReturnPost, luaVars, mapVars, loopVars
    <2>2. CASE RemoveHook(Top.hook)
      BY <2>1, <2>2, RemoveMaps
    <2>3. CASE UNCHANGED <<data, entries, requested>>
      BY <2>1, <2>3 DEF MapsOK, HooksOf
    <2> QED BY <2>1, <2>2, <2>3
  <1> QED BY <1>1, RegisterMaps, SweepMaps, UninstallMaps, OtherMaps DEF Next

-----------------------------------------------------------------------------
(* What a step does to the stack of calls.                                   *)

\* The steps of the call on top of the stack, and what they make of it.
TopStep ==
    \/ \E k \in Kinds : Look(k) \/ Advance(k)
    \/ EnterPre \/ ReturnPre \/ BeginOriginal \/ BeginPost \/ EnterPost \/ ReturnPost

\* A call goes on from a record of a call to a record of a call.
LEMMA TopSteps ==
  ASSUME Types, TopStep
  PROVE  frames # <<>> /\ \E f \in FrameRecord : SetTop(f)
  <1> USE DEF Kinds
  <1>1. frames # <<>>
    BY DEF TopStep, Look, Advance, EnterPre, ReturnPre, BeginOriginal, BeginPost, EnterPost,
           ReturnPost, At
  <1>2. Top \in FrameRecord
    BY <1>1, TopIsFrame DEF Types
  <1>3. Top.hook \in Nat /\ scheduled \cap data \in SUBSET Nat
    BY <1>2, IdTypes DEF FrameRecord, Types, MapsOK
  <1>4. ASSUME NEW k \in Kinds, Look(k) \/ Advance(k)
        PROVE  \E f \in FrameRecord : SetTop(f)
    <2> DEFINE next == After(entries[k], Top.hook)
    <2>1. next \in Nat
      BY <1>3, EntryTypes, AfterProperties DEF Types
    <2>2. \/ SetTop([Top EXCEPT !.hook = next])
          \/ SetTop([Top EXCEPT !.at = "entered"])
          \/ SetTop([Top EXCEPT !.hook = next, !.at = "look"])
      BY <1>4 DEF Look, Advance
    <2> HIDE DEF next
    <2>3. /\ [Top EXCEPT !.hook = next] \in FrameRecord
          /\ [Top EXCEPT !.at = "entered"] \in FrameRecord
          /\ [Top EXCEPT !.hook = next, !.at = "look"] \in FrameRecord
      BY <1>2, <2>1 DEF FrameRecord
    <2> QED BY <2>2, <2>3
  <1>5. CASE EnterPre
    <2> DEFINE entered == [Top EXCEPT !.at = "lua", !.ran = @ \cup {Top.hook}]
    <2>1. [Top EXCEPT !.at = "returned"] \in FrameRecord /\ entered \in FrameRecord
      BY <1>2, <1>3 DEF FrameRecord
    <2>2. SetTop([Top EXCEPT !.at = "returned"]) \/ SetTop(entered)
      BY <1>5 DEF EnterPre
    <2> QED BY <1>1, <2>1, <2>2
  <1>6. CASE ReturnPre \/ ReturnPost
    <2>1. [Top EXCEPT !.at = "returned"] \in FrameRecord
      BY <1>2 DEF FrameRecord
    <2>2. SetTop([Top EXCEPT !.at = "returned"])
      BY <1>6 DEF ReturnPre, ReturnPost
    <2> QED BY <1>1, <2>1, <2>2
  <1>7. CASE BeginOriginal
    <2> DEFINE called == [Top EXCEPT !.stage = "original", !.hook = Nothing, !.at = "native"]
    <2>1. called \in FrameRecord
      BY <1>2 DEF FrameRecord, Nothing
    <2>2. SetTop(called)
      BY <1>7 DEF BeginOriginal
    <2> QED BY <1>1, <2>1, <2>2
  <1>8. CASE BeginPost
    <2> DEFINE first == First(entries["post"])
               began == [Top EXCEPT !.stage = "post", !.hook = first, !.at = "look"]
    <2>1. first \in Nat
      BY EntryTypes, FirstProperties DEF Types
    <2>2. SetTop([began EXCEPT !.due = scheduled \cap data])
      BY <1>8 DEF BeginPost, Begin
    <2> HIDE DEF first
    <2>3. began \in FrameRecord
      BY <1>2, <2>1 DEF FrameRecord
    <2>4. [began EXCEPT !.due = scheduled \cap data] \in FrameRecord
      BY <1>3, <2>3 DEF FrameRecord
    <2> QED BY <1>1, <2>2, <2>4
  <1>9. CASE EnterPost
    <2> DEFINE entered == [Top EXCEPT !.at = "lua", !.visited = @ \cup {Top.hook}]
    <2>1. [Top EXCEPT !.at = "returned"] \in FrameRecord /\ entered \in FrameRecord
      BY <1>2, <1>3 DEF FrameRecord
    <2>2. SetTop([Top EXCEPT !.at = "returned"]) \/ SetTop(entered)
      BY <1>9 DEF EnterPost
    <2> QED BY <1>1, <2>1, <2>2
  <1> QED BY <1>1, <1>4, <1>5, <1>6, <1>7, <1>8, <1>9 DEF TopStep

\* A nested call is on top of a call that is in Lua or in the function.
LEMMA CallPushed ==
  ASSUME Types, Call
  PROVE  /\ FramesOK'
         /\ Top' = [stage |-> "pre", hook |-> First(entries["pre"]), at |-> "look",
                    due |-> {}, ran |-> {}, visited |-> {}]
         /\ \A k \in DOMAIN frames : k \in DOMAIN frames' /\ frames'[k] = frames[k]
         /\ \A k \in DOMAIN frames' : k \in DOMAIN frames \/ frames'[k] = Top'
  <1> DEFINE new == [stage |-> "pre", hook |-> First(entries["pre"]), at |-> "look",
                     due |-> {}, ran |-> {}, visited |-> {}]
  <1>1. frames' = Append(frames, new) /\ GameIsFree
    BY DEF Call
  <1>2. new \in FrameRecord
    <2>1. First(entries["pre"]) \in Nat
      BY EntryTypes, FirstProperties DEF Types, Kinds
    <2> QED BY <2>1 DEF FrameRecord, Kinds
  <1> HIDE DEF new
  <1>3. frames \in Seq(FrameRecord) /\ Len(frames) \in Nat /\ DOMAIN frames = 1 .. Len(frames)
    BY LenProperties DEF Types, FramesOK
  <1>4. /\ frames' \in Seq(FrameRecord) /\ Len(frames') = Len(frames) + 1
        /\ \A k \in 1 .. Len(frames) : frames'[k] = frames[k]
        /\ frames'[Len(frames) + 1] = new
    BY <1>1, <1>2, <1>3, AppendProperties
  <1>5. DOMAIN frames' = 1 .. Len(frames) + 1
    BY <1>4, LenProperties
  <1>6. \A k \in DOMAIN frames' : k < Len(frames') => frames'[k].at \in {"lua", "native"}
    <2> SUFFICES ASSUME NEW k \in DOMAIN frames', k < Len(frames')
                 PROVE  frames'[k].at \in {"lua", "native"}
      OBVIOUS
    <2>1. k \in 1 .. Len(frames) /\ frames'[k] = frames[k]
      BY <1>3, <1>4, <1>5
    <2>2. CASE k = Len(frames)
      BY <1>1, <1>3, <2>1, <2>2, EmptySeq DEF GameIsFree, Top
    <2>3. CASE k < Len(frames)
      BY <1>3, <2>1, <2>3 DEF Types, FramesOK
    <2> QED BY <1>3, <2>1, <2>2, <2>3
  <1>7. Top' = new
    BY <1>4 DEF Top
  <1>8. \A k \in DOMAIN frames' : k \in DOMAIN frames \/ frames'[k] = Top'
    BY <1>3, <1>4, <1>5, <1>7
  <1>9. \A k \in DOMAIN frames : k \in DOMAIN frames' /\ frames'[k] = frames[k]
    BY <1>3, <1>4, <1>5
  <1> QED BY <1>4, <1>6, <1>7, <1>8, <1>9 DEF FramesOK, new

\* Every step is one of the call on top, pops or pushes a call, or leaves the
\* calls alone.
LEMMA StepKinds ==
  ASSUME [Next]_vars
  PROVE  \/ TopStep
         \/ Call
         \/ (OriginalThrows \/ EndCall) /\ frames # <<>> /\ frames' = Front(frames)
         \/ UNCHANGED frames
  <1>1. \/ \E m \in Mods : RegisterHook(m) \/ (\E h \in Hooks : UnregisterHook(m, h)) \/ BeginUninstall(m)
        \/ ReadFlag \/ RemoveEntry \/ EndUninstall \/ UNCHANGED vars
        => UNCHANGED frames
    BY DEF RegisterHook, UnregisterHook, BeginUninstall, ReadFlag, RemoveEntry, EndUninstall, vars
  <1>2. OriginalThrows \/ EndCall => frames # <<>> /\ frames' = Front(frames)
    BY DEF OriginalThrows, EndCall, At
  <1> QED BY <1>1, <1>2 DEF Next, TopStep

LEMMA FramesNext == Types /\ [Next]_vars => FramesOK'
  <1> SUFFICES ASSUME Types, [Next]_vars PROVE FramesOK'
    OBVIOUS
  <1>1. CASE TopStep
    BY <1>1, TopSteps, TopChanged DEF Types
  <1>2. CASE Call
    BY <1>2, CallPushed
  <1>3. CASE frames # <<>> /\ frames' = Front(frames)
    BY <1>3, TopPopped DEF Types
  <1>4. CASE UNCHANGED frames
    BY <1>4 DEF Types, FramesOK
  <1> QED BY <1>1, <1>2, <1>3, <1>4, StepKinds

LEMMA TypesNext == Types /\ [Next]_vars => Types'
  BY MapsNext, FramesNext DEF Types

LEMMA AlwaysTypes == Spec => []Types
  BY TypesInit, TypesNext, PTL DEF Spec

\* Every variable has its type; a call that made another one is in Lua or in the
\* function, and what an uninstall has yet to remove belongs to hooks with data.
THEOREM TypeCorrect == Spec => []TypeOK
  BY AlwaysTypes, TypesGiveTypeOK, PTL

-----------------------------------------------------------------------------
(* Iterators.                                                                *)

IteratorStep ==
    \A k \in DOMAIN frames :
        LET f == frames[k]
        IN  (/\ f.stage \in Kinds /\ f.hook \in entries[f.stage]
             /\ k \in DOMAIN frames' /\ frames'[k] = f
             /\ f.hook \notin entries'[f.stage])
               => k < Len(frames) \/ ~mid \/ flagRead = "idle"

\* The loops that fire the callbacks erase an entry only under their own
\* iterator, which moves on; RemoveCallback erases one only when it found the
\* flag down.
LEMMA IteratorStepHolds == Types /\ [Next]_vars => IteratorStep
  <1> SUFFICES ASSUME Types, [Next]_vars,
                      NEW k \in DOMAIN frames,
                      frames[k].stage \in Kinds, frames[k].hook \in entries[frames[k].stage],
                      k \in DOMAIN frames', frames'[k] = frames[k],
                      frames[k].hook \notin entries'[frames[k].stage],
                      ~(k < Len(frames)), mid, flagRead # "idle"
               PROVE  FALSE
    BY DEF IteratorStep
  <1>1. frames # <<>> /\ k = Len(frames) /\ frames[k] = Top /\ Top \in FrameRecord
    <2>1. DOMAIN frames = 1 .. Len(frames) /\ Len(frames) \in Nat /\ frames # <<>>
      BY LenProperties, EmptySeq DEF Types, FramesOK
    <2> QED BY <2>1, TopIsFrame DEF Types
  <1>2. ~UNCHANGED entries
    OBVIOUS
  <1>3. ASSUME NEW j \in Kinds, Look(j)
        PROVE  FALSE
    <2> DEFINE next == After(entries[j], Top.hook)
    <2>1. Top.stage = j /\ Top.hook \in Nat
      BY <1>1, <1>3 DEF Look, At, FrameRecord
    <2>2. SetTop([Top EXCEPT !.hook = next])
      BY <1>2, <1>3 DEF Look, mapVars
    <2>3. next \in Nat /\ (next # Nothing => next > Top.hook)
      BY <2>1, EntryTypes, AfterProperties DEF Types
    <2> HIDE DEF next
    <2>4. [Top EXCEPT !.hook = next] \in FrameRecord
      BY <1>1, <2>3 DEF FrameRecord
    <2>5. frames'[k].hook = next
      BY <1>1, <2>2, <2>4, TopChanged DEF Types, FrameRecord
    <2>6. Top.hook \in Nat \ {0}
      BY <1>1, <2>1, EntryTypes DEF Types
    <2> QED BY <1>1, <2>3, <2>5, <2>6 DEF Nothing
  <1>4. ASSUME NEW j \in Kinds, Advance(j)
        PROVE  FALSE
    <2> DEFINE next == After(entries[j], Top.hook)
               moved == [Top EXCEPT !.hook = next, !.at = "look"]
    <2>1. Top.stage = j /\ Top.hook \in Nat /\ Top.at = "returned"
      BY <1>1, <1>4 DEF Advance, At, FrameRecord
    <2>2. SetTop(moved)
      BY <1>4 DEF Advance
    <2>3. next \in Nat
      BY <2>1, EntryTypes, AfterProperties DEF Types
    <2> HIDE DEF next
    <2>4. moved \in FrameRecord /\ moved.at = "look"
      BY <1>1, <2>3 DEF FrameRecord
    <2>5. frames'[k] = moved
      BY <1>1, <2>2, <2>4, TopChanged DEF Types
    <2> QED BY <1>1, <2>1, <2>4, <2>5
  <1>5. CASE EnterPost \/ ReturnPost
    BY <1>2, <1>5 DEF EnterPost, ReturnPost, RemoveHook, mapVars
  <1>6. CASE RemoveEntry
    BY <1>2, <1>6 DEF RemoveEntry, Types, MapsOK
  <1>7. CASE \E m \in Mods : RegisterHook(m)
    BY <1>7 DEF RegisterHook
  <1>8. CASE \/ \E m \in Mods : (\E h \in Hooks : UnregisterHook(m, h)) \/ BeginUninstall(m)
             \/ ReadFlag \/ EndUninstall \/ Call \/ EnterPre \/ ReturnPre \/ BeginOriginal
             \/ OriginalThrows \/ BeginPost \/ EndCall \/ UNCHANGED vars
    BY <1>2, <1>8 DEF UnregisterHook, BeginUninstall, ReadFlag, EndUninstall, Call, EnterPre,
           ReturnPre, BeginOriginal, OriginalThrows, BeginPost, EndCall, vars, mapVars
  <1> QED BY <1>3, <1>4, <1>5, <1>6, <1>7, <1>8 DEF Next

\* Whoever erases the element under an iterator of a call that stays where it
\* is: a nested call, a removal after a nested call has cleared bIsMidExecution,
\* or an uninstall that read the flag before it was set (RemoveCallback,
\* UnrealScriptFunctionHook).
THEOREM IteratorsAreKept == Spec => IteratorsStand
  <1>1. Spec => [][IteratorStep]_vars
    BY IteratorStepHolds, AlwaysTypes, PTL DEF Spec
  <1> QED BY <1>1 DEF IteratorsStand, IteratorStep

-----------------------------------------------------------------------------
(* A callback that would be called has its data.                             *)

\* While a mod is uninstalled, every unmarked entry of it is still to be
\* removed; so its data can go when none is left to be removed.
LeavingIsCovered ==
    leaving # NoMod =>
        \A k \in Kinds : \A h \in (entries[k] \ requested[k]) \cap HooksOf(leaving) :
            <<k, h>> \in toRemove

HookInv == EntriesHaveData /\ LeavingIsCovered

\* In the initial state there are no hooks (Init).
LEMMA HookInvInit == Init => HookInv
  BY DEF Init, HookInv, EntriesHaveData, LeavingIsCovered

\* RemoveCallback for both ids of a hook leaves no unmarked entry of it, and no
\* other entry becomes unmarked (remove_if_scheduled).
LEMMA RemoveHookUnlists ==
  ASSUME MapsOK, NEW h, RemoveHook(h)
  PROVE  \A k \in Kinds : entries'[k] \ requested'[k] = (entries[k] \ requested[k]) \ {h}
  <1>1. CASE mid
    BY <1>1 DEF RemoveHook, MapsOK
  <1>2. CASE ~mid
    BY <1>2 DEF RemoveHook, MapsOK
  <1> QED BY <1>1, <1>2

\* RegisterHook makes the data before the entries, under the mutex.
LEMMA RegisterHookPreserves ==
  ASSUME HookInv, NEW m \in Mods, RegisterHook(m)
  PROVE  HookInv'
  <1>1. leaving = NoMod /\ leaving' = NoMod
    BY DEF RegisterHook, MayEnter, loopVars
  <1>2. EntriesHaveData'
    BY DEF HookInv, EntriesHaveData, RegisterHook
  <1> QED BY <1>1, <1>2 DEF HookInv, LeavingIsCovered

\* An iteration erases only marked entries (FirePreCallbacks, FirePostCallbacks).
LEMMA SweepKeepsUnmarked ==
  ASSUME MapsOK, NEW k \in Kinds, Look(k) \/ Advance(k)
  PROVE  \A j \in Kinds : entries'[j] \ requested'[j] = entries[j] \ requested[j]
  <1>1. CASE Look(k)
    BY <1>1 DEF Look, MapsOK, mapVars
  <1>2. CASE Advance(k)
    BY <1>2 DEF Advance, MapsOK
  <1> QED BY <1>1, <1>2

LEMMA SweepPreserves ==
  ASSUME MapsOK, HookInv, NEW k \in Kinds, Look(k) \/ Advance(k)
  PROVE  HookInv'
  <1>1. UNCHANGED <<data, owner, leaving, toRemove>>
    BY DEF Look, Advance, luaVars, loopVars
  <1> QED BY <1>1, SweepKeepsUnmarked DEF HookInv, EntriesHaveData, LeavingIsCovered, HooksOf

\* The callback after the function removes its hook only while no mod is being
\* uninstalled (lua_unreal_script_function_hook_post).
LEMMA PostPreserves ==
  ASSUME MapsOK, HookInv, EnterPost \/ ReturnPost
  PROVE  HookInv'
  <1>1. leaving = NoMod /\ leaving' = NoMod
    BY DEF EnterPost, ReturnPost, loopVars
  <1>2. RemoveHook(Top.hook) \/ UNCHANGED <<data, mapVars>>
    BY DEF EnterPost, ReturnPost
  <1>3. CASE RemoveHook(Top.hook)
    <2>1. data' = data \ {Top.hook}
      BY <1>3 DEF RemoveHook
    <2> QED BY <1>1, <1>3, <2>1, RemoveHookUnlists DEF HookInv, EntriesHaveData, LeavingIsCovered
  <1>4. CASE UNCHANGED <<data, mapVars>>
    BY <1>1, <1>4 DEF mapVars, HookInv, EntriesHaveData, LeavingIsCovered
  <1> QED BY <1>2, <1>3, <1>4

\* What BeginUninstall puts in toRemove covers the hooks of the mod.
LEMMA BeginUninstallPreserves ==
  ASSUME HookInv, NEW m \in Mods, BeginUninstall(m)
  PROVE  HookInv'
  <1>1. /\ leaving' = m
        /\ toRemove' = Kinds \X HooksOf(m)
        /\ HooksOf(m)' = HooksOf(m)
        /\ UNCHANGED <<data, entries, requested>>
    BY DEF BeginUninstall, HooksOf, luaVars, mapVars
  <1> QED BY <1>1 DEF HookInv, EntriesHaveData, LeavingIsCovered

\* Marked or erased, an entry is not called any more, and it is the only one
\* that changes (RemoveCallback).
LEMMA EntryRemoved ==
  ASSUME MapsOK, RemoveEntry
  PROVE  \E e \in toRemove :
            /\ toRemove' = toRemove \ {e}
            /\ \A j \in Kinds : requested'[j] \subseteq requested[j] \cup ({e[2]} \cap entries[j])
            /\ \A j \in Kinds : entries'[j] \ requested'[j] =
                  (entries[j] \ requested[j]) \ (IF j = e[1] THEN {e[2]} ELSE {})
  <1>1. PICK e \in toRemove :
          /\ IF flagRead = "mid"
             THEN /\ requested' = [requested EXCEPT ![e[1]] = @ \cup ({e[2]} \cap entries[e[1]])]
                  /\ UNCHANGED entries
             ELSE /\ entries' = [entries EXCEPT ![e[1]] = @ \ {e[2]}]
                  /\ requested' = [requested EXCEPT ![e[1]] = @ \ {e[2]}]
          /\ toRemove' = toRemove \ {e}
    BY DEF RemoveEntry
  <1>2. /\ \A j \in Kinds : requested'[j] \subseteq requested[j] \cup ({e[2]} \cap entries[j])
        /\ \A j \in Kinds : entries'[j] \ requested'[j] =
              (entries[j] \ requested[j]) \ (IF j = e[1] THEN {e[2]} ELSE {})
    <2>1. CASE flagRead = "mid"
      BY <1>1, <2>1 DEF MapsOK
    <2>2. CASE flagRead # "mid"
      BY <1>1, <2>2 DEF MapsOK
    <2> QED BY <2>1, <2>2
  <1> QED BY <1>1, <1>2

LEMMA RemoveEntryPreserves ==
  ASSUME MapsOK, HookInv, RemoveEntry
  PROVE  HookInv'
  <1>1. PICK e \in toRemove :
          /\ toRemove' = toRemove \ {e}
          /\ \A j \in Kinds : entries'[j] \ requested'[j] =
                (entries[j] \ requested[j]) \ (IF j = e[1] THEN {e[2]} ELSE {})
    BY EntryRemoved
  <1>2. UNCHANGED <<data, owner, leaving>>
    BY DEF RemoveEntry, luaVars
  <1>3. EntriesHaveData'
    BY <1>1, <1>2 DEF HookInv, EntriesHaveData
  <1>4. LeavingIsCovered'
    <2> SUFFICES ASSUME leaving' # NoMod, NEW k \in Kinds,
                        NEW h \in (entries'[k] \ requested'[k]) \cap HooksOf(leaving)'
                 PROVE  <<k, h>> \in toRemove'
      BY DEF LeavingIsCovered
    <2>1. <<k, h>> \in toRemove
      BY <1>1, <1>2 DEF HookInv, LeavingIsCovered, HooksOf
    <2>2. <<k, h>> # e
      BY <1>1
    <2> QED BY <1>1, <2>1, <2>2
  <1> QED BY <1>3, <1>4 DEF HookInv

\* The data of a mod is erased only when no unmarked entry points to it.
LEMMA EndUninstallPreserves ==
  ASSUME HookInv, EndUninstall
  PROVE  HookInv'
  <1>1. /\ leaving # NoMod /\ toRemove = {} /\ leaving' = NoMod
        /\ data' = data \ HooksOf(leaving)
        /\ UNCHANGED <<entries, requested>>
    BY DEF EndUninstall, mapVars
  <1>2. \A k \in Kinds : (entries[k] \ requested[k]) \cap HooksOf(leaving) = {}
    BY <1>1 DEF HookInv, LeavingIsCovered
  <1> QED BY <1>1, <1>2 DEF HookInv, EntriesHaveData, LeavingIsCovered

\* Steps that touch neither the maps nor the data nor the uninstall.
LEMMA OtherPreserves ==
  ASSUME HookInv, UNCHANGED <<data, owner, entries, requested, leaving, toRemove>>
  PROVE  HookInv'
  BY DEF HookInv, EntriesHaveData, LeavingIsCovered, HooksOf

LEMMA HookInvNext == MapsOK /\ HookInv /\ [Next]_vars => HookInv'
  <1> SUFFICES ASSUME MapsOK, HookInv, [Next]_vars PROVE HookInv'
    OBVIOUS
  <1> USE DEF luaVars, mapVars, loopVars
  <1>1. CASE \E m \in Mods : RegisterHook(m)
    BY <1>1, RegisterHookPreserves
  <1>2. CASE \E m \in Mods, h \in Hooks : UnregisterHook(m, h)
    BY <1>2, OtherPreserves DEF UnregisterHook
  <1>3. CASE \E m \in Mods : BeginUninstall(m)
    BY <1>3, BeginUninstallPreserves
  <1>4. CASE ReadFlag
    BY <1>4, OtherPreserves DEF ReadFlag
  <1>5. CASE RemoveEntry
    BY <1>5, RemoveEntryPreserves
  <1>6. CASE EndUninstall
    BY <1>6, EndUninstallPreserves
  <1>7. CASE Call
    BY <1>7, OtherPreserves DEF Call
  <1>8. CASE \E k \in Kinds : Look(k) \/ Advance(k)
    BY <1>8, SweepPreserves
  <1>9. CASE EnterPre \/ ReturnPre
    BY <1>9, OtherPreserves DEF EnterPre, ReturnPre
  <1>10. CASE BeginOriginal \/ OriginalThrows \/ BeginPost
    BY <1>10, OtherPreserves DEF BeginOriginal, OriginalThrows, BeginPost
  <1>11. CASE EnterPost \/ ReturnPost
    BY <1>11, PostPreserves
  <1>12. CASE EndCall
    BY <1>12, OtherPreserves DEF EndCall
  <1>13. CASE UNCHANGED vars
    BY <1>13, OtherPreserves DEF vars
  <1> QED
    BY <1>1, <1>2, <1>3, <1>4, <1>5, <1>6, <1>7, <1>8, <1>9, <1>10, <1>11, <1>12, <1>13 DEF Next

\* Whatever bIsMidExecution says, and however calls nest and uninstalls come in
\* between, an entry that would be called has its data.
THEOREM CallbacksHaveData == Spec => []EntriesHaveData
  <1>1. HookInv => EntriesHaveData
    BY DEF HookInv
  <1>2. Types => MapsOK
    BY DEF Types
  <1> QED BY <1>1, <1>2, HookInvInit, HookInvNext, AlwaysTypes, PTL DEF Spec

-----------------------------------------------------------------------------
(* What a call owes to the hooks.                                            *)

\* Hooks are marked, or lose their data, only when they are scheduled for
\* removal; a hook with data that no uninstall is after is called from both maps.
ListInv ==
    /\ \A k \in Kinds : requested[k] \subseteq scheduled
    /\ HooksOf(leaving) \subseteq scheduled
    /\ DOMAIN owner \ scheduled \subseteq data
    /\ \A h \in data : owner[h] # leaving => \A k \in Kinds : h \in entries[k] \ requested[k]

\* Hooks registered stay registered and hooks scheduled stay scheduled; none
\* gets its data back, or gets rid of the uninstall that is after it.
HooksAge ==
    /\ scheduled \subseteq scheduled'
    /\ DOMAIN owner \subseteq DOMAIN owner'
    /\ \A h \in DOMAIN owner : owner'[h] = owner[h]
    /\ \A h \in DOMAIN owner : h \in data' /\ owner[h] # leaving' => h \in data /\ owner[h] # leaving

LEMMA HooksAgeNext == Types /\ [Next]_vars => HooksAge
  <1> SUFFICES ASSUME Types, [Next]_vars PROVE HooksAge
    OBVIOUS
  <1> USE DEF Types
  <1>1. ASSUME NEW m \in Mods, RegisterHook(m)
        PROVE  HooksAge
    <2>1. UNCHANGED <<scheduled, leaving>> /\ data' = data \cup {Len(owner) + 1}
      BY <1>1 DEF RegisterHook, loopVars
    <2> QED BY <1>1, <2>1, RegisterMaps DEF HooksAge
  <1>2. ASSUME NEW m \in Mods, BeginUninstall(m)
        PROVE  HooksAge
    <2>1. /\ leaving = NoMod /\ scheduled \subseteq scheduled'
          /\ UNCHANGED <<data, owner>>
      BY <1>2 DEF BeginUninstall, luaVars
    <2>2. \A h \in DOMAIN owner : owner[h] # NoMod
      BY IdTypes, HookConstants
    <2> QED BY <2>1, <2>2 DEF HooksAge
  <1>3. CASE EndUninstall
    <2>1. data' = data \ HooksOf(leaving) /\ UNCHANGED <<owner, scheduled>>
      BY <1>3 DEF EndUninstall
    <2> QED BY <2>1 DEF HooksAge, HooksOf
  <1>4. CASE EnterPost \/ ReturnPost
    <2>1. UNCHANGED <<owner, scheduled, leaving>> /\ data' \subseteq data
      BY <1>4 DEF EnterPost, ReturnPost, RemoveHook, luaVars, loopVars
    <2> QED BY <2>1 DEF HooksAge
  <1>5. CASE \/ (\E m \in Mods, h \in Hooks : UnregisterHook(m, h)) \/ ReadFlag \/ RemoveEntry
             \/ Call \/ (\E k \in Kinds : Look(k) \/ Advance(k)) \/ EnterPre \/ ReturnPre
             \/ BeginOriginal \/ OriginalThrows \/ BeginPost \/ EndCall \/ UNCHANGED vars
    <2>1. UNCHANGED <<owner, data, leaving>> /\ scheduled \subseteq scheduled'
      BY <1>5 DEF UnregisterHook, ReadFlag, RemoveEntry, Call, Look, Advance, EnterPre, ReturnPre,
             BeginOriginal, OriginalThrows, BeginPost, EndCall, vars, luaVars, loopVars
    <2> QED BY <2>1 DEF HooksAge
  <1> QED BY <1>1, <1>2, <1>3, <1>4, <1>5 DEF Next

LEMMA ListInvInit == Init => ListInv
  BY DEF Init, ListInv, HooksOf

\* A new hook is in both maps, unmarked, with its data.
LEMMA RegisterKeepsLists ==
  ASSUME Types, ListInv, NEW m \in Mods, RegisterHook(m)
  PROVE  ListInv'
  <1> DEFINE n == Len(owner) + 1
  <1>1. /\ leaving = NoMod /\ data' = data \cup {n}
        /\ entries' = [k \in Kinds |-> entries[k] \cup {n}]
        /\ UNCHANGED <<scheduled, requested, leaving>>
    BY DEF RegisterHook, MayEnter, loopVars
  <1>2. /\ DOMAIN owner' = DOMAIN owner \cup {n} /\ n \notin DOMAIN owner
        /\ \A h \in DOMAIN owner : owner'[h] = owner[h]
        /\ MapsOK'
    BY RegisterMaps DEF Types
  <1> HIDE DEF n
  <1>3. HooksOf(leaving)' = {}
    <2>1. \A h \in DOMAIN owner' : owner'[h] \in Mods
      BY <1>2, ElementOfSeq, LenProperties DEF MapsOK
    <2> QED BY <1>1, <1>2, <2>1, HookConstants DEF HooksOf, MapsOK
  <1>4. \A k \in Kinds : n \notin requested[k]
    BY <1>2 DEF Types, MapsOK
  <1>5. \A h \in data' : \A k \in Kinds :
          owner'[h] # leaving' => h \in entries'[k] \ requested'[k]
    BY <1>1, <1>2, <1>4 DEF ListInv, Types, MapsOK
  <1> QED BY <1>1, <1>2, <1>3, <1>5 DEF ListInv

\* Only a hook scheduled for removal is removed (remove_if_scheduled).
LEMMA PostKeepsLists ==
  ASSUME Types, ListInv, EnterPost \/ ReturnPost
  PROVE  ListInv'
  <1>1. leaving = NoMod /\ UNCHANGED <<owner, scheduled, leaving>>
    BY DEF EnterPost, ReturnPost, luaVars, loopVars
  <1>2. HooksOf(leaving)' \subseteq HooksOf(leaving)
    BY <1>1 DEF EnterPost, ReturnPost, RemoveHook, HooksOf
  <1>3. CASE UNCHANGED <<data, mapVars>>
    BY <1>1, <1>2, <1>3 DEF mapVars, ListInv
  <1>4. CASE Top.hook \in scheduled /\ RemoveHook(Top.hook)
    <2>1. data' = data \ {Top.hook}
      BY <1>4 DEF RemoveHook
    <2>2. \A k \in Kinds : requested'[k] \subseteq requested[k] \cup {Top.hook}
      BY <1>4 DEF RemoveHook, Types, MapsOK
    <2>3. \A k \in Kinds : entries'[k] \ requested'[k] = (entries[k] \ requested[k]) \ {Top.hook}
      BY <1>4, RemoveHookUnlists DEF Types
    <2> QED BY <1>1, <1>2, <1>4, <2>1, <2>2, <2>3 DEF ListInv
  <1> QED BY <1>3, <1>4 DEF EnterPost, ReturnPost

LEMMA SweepKeepsLists ==
  ASSUME Types, ListInv, NEW k \in Kinds, Look(k) \/ Advance(k)
  PROVE  ListInv'
  <1>1. UNCHANGED <<owner, data, scheduled, leaving>>
    BY DEF Look, Advance, luaVars, loopVars
  <1>2. \A j \in Kinds : entries'[j] \ requested'[j] = entries[j] \ requested[j]
    BY SweepKeepsUnmarked DEF Types
  <1>3. \A j \in Kinds : requested'[j] \subseteq requested[j]
    BY DEF Look, Advance, mapVars, Types, MapsOK
  <1> QED BY <1>1, <1>2, <1>3 DEF ListInv, HooksOf

\* An uninstall schedules the hooks of its mod before it removes any, and
\* removes no others (LuaMod::uninstall).
LEMMA UninstallKeepsLists ==
  ASSUME Types, ListInv, RemoveEntry \/ EndUninstall \/ \E m \in Mods : BeginUninstall(m)
  PROVE  ListInv'
  <1>1. CASE RemoveEntry
    <2>1. PICK e \in toRemove :
            /\ \A j \in Kinds : requested'[j] \subseteq requested[j] \cup ({e[2]} \cap entries[j])
            /\ \A j \in Kinds : entries'[j] \ requested'[j] =
                  (entries[j] \ requested[j]) \ (IF j = e[1] THEN {e[2]} ELSE {})
      BY <1>1, EntryRemoved DEF Types
    <2>2. e[2] \in HooksOf(leaving)
      BY DEF Types, MapsOK
    <2>3. UNCHANGED <<owner, data, scheduled, leaving>>
      BY <1>1 DEF RemoveEntry, luaVars
    <2>4. e[2] \in scheduled /\ owner[e[2]] = leaving
      BY <2>2 DEF ListInv, HooksOf
    <2>5. \A k \in Kinds : requested'[k] \subseteq scheduled
      BY <2>1, <2>4 DEF ListInv
    <2>6. \A h \in data : owner[h] # leaving => \A k \in Kinds : h \in entries'[k] \ requested'[k]
      BY <2>1, <2>4 DEF ListInv
    <2> QED BY <2>3, <2>5, <2>6 DEF ListInv, HooksOf
  <1>2. CASE EndUninstall
    <2>1. /\ data' = data \ HooksOf(leaving) /\ leaving' = NoMod
          /\ UNCHANGED <<owner, scheduled, entries, requested>>
      BY <1>2 DEF EndUninstall, mapVars
    <2>2. HooksOf(leaving)' = {}
      <3>1. \A h \in data : owner[h] # NoMod
        BY IdTypes, HookConstants DEF Types, MapsOK
      <3> QED BY <2>1, <3>1 DEF HooksOf
    <2>3. \A h \in data' : h \in data /\ owner[h] # leaving
      BY <2>1 DEF HooksOf
    <2> QED BY <2>1, <2>2, <2>3 DEF ListInv
  <1>3. ASSUME NEW m \in Mods, BeginUninstall(m)
        PROVE  ListInv'
    <2>1. /\ leaving = NoMod /\ leaving' = m /\ scheduled' = scheduled \cup HooksOf(m)
          /\ UNCHANGED <<owner, data, entries, requested>>
          /\ HooksOf(m)' = HooksOf(m)
      BY <1>3 DEF BeginUninstall, luaVars, mapVars, HooksOf
    <2>2. \A h \in data : owner[h] # NoMod
      BY IdTypes, HookConstants DEF Types, MapsOK
    <2> QED BY <2>1, <2>2 DEF ListInv
  <1> QED BY <1>1, <1>2, <1>3

LEMMA ListInvNext == Types /\ ListInv /\ [Next]_vars => ListInv'
  <1> SUFFICES ASSUME Types, ListInv, [Next]_vars PROVE ListInv'
    OBVIOUS
  <1>1. CASE \/ (\E m \in Mods, h \in Hooks : UnregisterHook(m, h)) \/ ReadFlag \/ Call
             \/ EnterPre \/ ReturnPre \/ BeginOriginal \/ OriginalThrows \/ BeginPost
             \/ EndCall \/ UNCHANGED vars
    <2>1. UNCHANGED <<owner, data, entries, requested, leaving>> /\ scheduled \subseteq scheduled'
      BY <1>1 DEF UnregisterHook, ReadFlag, Call, EnterPre, ReturnPre, BeginOriginal,
             OriginalThrows, BeginPost, EndCall, vars, luaVars, mapVars, loopVars
    <2> QED BY <2>1 DEF ListInv, HooksOf
  <1> QED BY <1>1, RegisterKeepsLists, PostKeepsLists, SweepKeepsLists, UninstallKeepsLists
          DEF Next

\* The hooks whose callback after the function call f has yet to run, and those
\* it has yet to remove.
Owed(f) ==
    (f.ran \ (f.visited \cup scheduled)) \cup {h \in f.due \cap data : owner[h] # leaving}

\* The iterator has hook h before it.
Ahead(f, h) ==
    /\ f.hook # Nothing
    /\ h > f.hook \/ (h = f.hook /\ f.at \in {"look", "entered"})

\* In the stage after the function all that a call owes is before its iterator.
FrameOK(f) ==
    /\ f.ran \subseteq DOMAIN owner /\ f.due \subseteq scheduled
    /\ f.stage = "post" => \A h \in Owed(f) : Ahead(f, h)

CallsInv == \A k \in DOMAIN frames : FrameOK(frames[k])

\* What a call owes is in the map after the function, unmarked.
LEMMA OwedAreListed ==
  ASSUME Types, ListInv, NEW f, f.ran \subseteq DOMAIN owner
  PROVE  \A h \in Owed(f) : h \in entries["post"] \ requested["post"]
  <1> SUFFICES ASSUME NEW h \in Owed(f) PROVE h \in entries["post"] \ requested["post"]
    OBVIOUS
  <1> USE DEF Types, MapsOK, Kinds
  <1>1. CASE h \in f.ran \ (f.visited \cup scheduled)
    <2>1. h \in data /\ h \notin HooksOf(leaving)
      BY <1>1 DEF ListInv
    <2> QED BY <2>1 DEF ListInv, HooksOf
  <1>2. CASE h \in f.due \cap data /\ owner[h] # leaving
    BY <1>2 DEF ListInv
  <1> QED BY <1>1, <1>2 DEF Owed

\* A call where it was owes no more than before.
LEMMA OwedShrinks ==
  ASSUME Types, HooksAge, NEW f, f.ran \subseteq DOMAIN owner, f.due \subseteq scheduled
  PROVE  Owed(f)' \subseteq Owed(f)
  <1> SUFFICES ASSUME NEW h, h \in Owed(f)' PROVE h \in Owed(f)
    OBVIOUS
  <1>1. CASE h \in f.ran \ (f.visited \cup scheduled')
    BY <1>1 DEF HooksAge, Owed
  <1>2. CASE h \in f.due \cap data' /\ owner'[h] # leaving'
    <2>1. h \in DOMAIN owner
      BY <1>2 DEF Types, MapsOK
    <2>2. h \in data /\ owner[h] # leaving
      BY <1>2, <2>1 DEF HooksAge
    <2> QED BY <1>2, <2>2 DEF Owed
  <1> QED BY <1>1, <1>2 DEF Owed

LEMMA FrameStays ==
  ASSUME Types, HooksAge, NEW f, FrameOK(f)
  PROVE  FrameOK(f)'
  <1>1. f.ran \subseteq DOMAIN owner' /\ f.due \subseteq scheduled'
    BY DEF FrameOK, HooksAge
  <1>2. Owed(f)' \subseteq Owed(f)
    BY OwedShrinks DEF FrameOK
  <1>3. f.stage = "post" => \A h \in Owed(f)' : Ahead(f, h)'
    BY <1>2 DEF FrameOK, Ahead
  <1> QED BY <1>1, <1>3 DEF FrameOK

\* begin() of the map after the function is at or before all that is owed.
LEMMA BeginReaches ==
  ASSUME Types, ListInv, NEW f \in FrameRecord, f.ran \subseteq DOMAIN owner,
         f.hook = First(entries["post"]), f.at = "look"
  PROVE  \A h \in Owed(f) : Ahead(f, h)
  <1> SUFFICES ASSUME NEW h \in Owed(f) PROVE Ahead(f, h)
    OBVIOUS
  <1>1. h \in entries["post"] /\ entries["post"] \in SUBSET (Nat \ {0})
    BY OwedAreListed, EntryTypes DEF Types, Kinds
  <1>2. f.hook # Nothing /\ f.hook <= h /\ f.hook \in Nat /\ h \in Nat
    BY <1>1, FirstProperties
  <1> QED BY <1>2 DEF Ahead

\* The next element is at or before all that is owed beyond the present one.
LEMMA MoveReaches ==
  ASSUME Types, ListInv, NEW f \in FrameRecord, f.ran \subseteq DOMAIN owner,
         NEW g \in Nat, \A h \in Owed(f) : h > g,
         f.hook = After(entries["post"], g), f.at = "look"
  PROVE  \A h \in Owed(f) : Ahead(f, h)
  <1> SUFFICES ASSUME NEW h \in Owed(f) PROVE Ahead(f, h)
    OBVIOUS
  <1>1. h \in entries["post"] /\ entries["post"] \in SUBSET (Nat \ {0}) /\ h > g
    BY OwedAreListed, EntryTypes DEF Types, Kinds
  <1>2. f.hook # Nothing /\ f.hook <= h /\ f.hook \in Nat /\ h \in Nat
    BY <1>1, AfterProperties
  <1> QED BY <1>2 DEF Ahead

-----------------------------------------------------------------------------
(* The steps of a call keep what it owes before its iterator.                *)

\* The call on top can only have become one thing.
LEMMA TopUnique ==
  ASSUME FramesOK, frames # <<>>, NEW f, NEW g, SetTop(f), SetTop(g)
  PROVE  f = g
  <1>1. Len(frames) \in DOMAIN frames
    BY TopIsFrame
  <1>2. /\ frames' = [frames EXCEPT ![Len(frames)] = f]
        /\ frames' = [frames EXCEPT ![Len(frames)] = g]
    BY DEF SetTop, ReplaceAt
  <1> QED BY <1>1, <1>2

\* The call on top has become f; the others are where they were.
LEMMA OthersStay ==
  ASSUME Types, CallsInv, HooksAge, frames # <<>>, NEW f \in FrameRecord, SetTop(f), FrameOK(f)'
  PROVE  CallsInv'
  <1>1. /\ DOMAIN frames' = DOMAIN frames
        /\ frames'[Len(frames)] = f
        /\ \A k \in DOMAIN frames : k # Len(frames) => frames'[k] = frames[k]
    BY TopChanged DEF Types
  <1>2. ASSUME NEW k \in DOMAIN frames', NEW g, g = frames'[k]
        PROVE  FrameOK(g)'
    <2>1. CASE k = Len(frames)
      BY <1>1, <1>2, <2>1
    <2>2. CASE k # Len(frames)
      <3>1. FrameOK(g)
        BY <1>1, <1>2, <2>2 DEF CallsInv
      <3> QED BY <3>1, FrameStays
    <2> QED BY <2>1, <2>2
  <1>3. \A k \in DOMAIN frames' : \E g : g = frames'[k] /\ FrameOK(g)'
    BY <1>2
  <1> QED BY <1>3 DEF CallsInv

LEMMA TopStays ==
  ASSUME Types, CallsInv, HooksAge, frames # <<>>, NEW f \in FrameRecord, SetTop(f), FrameOK(f)
  PROVE  CallsInv'
  BY OthersStay, FrameStays

\* Before the function a call owes nothing in a particular place.
LEMMA PreKeepsCalls ==
  ASSUME Types, CallsInv, HooksAge,
         \/ Look("pre") \/ Advance("pre") \/ EnterPre \/ ReturnPre \/ BeginOriginal
  PROVE  CallsInv'
  <1>1. frames # <<>>
    BY DEF Look, Advance, EnterPre, ReturnPre, BeginOriginal, At
  <1>2. PICK f \in FrameRecord : SetTop(f)
    BY TopSteps DEF TopStep, Kinds
  <1>3. Top \in FrameRecord /\ FrameOK(Top)
    BY <1>1, TopIsFrame DEF Types, CallsInv
  <1> DEFINE next == After(entries["pre"], Top.hook)
  <1> HIDE DEF next
  <1>4. \/ SetTop([Top EXCEPT !.hook = next])
        \/ SetTop([Top EXCEPT !.at = "entered"])
        \/ SetTop([Top EXCEPT !.hook = next, !.at = "look"])
        \/ SetTop([Top EXCEPT !.at = "returned"])
        \/ SetTop([Top EXCEPT !.at = "lua", !.ran = @ \cup {Top.hook}])
        \/ SetTop([Top EXCEPT !.stage = "original", !.hook = Nothing, !.at = "native"])
    BY DEF Look, Advance, EnterPre, ReturnPre, BeginOriginal, next
  <1>5. \/ f = [Top EXCEPT !.hook = next]
        \/ f = [Top EXCEPT !.at = "entered"]
        \/ f = [Top EXCEPT !.hook = next, !.at = "look"]
        \/ f = [Top EXCEPT !.at = "returned"]
        \/ f = [Top EXCEPT !.at = "lua", !.ran = @ \cup {Top.hook}]
        \/ f = [Top EXCEPT !.stage = "original", !.hook = Nothing, !.at = "native"]
    BY <1>1, <1>2, <1>4, TopUnique DEF Types
  <1>6. f.stage # "post" /\ f.due = Top.due
    <2>1. Top.stage = "pre"
      BY DEF Look, Advance, EnterPre, ReturnPre, BeginOriginal, At
    <2> QED BY <1>3, <1>5, <2>1 DEF FrameRecord
  <1>7. f.ran \subseteq DOMAIN owner
    <2>1. CASE EnterPre
      <3>1. Top.hook \in DOMAIN owner
        BY <2>1 DEF EnterPre, Types, MapsOK
      <3>2. f.ran \subseteq Top.ran \cup {Top.hook}
        BY <1>3, <1>5 DEF FrameRecord
      <3> QED BY <1>3, <3>1, <3>2 DEF FrameOK
    <2>2. CASE ~EnterPre
      <3>1. \/ SetTop([Top EXCEPT !.hook = next])
            \/ SetTop([Top EXCEPT !.at = "entered"])
            \/ SetTop([Top EXCEPT !.hook = next, !.at = "look"])
            \/ SetTop([Top EXCEPT !.at = "returned"])
            \/ SetTop([Top EXCEPT !.stage = "original", !.hook = Nothing, !.at = "native"])
        BY <2>2 DEF Look, Advance, ReturnPre, BeginOriginal, next
      <3>2. \/ f = [Top EXCEPT !.hook = next]
            \/ f = [Top EXCEPT !.at = "entered"]
            \/ f = [Top EXCEPT !.hook = next, !.at = "look"]
            \/ f = [Top EXCEPT !.at = "returned"]
            \/ f = [Top EXCEPT !.stage = "original", !.hook = Nothing, !.at = "native"]
        BY <1>1, <1>2, <3>1, TopUnique DEF Types
      <3>3. f.ran = Top.ran
        BY <1>3, <3>2 DEF FrameRecord
      <3> QED BY <1>3, <3>3 DEF FrameOK
    <2> QED BY <2>1, <2>2
  <1>8. FrameOK(f)
    BY <1>3, <1>6, <1>7 DEF FrameOK
  <1> QED BY <1>1, <1>2, <1>8, TopStays

\* The stage after the function begins with all that is owed ahead.
LEMMA BeginKeepsCalls ==
  ASSUME Types, ListInv, CallsInv, HooksAge, BeginPost
  PROVE  CallsInv'
  <1>1. frames # <<>>
    BY DEF BeginPost, At
  <1>2. PICK f \in FrameRecord : SetTop(f)
    BY TopSteps DEF TopStep, Kinds
  <1>3. Top \in FrameRecord /\ FrameOK(Top)
    BY <1>1, TopIsFrame DEF Types, CallsInv
  <1> DEFINE first == First(entries["post"])
             began == [Top EXCEPT !.stage = "post", !.hook = first, !.at = "look"]
  <1>4. SetTop([began EXCEPT !.due = scheduled \cap data])
    BY DEF BeginPost, Begin
  <1> HIDE DEF began
  <1>5. f = [began EXCEPT !.due = scheduled \cap data]
    BY <1>1, <1>2, <1>4, TopUnique DEF Types
  <1>6. f.hook = first /\ f.at = "look" /\ f.ran = Top.ran /\ f.due = scheduled \cap data
    <2> HIDE DEF first
    <2> QED BY <1>3, <1>5 DEF FrameRecord, began
  <1>7. f.ran \subseteq DOMAIN owner
    BY <1>3, <1>6 DEF FrameOK
  <1>8. \A h \in Owed(f) : Ahead(f, h)
    BY <1>2, <1>6, <1>7, BeginReaches
  <1>9. FrameOK(f)
    BY <1>6, <1>7, <1>8 DEF FrameOK
  <1> QED BY <1>1, <1>2, <1>9, TopStays

\* An entry that the iteration passes over is marked, or its callback has run.
LEMMA LookKeepsCalls ==
  ASSUME Types, ListInv, CallsInv, HooksAge, Look("post") \/ Advance("post")
  PROVE  CallsInv'
  <1>1. frames # <<>> /\ Top.stage = "post"
    BY DEF Look, Advance, At
  <1>2. PICK f \in FrameRecord : SetTop(f)
    BY TopSteps DEF TopStep, Kinds
  <1>3. Top \in FrameRecord /\ FrameOK(Top) /\ Top.hook \in Nat
    BY <1>1, TopIsFrame DEF Types, CallsInv, FrameRecord
  <1>4. \A h \in Owed(Top) : Ahead(Top, h) /\ h \in entries["post"] \ requested["post"]
    BY <1>1, <1>3, OwedAreListed DEF FrameOK
  <1>5. \A h \in Owed(Top) : h \in Nat
    BY <1>4, EntryTypes DEF Types, Kinds
  <1> DEFINE next == After(entries["post"], Top.hook)
             moved == [Top EXCEPT !.hook = next, !.at = "look"]
  <1>6. CASE Look("post") /\ Top.hook \notin requested["post"]
    <2>1. f = [Top EXCEPT !.at = "entered"] /\ Top.at = "look"
      BY <1>1, <1>2, <1>6, TopUnique DEF Look, At, Types
    <2>2. /\ f.hook = Top.hook /\ f.at = "entered" /\ f.ran = Top.ran /\ f.due = Top.due
          /\ f.visited = Top.visited
      BY <1>3, <2>1 DEF FrameRecord
    <2>3. Owed(f) = Owed(Top)
      BY <2>2 DEF Owed
    <2>4. \A h \in Owed(f) : Ahead(f, h)
      BY <1>4, <2>1, <2>2, <2>3 DEF Ahead
    <2>5. FrameOK(f)
      BY <1>3, <2>2, <2>4 DEF FrameOK
    <2> QED BY <1>1, <1>2, <2>5, TopStays
  <1>7. CASE (Look("post") /\ Top.hook \in requested["post"]) \/ Advance("post")
    <2>1. (SetTop([Top EXCEPT !.hook = next]) /\ Top.at = "look") \/ SetTop(moved)
      BY <1>7 DEF Look, Advance, At
    <2>2. (f = [Top EXCEPT !.hook = next] /\ Top.at = "look") \/ f = moved
      <3> HIDE DEF next, moved
      <3> QED BY <1>1, <1>2, <2>1, TopUnique DEF Types
    <2>3. /\ f.hook = next /\ f.at = "look" /\ f.ran = Top.ran /\ f.due = Top.due
          /\ f.visited = Top.visited
      <3> HIDE DEF next
      <3> QED BY <1>3, <2>2 DEF FrameRecord
    <2>4. Owed(f) = Owed(Top) /\ f.ran \subseteq DOMAIN owner /\ f.due \subseteq scheduled
      BY <1>3, <2>3 DEF Owed, FrameOK
    <2>5. \A h \in Owed(f) : h > Top.hook
      <3>1. \A h \in Owed(Top) : h # Top.hook \/ Top.at = "returned"
        BY <1>4, <1>7 DEF Advance, At
      <3> QED BY <1>3, <1>4, <1>5, <1>7, <2>4, <3>1 DEF Ahead
    <2>6. \A h \in Owed(f) : Ahead(f, h)
      BY <1>2, <1>3, <2>3, <2>4, <2>5, MoveReaches
    <2>7. FrameOK(f)
      BY <2>4, <2>6 DEF FrameOK
    <2> QED BY <1>1, <1>2, <2>7, TopStays
  <1> QED BY <1>6, <1>7

\* Entered after the function a callback removes its hook or has been visited;
\* when it has returned its hook owes nothing either.
LEMMA PostKeepsCalls ==
  ASSUME Types, ListInv, CallsInv, HooksAge, EnterPost \/ ReturnPost
  PROVE  CallsInv'
  <1>1. frames # <<>> /\ Top.stage = "post" /\ Top.hook \in data
    BY DEF EnterPost, ReturnPost, At
  <1>2. PICK f \in FrameRecord : SetTop(f)
    BY TopSteps DEF TopStep, Kinds
  <1>3. Top \in FrameRecord /\ FrameOK(Top) /\ Top.hook \in Nat
    BY <1>1, TopIsFrame DEF Types, CallsInv, FrameRecord
  <1>4. \A h \in Owed(Top) : Ahead(Top, h)
    BY <1>1, <1>3 DEF FrameOK
  <1>5. CASE EnterPost /\ Top.hook \in scheduled
    <2>1. f = [Top EXCEPT !.at = "returned"]
      BY <1>1, <1>2, <1>5, TopUnique DEF EnterPost, Types
    <2>2. /\ f.hook = Top.hook /\ f.at = "returned" /\ f.ran = Top.ran /\ f.due = Top.due
          /\ f.visited = Top.visited /\ f.stage = Top.stage
      BY <1>3, <2>1 DEF FrameRecord
    <2>3. Owed(f)' \subseteq Owed(f) /\ Owed(f) = Owed(Top)
      BY <1>3, <2>2, OwedShrinks DEF FrameOK, Owed
    <2>4. f.hook \notin data' /\ f.hook \in scheduled'
      BY <1>5, <2>2 DEF EnterPost, RemoveHook
    <2>5. f.hook \notin Owed(f)'
      BY <2>4 DEF Owed
    <2>6. \A h \in Owed(f)' : Ahead(f, h)
      BY <1>4, <2>2, <2>3, <2>5 DEF Ahead
    <2>7. \A h \in Owed(f)' : Ahead(f, h)'
      BY <2>6 DEF Ahead
    <2>8. f.ran \subseteq DOMAIN owner' /\ f.due \subseteq scheduled'
      BY <1>3, <2>2 DEF FrameOK, HooksAge
    <2>9. FrameOK(f)'
      BY <2>7, <2>8 DEF FrameOK
    <2> QED BY <1>1, <1>2, <2>9, OthersStay
  <1>6. CASE EnterPost /\ Top.hook \notin scheduled
    <2> DEFINE entered == [Top EXCEPT !.at = "lua", !.visited = @ \cup {Top.hook}]
    <2>1. SetTop(entered)
      BY <1>6 DEF EnterPost
    <2>2. f = entered
      <3> HIDE DEF entered
      <3> QED BY <1>1, <1>2, <2>1, TopUnique DEF Types
    <2>3. /\ f.hook = Top.hook /\ f.at = "lua" /\ f.ran = Top.ran /\ f.due = Top.due
          /\ f.visited = Top.visited \cup {Top.hook}
      BY <1>3, <2>2 DEF FrameRecord
    <2>4. Owed(f) \subseteq Owed(Top) \ {Top.hook}
      BY <1>3, <1>6, <2>3 DEF Owed, FrameOK
    <2>5. \A h \in Owed(f) : Ahead(f, h)
      BY <1>4, <2>3, <2>4 DEF Ahead
    <2>6. FrameOK(f)
      BY <1>3, <2>3, <2>5 DEF FrameOK
    <2> QED BY <1>1, <1>2, <2>6, TopStays
  <1>7. CASE ReturnPost
    <2>1. f = [Top EXCEPT !.at = "returned"] /\ Top.at = "lua"
      BY <1>1, <1>2, <1>7, TopUnique DEF ReturnPost, At, Types
    <2>2. /\ f.hook = Top.hook /\ f.at = "returned" /\ f.ran = Top.ran /\ f.due = Top.due
          /\ f.visited = Top.visited
      BY <1>3, <2>1 DEF FrameRecord
    <2>3. Owed(f) = Owed(Top)
      BY <2>2 DEF Owed
    <2>4. \A h \in Owed(f) : Ahead(f, h)
      BY <1>4, <2>1, <2>2, <2>3 DEF Ahead
    <2>5. FrameOK(f)
      BY <1>3, <2>2, <2>4 DEF FrameOK
    <2> QED BY <1>1, <1>2, <2>5, TopStays
  <1> QED BY <1>5, <1>6, <1>7

\* A new call owes nothing; the others stay where they are.
LEMMA NewCallKeepsCalls ==
  ASSUME Types, CallsInv, HooksAge, Call
  PROVE  CallsInv'
  <1>1. \A k \in DOMAIN frames : frames'[k] = frames[k]
    BY CallPushed
  <1>2. ASSUME NEW k \in DOMAIN frames', NEW g, g = frames'[k]
        PROVE  FrameOK(g)'
    <2>1. CASE k \in DOMAIN frames
      BY <1>1, <1>2, <2>1, FrameStays DEF CallsInv
    <2>2. CASE frames'[k] = Top'
      <3>1. g.stage = "pre" /\ g.ran = {} /\ g.due = {}
        BY <1>2, <2>2, CallPushed
      <3> QED BY <3>1 DEF FrameOK
    <2> QED BY <2>1, <2>2, CallPushed
  <1>3. \A k \in DOMAIN frames' : \E g : g = frames'[k] /\ FrameOK(g)'
    BY <1>2
  <1> QED BY <1>3 DEF CallsInv

LEMMA CallsInvNext == Types /\ ListInv /\ CallsInv /\ [Next]_vars => CallsInv'
  <1> SUFFICES ASSUME Types, ListInv, CallsInv, [Next]_vars PROVE CallsInv'
    OBVIOUS
  <1>1. HooksAge
    BY HooksAgeNext
  <1>2. CASE TopStep
    BY <1>1, <1>2, PreKeepsCalls, BeginKeepsCalls, LookKeepsCalls, PostKeepsCalls
       DEF TopStep, Kinds
  <1>3. CASE Call
    BY <1>1, <1>3, NewCallKeepsCalls
  <1>4. CASE UNCHANGED frames \/ (frames # <<>> /\ frames' = Front(frames))
    <2>1. \A k \in DOMAIN frames' : k \in DOMAIN frames /\ frames'[k] = frames[k]
      BY <1>4, TopPopped DEF Types
    <2>2. ASSUME NEW k \in DOMAIN frames', NEW g, g = frames'[k]
          PROVE  FrameOK(g)'
      BY <1>1, <2>1, <2>2, FrameStays DEF CallsInv
    <2>3. \A k \in DOMAIN frames' : \E g : g = frames'[k] /\ FrameOK(g)'
      BY <2>2
    <2> QED BY <2>3 DEF CallsInv
  <1> QED BY <1>2, <1>3, <1>4, StepKinds

LEMMA CallsInvInit == Init => CallsInv
  <1> SUFFICES ASSUME Init PROVE CallsInv
    OBVIOUS
  <1>1. DOMAIN frames = {}
    BY EmptySeq DEF Init
  <1> QED BY <1>1 DEF CallsInv

LEMMA AlwaysCalls == Spec => [](Types /\ ListInv /\ CallsInv)
  BY TypesInit, TypesNext, ListInvInit, ListInvNext, CallsInvInit, CallsInvNext, PTL DEF Spec

\* At its normal end the iterator of a call is end(): nothing is owed.
LEMMA NothingOwed ==
  ASSUME Types, CallsInv, EndsNormally
  PROVE  Owed(Top) = {}
  <1>1. frames # <<>> /\ Top.stage = "post" /\ Top.hook = Nothing
    BY DEF EndsNormally, At
  <1>2. FrameOK(Top)
    BY <1>1, TopIsFrame DEF Types, CallsInv
  <1> QED BY <1>1, <1>2 DEF FrameOK, Ahead

\* A call whose callbacks did not throw removes every hook that was scheduled
\* for removal when its last stage began, whatever nested calls removed and
\* other threads registered or scheduled meanwhile; a mod that is being
\* uninstalled removes its own (UnregisterHook, remove_if_scheduled).
THEOREM HooksAreRemoved == Spec => []ScheduledAreRemoved
  <1>1. Types /\ CallsInv => ScheduledAreRemoved
    BY NothingOwed DEF ScheduledAreRemoved, Owed
  <1> QED BY <1>1, AlwaysCalls, PTL

\* In such a call each hook whose callback ran before the function has the
\* other one entered after it, unless the hook has been unregistered
\* (UnrealScriptFunctionHook).
THEOREM PostHooksFollow == Spec => []PostFollowsPre
  <1>1. Types /\ CallsInv => PostFollowsPre
    BY NothingOwed DEF PostFollowsPre, Owed
  <1> QED BY <1>1, AlwaysCalls, PTL
=============================================================================
