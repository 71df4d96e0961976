----------------------- MODULE GameThreadQueuesProofs -----------------------
(***************************************************************************)
(* Proofs about the work left for the game thread, for any number of mods, *)
(* actions, listeners, objects and nested passes: the types, that no       *)
(* action is lost or doubled, their order, and who is notified of what.    *)
(***************************************************************************)
EXTENDS GameThreadQueues, FiniteSetTheorems, SequenceTheorems, TLAPS

-----------------------------------------------------------------------------
(* Vectors.                                                                  *)

\* No element occurs twice.
Distinct(s) == \A i, j \in DOMAIN s : s[i] = s[j] => i = j

\* Where order has the pair <<a, b>>, a comes before b.
InOrder(s, order) == \A i, j \in DOMAIN s : <<s[i], s[j]>> \in order => i < j

LEMMA Elements ==
  ASSUME NEW S, NEW s \in Seq(S)
  PROVE  /\ Len(s) \in Nat /\ DOMAIN s = 1 .. Len(s)
         /\ ToSet(s) \subseteq S
         /\ \A i \in DOMAIN s : s[i] \in ToSet(s) /\ s[i] \in S /\ i \in Int
         /\ \A x \in ToSet(s) : \E i \in DOMAIN s : x = s[i]
         /\ s = <<>> <=> ToSet(s) = {}
  <1>1. Len(s) \in Nat /\ DOMAIN s = 1 .. Len(s) /\ \A i \in DOMAIN s : s[i] \in S
    BY LenProperties, ElementOfSeq
  <1>2. ASSUME s # <<>> PROVE ToSet(s) # {}
    <2>1. 1 \in DOMAIN s
      BY <1>1, <1>2, EmptySeq
    <2>2. s[1] \in ToSet(s)
      BY <2>1 DEF ToSet
    <2> QED BY <2>2
  <1>3. ASSUME s = <<>> PROVE ToSet(s) = {}
    BY <1>1, <1>3, EmptySeq DEF ToSet
  <1>4. \A i \in DOMAIN s : s[i] \in ToSet(s) /\ s[i] \in S /\ i \in Int
    BY <1>1 DEF ToSet
  <1>5. \A x \in ToSet(s) : \E i \in DOMAIN s : x = s[i]
    BY DEF ToSet
  <1>6. ToSet(s) \subseteq S
    BY <1>4, <1>5
  <1> QED BY <1>1, <1>2, <1>3, <1>4, <1>5, <1>6

LEMMA EmptyElements == ToSet(<<>>) = {} /\ Distinct(<<>>) /\ \A order : InOrder(<<>>, order)
  <1>1. DOMAIN <<>> = {}
    OBVIOUS
  <1> QED BY <1>1 DEF ToSet, Distinct, InOrder

\* push_back.
LEMMA Appended ==
  ASSUME NEW S, NEW s \in Seq(S), NEW e \in S
  PROVE  /\ Append(s, e) \in Seq(S)
         /\ ToSet(Append(s, e)) = ToSet(s) \cup {e}
         /\ Distinct(s) /\ e \notin ToSet(s) => Distinct(Append(s, e))
         /\ \A order :
               InOrder(s, order) /\ (\A x \in ToSet(s) \cup {e} : <<e, x>> \notin order)
                  => InOrder(Append(s, e), order)
  <1> DEFINE t == Append(s, e)
  <1>1. Len(s) \in Nat /\ DOMAIN s = 1 .. Len(s) /\ \A i \in DOMAIN s : s[i] \in ToSet(s)
    BY Elements
  <1>2. /\ t \in Seq(S) /\ DOMAIN t = 1 .. Len(s) + 1
        /\ \A i \in 1 .. Len(s) : t[i] = s[i]
        /\ t[Len(s) + 1] = e
    BY <1>1, AppendProperties, LenProperties
  <1> HIDE DEF t
  <1>3. \A i \in DOMAIN t : \/ i \in DOMAIN s /\ t[i] = s[i]
                            \/ i = Len(s) + 1 /\ t[i] = e
    BY <1>1, <1>2
  <1>4. \A i \in DOMAIN s : i \in DOMAIN t /\ t[i] = s[i] /\ i < Len(s) + 1
    BY <1>1, <1>2
  <1>5. Len(s) + 1 \in DOMAIN t
    BY <1>1, <1>2
  <1>6. ToSet(t) = ToSet(s) \cup {e}
    BY <1>2, <1>3, <1>4, <1>5 DEF ToSet
  <1>7. ASSUME Distinct(s), e \notin ToSet(s) PROVE Distinct(t)
    BY <1>1, <1>3, <1>7 DEF Distinct
  <1>8. ASSUME NEW order, InOrder(s, order), \A x \in ToSet(s) \cup {e} : <<e, x>> \notin order
        PROVE  InOrder(t, order)
    <2> SUFFICES ASSUME NEW i \in DOMAIN t, NEW j \in DOMAIN t, <<t[i], t[j]>> \in order
                 PROVE  i < j
      BY DEF InOrder
    <2>1. t[j] \in ToSet(s) \cup {e}
      BY <1>1, <1>3
    <2>2. i \in DOMAIN s /\ t[i] = s[i]
      BY <1>3, <1>8, <2>1
    <2> QED BY <1>3, <1>4, <1>8, <2>2 DEF InOrder
  <1> QED BY <1>2, <1>6, <1>7, <1>8 DEF t

\* insert at the end of a vector.
LEMMA Concatenated ==
  ASSUME NEW S, NEW s \in Seq(S), NEW t \in Seq(S)
  PROVE  /\ s \o t \in Seq(S)
         /\ ToSet(s \o t) = ToSet(s) \cup ToSet(t)
         /\ Distinct(s) /\ Distinct(t) /\ ToSet(s) \cap ToSet(t) = {} => Distinct(s \o t)
         /\ \A order :
               InOrder(s, order) /\ InOrder(t, order)
               /\ (\A x \in ToSet(t), y \in ToSet(s) : <<x, y>> \notin order)
                  => InOrder(s \o t, order)
  <1> DEFINE u == s \o t
             n == Len(s)
  <1>1. /\ n \in Nat /\ DOMAIN s = 1 .. n /\ \A i \in DOMAIN s : s[i] \in ToSet(s)
        /\ Len(t) \in Nat /\ DOMAIN t = 1 .. Len(t) /\ \A i \in DOMAIN t : t[i] \in ToSet(t)
    BY Elements
  <1>2. /\ u \in Seq(S) /\ DOMAIN u = 1 .. n + Len(t)
        /\ \A i \in 1 .. n + Len(t) : u[i] = IF i <= n THEN s[i] ELSE t[i - n]
    BY <1>1, ConcatProperties, LenProperties
  <1> HIDE DEF u, n
  <1>3. \A i \in DOMAIN u : \/ i \in DOMAIN s /\ u[i] = s[i]
                            \/ i > n /\ i - n \in DOMAIN t /\ u[i] = t[i - n] /\ i \in Int
    BY <1>1, <1>2
  <1>4. \A i \in DOMAIN s : i \in DOMAIN u /\ u[i] = s[i] /\ i <= n /\ i \in Int
    BY <1>1, <1>2
  <1>5. ASSUME NEW j \in DOMAIN t PROVE j + n \in DOMAIN u /\ u[j + n] = t[j]
    <2>1. PICK k \in 1 .. n + Len(t) : k = j + n /\ ~(k <= n) /\ k - n = j
      BY <1>1
    <2> QED BY <1>2, <2>1
  <1>6. ToSet(u) = ToSet(s) \cup ToSet(t)
    <2>1. \A i \in DOMAIN u : u[i] \in ToSet(s) \cup ToSet(t)
      BY <1>1, <1>3
    <2>2. \A x \in ToSet(s) \cup ToSet(t) : \E i \in DOMAIN u : u[i] = x
      BY <1>4, <1>5 DEF ToSet
    <2> QED BY <2>1, <2>2 DEF ToSet
  <1>7. ASSUME Distinct(s), Distinct(t), ToSet(s) \cap ToSet(t) = {} PROVE Distinct(u)
    <2> SUFFICES ASSUME NEW i \in DOMAIN u, NEW j \in DOMAIN u, u[i] = u[j] PROVE i = j
      BY DEF Distinct
    <2>1. CASE i \in DOMAIN s /\ u[i] = s[i]
      BY <1>1, <1>3, <1>7, <2>1 DEF Distinct
    <2>2. CASE i > n /\ i - n \in DOMAIN t /\ u[i] = t[i - n] /\ i \in Int
      <3>1. j > n /\ j - n \in DOMAIN t /\ u[j] = t[j - n] /\ j \in Int
        BY <1>1, <1>3, <1>7, <2>2
      <3>2. i - n = j - n
        BY <1>7, <2>2, <3>1 DEF Distinct
      <3> QED BY <1>1, <2>2, <3>1, <3>2
    <2> QED BY <1>3, <2>1, <2>2
  <1>8. ASSUME NEW order, InOrder(s, order), InOrder(t, order),
               \A x \in ToSet(t), y \in ToSet(s) : <<x, y>> \notin order
        PROVE  InOrder(u, order)
    <2> SUFFICES ASSUME NEW i \in DOMAIN u, NEW j \in DOMAIN u, <<u[i], u[j]>> \in order
                 PROVE  i < j
      BY DEF InOrder
    <2>1. CASE i \in DOMAIN s /\ u[i] = s[i]
      <3>1. CASE j \in DOMAIN s /\ u[j] = s[j]
        BY <1>8, <2>1, <3>1 DEF InOrder
      <3>2. CASE j > n /\ j \in Int
        BY <1>1, <1>4, <2>1, <3>2
      <3> QED BY <1>3, <3>1, <3>2
    <2>2. CASE i > n /\ i - n \in DOMAIN t /\ u[i] = t[i - n] /\ i \in Int
      <3>1. j > n /\ j - n \in DOMAIN t /\ u[j] = t[j - n] /\ j \in Int
        BY <1>1, <1>3, <1>8, <2>2
      <3>2. i - n < j - n
        BY <1>8, <2>2, <3>1 DEF InOrder
      <3> QED BY <1>1, <2>2, <3>1, <3>2
    <2> QED BY <1>3, <2>1, <2>2
  <1> QED BY <1>2, <1>6, <1>7, <1>8 DEF u

\* The rest of a vector behind its first element.
LEMMA TailElements ==
  ASSUME NEW S, NEW s \in Seq(S), s # <<>>
  PROVE  /\ Tail(s) \in Seq(S) /\ Head(s) \in S
         /\ ToSet(s) = ToSet(Tail(s)) \cup {Head(s)}
         /\ Distinct(s) => Distinct(Tail(s)) /\ Head(s) \notin ToSet(Tail(s))
         /\ \A order : InOrder(s, order) =>
               /\ InOrder(Tail(s), order)
               /\ \A x \in ToSet(s) : <<x, Head(s)>> \notin order
  <1> DEFINE t == Tail(s)
  <1>1. Len(s) \in Nat \ {0} /\ DOMAIN s = 1 .. Len(s) /\ \A i \in DOMAIN s : s[i] \in S
    BY EmptySeq, LenProperties, ElementOfSeq
  <1>2. /\ t \in Seq(S) /\ DOMAIN t = 1 .. Len(s) - 1
        /\ \A i \in 1 .. Len(s) - 1 : t[i] = s[i + 1]
    BY <1>1, HeadTailProperties, LenProperties
  <1>3. Head(s) = s[1] /\ 1 \in DOMAIN s
    BY <1>1
  <1> HIDE DEF t
  <1>4. \A i \in DOMAIN t : i + 1 \in DOMAIN s /\ t[i] = s[i + 1] /\ i \in Int /\ i >= 1
    BY <1>1, <1>2
  <1>5. \A i \in DOMAIN s : i = 1 \/ (i - 1 \in DOMAIN t /\ s[i] = t[i - 1])
    <2> SUFFICES ASSUME NEW i \in DOMAIN s, i # 1 PROVE i - 1 \in DOMAIN t /\ s[i] = t[i - 1]
      OBVIOUS
    <2>1. i - 1 \in 1 .. Len(s) - 1 /\ i - 1 + 1 = i
      BY <1>1
    <2> QED BY <1>2, <2>1
  <1>6. ToSet(s) = ToSet(t) \cup {Head(s)}
    BY <1>3, <1>4, <1>5 DEF ToSet
  <1>7. ASSUME Distinct(s) PROVE Distinct(t) /\ Head(s) \notin ToSet(t)
    <2>1. Distinct(t)
      <3> SUFFICES ASSUME NEW i \in DOMAIN t, NEW j \in DOMAIN t, t[i] = t[j] PROVE i = j
        BY DEF Distinct
      <3>1. i + 1 = j + 1
        BY <1>4, <1>7 DEF Distinct
      <3> QED BY <1>4, <3>1
    <2>2. ASSUME NEW i \in DOMAIN t PROVE t[i] # Head(s)
      <3>1. i + 1 # 1
        BY <1>4
      <3> QED BY <1>3, <1>4, <1>7, <3>1 DEF Distinct
    <2> QED BY <2>1, <2>2 DEF ToSet
  <1>8. ASSUME NEW order, InOrder(s, order)
        PROVE  InOrder(t, order) /\ \A x \in ToSet(s) : <<x, Head(s)>> \notin order
    <2>1. InOrder(t, order)
      <3> SUFFICES ASSUME NEW i \in DOMAIN t, NEW j \in DOMAIN t, <<t[i], t[j]>> \in order
                   PROVE  i < j
        BY DEF InOrder
      <3>1. i + 1 < j + 1
        BY <1>4, <1>8 DEF InOrder
      <3> QED BY <1>4, <3>1
    <2>2. ASSUME NEW i \in DOMAIN s PROVE <<s[i], Head(s)>> \notin order
      <3>1. ~(i < 1)
        BY <1>1
      <3> QED BY <1>3, <1>8, <3>1 DEF InOrder
    <2> QED BY <2>1, <2>2 DEF ToSet
  <1> QED BY <1>2, <1>3, <1>1, <1>6, <1>7, <1>8 DEF t

\* std::erase_if.
LEMMA KeptElements ==
  ASSUME NEW S, NEW s \in Seq(S), NEW keep, NEW t \in Kept(s, keep)
  PROVE  /\ t \in Seq(S)
         /\ ToSet(t) = ToSet(s) \cap keep
         /\ Distinct(s) => Distinct(t)
         /\ \A order : InOrder(s, order) => InOrder(t, order)
  <1> DEFINE places == {i \in DOMAIN s : s[i] \in keep}
  <1>1. PICK f \in [1 .. Cardinality(places) -> places] :
           /\ t = [k \in DOMAIN f |-> s[f[k]]]
           /\ \A j, k \in DOMAIN f : j < k => f[j] < f[k]
           /\ \A i \in places : \E k \in DOMAIN f : f[k] = i
    BY DEF Kept
  <1>2. Len(s) \in Nat /\ DOMAIN s = 1 .. Len(s) /\ \A i \in DOMAIN s : s[i] \in S
    BY Elements
  <1>3. Cardinality(places) \in Nat
    <2>1. IsFiniteSet(1 .. Len(s))
      BY <1>2, FS_Interval
    <2> QED BY <1>2, <2>1, FS_Subset, FS_CardinalityType
  <1>4. \A k \in DOMAIN f : f[k] \in places /\ k \in Int /\ f[k] \in Int
    BY <1>2, <1>3
  <1>5. t \in Seq(S)
    <2>1. t \in [1 .. Cardinality(places) -> S]
      BY <1>1, <1>2, <1>4
    <2>2. t \in UNION {[1 .. n -> S] : n \in Nat}
      BY <1>3, <2>1
    <2> QED BY <2>2, SeqDef, Zenon
  <1>6. DOMAIN t = DOMAIN f /\ \A k \in DOMAIN t : t[k] = s[f[k]]
    BY <1>1
  <1>7. ToSet(t) = ToSet(s) \cap keep
    <2>1. \A k \in DOMAIN t : t[k] \in ToSet(s) \cap keep
      BY <1>4, <1>6 DEF ToSet
    <2>2. \A i \in DOMAIN s : s[i] \in keep => \E k \in DOMAIN t : t[k] = s[i]
      BY <1>1, <1>6
    <2> QED BY <2>1, <2>2 DEF ToSet
  <1>8. \A j, k \in DOMAIN f : f[j] = f[k] => j = k
    BY <1>1, <1>4
  <1>9. Distinct(s) => Distinct(t)
    BY <1>4, <1>6, <1>8 DEF Distinct
  <1>10. ASSUME NEW order, InOrder(s, order) PROVE InOrder(t, order)
    <2> SUFFICES ASSUME NEW i \in DOMAIN t, NEW j \in DOMAIN t, <<t[i], t[j]>> \in order
                 PROVE  i < j
      BY DEF InOrder
    <2>1. f[i] < f[j]
      BY <1>4, <1>6, <1>10 DEF InOrder
    <2>2. i \in DOMAIN f /\ j \in DOMAIN f /\ f[i] \in Int /\ f[j] \in Int /\ i \in Int /\ j \in Int
      BY <1>4, <1>6
    <2>3. ASSUME j < i PROVE FALSE
      <3>1. f[j] < f[i]
        BY <1>1, <2>2, <2>3
      <3> QED BY <2>1, <2>2, <3>1
    <2>4. i # j
      BY <2>1, <2>2
    <2> QED BY <2>2, <2>3, <2>4
  <1> QED BY <1>5, <1>7, <1>9, <1>10

\* A smaller relation orders a vector that a larger one does.
LEMMA OrderShrinks ==
  ASSUME NEW s, NEW order, NEW less, InOrder(s, order),
         \A a, b \in ToSet(s) : <<a, b>> \in less => <<a, b>> \in order
  PROVE  InOrder(s, less)
  BY DEF InOrder, ToSet

-----------------------------------------------------------------------------
(* Types.                                                                    *)

Stages == {"take", "simple", "delayed", "collect", "notify", "finish", "construct"}
Notice == {p \in [listener : Nat, object : Nat, serial : Nat] : p.serial \in {0, p.object}}
Note == [listener : Nat, wanted : Nat, serial : Nat, given : Addresses, asOf : Nat]
Item == Nat \cup Note

FrameRecord ==
    [hook : Methods \cup {"construct"}, at : Stages, items : Seq(Item), deferred : Seq(Nat),
     doomed : SUBSET Nat, busy : BOOLEAN]

\* The object that a notification was queued for is that of the pointer it was
\* given when it was collected, and is still there, or gone, or replaced by one
\* that was constructed since: if it had a serial number when it was queued.
RightlyGiven(n) ==
    /\ n.wanted \in 1 .. Len(address) /\ n.asOf \in n.wanted .. Len(address)
    /\ n.serial # 0 => /\ n.given = address[n.wanted]
                       /\ slot.object \in {0, n.wanted} \/ slot.object > n.asOf

\* What a frame has in hand at each stage.
FrameOK(f) ==
    /\ f.hook = "construct" <=> f.at = "construct"
    /\ f.at = "simple" => ToSet(f.items) \cup ToSet(f.deferred) \subseteq DOMAIN action
    /\ f.at # "simple" => f.deferred = <<>>
    /\ f.at = "notify" =>
          \A n \in ToSet(f.items) : n \in Note /\ n.listener \in DOMAIN enrolled /\ RightlyGiven(n)
    /\ f.at = "construct" => ToSet(f.items) \subseteq DOMAIN enrolled
    /\ f.at \notin {"notify", "construct"} => f.doomed = {}
    /\ f.doomed \subseteq cancelled
    /\ f.busy => f.at \in {"simple", "delayed", "notify", "construct"}
    /\ f.busy /\ f.at # "delayed" => f.items # <<>>

\* Every call that made another one runs Lua.
FramesOK ==
    /\ frames \in Seq(FrameRecord)
    /\ \A k \in DOMAIN frames : FrameOK(frames[k]) /\ (k < Len(frames) => frames[k].busy)

ActionsOK ==
    /\ open \subseteq Mods
    /\ action \in Seq([mod : Mods, method : Methods])
    /\ ready \in [Methods -> Seq(Nat)] /\ waiting \in [Methods -> Seq(Nat)]
    /\ \A h \in Methods : ToSet(ready[h]) \cup ToSet(waiting[h]) \subseteq DOMAIN action
    /\ finished \cup dropped \cup late \cup deferred \cup escaped \subseteq DOMAIN action

ListenersOK ==
    /\ enrolled \in Seq(Mods) /\ Len(enrolled) <= MaxListeners
    /\ listeners \in Seq(Nat) /\ ToSet(listeners) \subseteq DOMAIN enrolled
    /\ cancelled \subseteq DOMAIN enrolled /\ spared \subseteq cancelled
    /\ pending \in Seq(Notice)
    /\ \A p \in ToSet(pending) : p.listener \in DOMAIN enrolled /\ p.object \in 1 .. Len(address)

\* The entry of the object array.
ObjectsOK ==
    /\ address \in Seq(Addresses) /\ Len(address) <= MaxObjects
    /\ slot \in [object : 0 .. Len(address), serial : Nat] /\ slot.serial \in {0, slot.object}
    /\ constructing \in BOOLEAN /\ (constructing => slot.object # 0)

FlagsOK ==
    /\ processing \in BOOLEAN /\ executing \in BOOLEAN
    /\ registered \subseteq Methods \cup {"delayed", "notify"}

Types == ActionsOK /\ ListenersOK /\ ObjectsOK /\ FlagsOK /\ FramesOK

\* A new object comes after all others and leaves their addresses known.
ObjectsGrow ==
    /\ Len(address) \in Nat /\ Len(address') \in Nat /\ Len(address) <= Len(address')
    /\ \A k \in 1 .. Len(address) : address'[k] = address[k]
    /\ slot'.object \in Nat
    /\ slot'.object \in {0, slot.object} \/ slot'.object > Len(address)

\* What is registered or queued stays known, who cancelled stays cancelled.
Grows ==
    /\ DOMAIN action \subseteq DOMAIN action'
    /\ \A a \in DOMAIN action : action'[a] = action[a]
    /\ DOMAIN enrolled \subseteq DOMAIN enrolled'
    /\ cancelled \subseteq cancelled'
    /\ ObjectsGrow

LEMMA RightlyStays ==
  ASSUME ObjectsGrow, NEW n, RightlyGiven(n)
  PROVE  RightlyGiven(n)'
  <1>1. n.wanted \in 1 .. Len(address) /\ n.asOf \in n.wanted .. Len(address)
    BY DEF RightlyGiven
  <1>2. n.wanted \in 1 .. Len(address') /\ n.asOf \in n.wanted .. Len(address')
        /\ address'[n.wanted] = address[n.wanted]
    BY <1>1 DEF ObjectsGrow
  <1>3. CASE n.serial = 0
    BY <1>2, <1>3 DEF RightlyGiven
  <1>4. CASE n.serial # 0
    <2>1. n.given = address'[n.wanted]
      BY <1>2, <1>4 DEF RightlyGiven
    <2>2. slot'.object \in {0, n.wanted} \/ slot'.object > n.asOf
      <3>1. slot.object \in {0, n.wanted} \/ slot.object > n.asOf
        BY <1>4 DEF RightlyGiven
      <3>2. slot'.object > Len(address) => slot'.object > n.asOf
        BY <1>1 DEF ObjectsGrow
      <3> QED BY <3>1, <3>2 DEF ObjectsGrow
    <2> QED BY <1>2, <2>1, <2>2 DEF RightlyGiven
  <1> QED BY <1>3, <1>4

LEMMA FrameStays ==
  ASSUME Grows, NEW f, FrameOK(f)
  PROVE  FrameOK(f)'
  BY RightlyStays DEF Grows, FrameOK

LEMMA FramesStay ==
  ASSUME FramesOK, Grows, UNCHANGED frames
  PROVE  FramesOK'
  <1>1. \A k \in DOMAIN frames : FrameOK(frames[k])'
    <2> TAKE k \in DOMAIN frames
    <2>1. PICK f : f = frames[k]
      OBVIOUS
    <2>2. FrameOK(f)'
      BY <2>1, FrameStays DEF FramesOK
    <2>3. f = frames'[k]
      BY <2>1
    <2> QED BY <2>2, <2>3
  <1> QED BY <1>1 DEF FramesOK

LEMMA TopIsFrame ==
  ASSUME FramesOK, frames # <<>>
  PROVE  /\ Len(frames) \in Nat \ {0} /\ Len(frames) \in DOMAIN frames
         /\ DOMAIN frames = 1 .. Len(frames)
         /\ Top \in FrameRecord /\ Top = frames[Len(frames)] /\ FrameOK(Top)
  BY EmptySeq, LenProperties, ElementOfSeq DEF FramesOK, Top

LEMMA TopChanged ==
  ASSUME FramesOK, Grows, frames # <<>>, NEW f \in FrameRecord, FrameOK(f)', SetTop(f)
  PROVE  /\ FramesOK'
         /\ Len(frames') = Len(frames) /\ DOMAIN frames' = DOMAIN frames
         /\ frames'[Len(frames)] = f
         /\ \A k \in DOMAIN frames : k # Len(frames) => frames'[k] = frames[k]
         /\ frames' # <<>> /\ Top' = f
  <1>1. frames' = [frames EXCEPT ![Len(frames)] = f]
    BY DEF SetTop, ReplaceAt
  <1>2. Len(frames) \in 1 .. Len(frames) /\ DOMAIN frames = 1 .. Len(frames)
    BY TopIsFrame
  <1>3. frames' \in Seq(FrameRecord) /\ Len(frames') = Len(frames)
    BY <1>1, <1>2, ExceptSeq DEF FramesOK
  <1>4. /\ DOMAIN frames' = DOMAIN frames
        /\ frames'[Len(frames)] = f
        /\ \A k \in DOMAIN frames : k # Len(frames) => frames'[k] = frames[k]
    BY <1>1, <1>2
  <1>5. \A k \in DOMAIN frames : FrameOK(frames[k])'
    <2> TAKE k \in DOMAIN frames
    <2>1. PICK g : g = frames'[k]
      OBVIOUS
    <2>2. CASE k = Len(frames)
      <3>1. g = f
        BY <1>4, <2>1, <2>2
      <3>2. FrameOK(g)'
        BY <3>1
      <3> QED BY <2>1, <3>2
    <2>3. CASE k # Len(frames)
      <3>1. g = frames[k]
        BY <1>4, <2>1, <2>3
      <3>2. FrameOK(g)'
        BY <3>1, FrameStays DEF FramesOK
      <3> QED BY <2>1, <3>2
    <2> QED BY <2>2, <2>3
  <1>6. FramesOK'
    BY <1>2, <1>3, <1>4, <1>5 DEF FramesOK
  <1>7. frames' # <<>> /\ Top' = f
    BY <1>2, <1>3, <1>4, EmptySeq DEF Top
  <1> QED BY <1>3, <1>4, <1>6, <1>7

LEMMA TopPushed ==
  ASSUME FramesOK, Grows, GameIsFree, NEW f \in FrameRecord, FrameOK(f)', Push(f)
  PROVE  /\ FramesOK'
         /\ Len(frames') = Len(frames) + 1 /\ Len(frames) \in Nat
         /\ DOMAIN frames = 1 .. Len(frames) /\ DOMAIN frames' = 1 .. Len(frames) + 1
         /\ frames'[Len(frames) + 1] = f
         /\ \A k \in DOMAIN frames : frames'[k] = frames[k] /\ frames[k].busy
  <1> DEFINE n == Len(frames)
  <1>1. n \in Nat /\ DOMAIN frames = 1 .. n
    BY LenProperties DEF FramesOK
  <1>2. /\ frames' \in Seq(FrameRecord) /\ Len(frames') = n + 1
        /\ frames'[n + 1] = f
        /\ \A k \in 1 .. n : frames'[k] = frames[k]
    BY <1>1, AppendProperties DEF FramesOK, Push
  <1>3. DOMAIN frames' = 1 .. n + 1
    BY <1>2, LenProperties
  <1>4. \A k \in 1 .. n : frames[k].busy
    <2>1. CASE frames = <<>>
      BY <1>1, <2>1, EmptySeq
    <2>2. CASE frames # <<>>
      BY <1>1, <2>2, TopIsFrame DEF FramesOK, GameIsFree
    <2> QED BY <2>1, <2>2
  <1> HIDE DEF n
  <1>5. \A k \in 1 .. n + 1 : FrameOK(frames[k])'
    <2> TAKE k \in 1 .. n + 1
    <2>1. PICK g : g = frames'[k]
      OBVIOUS
    <2>2. CASE k = n + 1
      <3>1. g = f
        BY <1>2, <2>1, <2>2
      <3>2. FrameOK(g)'
        BY <3>1
      <3> QED BY <2>1, <3>2
    <2>3. CASE k # n + 1
      <3>1. k \in 1 .. n
        BY <1>1, <2>3
      <3>2. g = frames[k] /\ k \in DOMAIN frames
        BY <1>1, <1>2, <2>1, <3>1
      <3>3. FrameOK(g)'
        BY <3>2, FrameStays DEF FramesOK
      <3> QED BY <2>1, <3>3
    <2> QED BY <2>2, <2>3
  <1>6. \A k \in 1 .. n + 1 : k < n + 1 => frames'[k].busy
    BY <1>1, <1>2, <1>4
  <1>7. FramesOK'
    BY <1>2, <1>3, <1>5, <1>6 DEF FramesOK
  <1> QED BY <1>1, <1>2, <1>3, <1>4, <1>7 DEF n

LEMMA TopPopped ==
  ASSUME FramesOK, Grows, frames # <<>>, Pop
  PROVE  /\ FramesOK'
         /\ Len(frames') = Len(frames) - 1 /\ DOMAIN frames' = 1 .. Len(frames) - 1
         /\ \A k \in DOMAIN frames' : k \in DOMAIN frames /\ frames'[k] = frames[k]
         /\ \A k \in DOMAIN frames : k # Len(frames) => k \in DOMAIN frames'
  <1> DEFINE n == Len(frames) - 1
  <1>1. Len(frames) \in Nat \ {0} /\ DOMAIN frames = 1 .. Len(frames)
    BY TopIsFrame
  <1>2. \A k \in 1 .. n : frames[k] \in FrameRecord
    BY <1>1, ElementOfSeq DEF FramesOK
  <1>3. /\ frames' \in Seq(FrameRecord) /\ Len(frames') = n
        /\ \A k \in 1 .. n : frames'[k] = frames[k]
    <2>1. 1 \in Int /\ n \in Int
      BY <1>1
    <2>2. /\ SubSeq(frames, 1, n) \in Seq(FrameRecord)
          /\ Len(SubSeq(frames, 1, n)) = IF 1 <= n THEN n - 1 + 1 ELSE 0
          /\ \A k \in 1 .. n - 1 + 1 : SubSeq(frames, 1, n)[k] = frames[1 + k - 1]
      BY <1>2, <2>1, SubSeqProperties
    <2>3. n - 1 + 1 = n /\ \A k \in 1 .. n : 1 + k - 1 = k
      BY <1>1
    <2> QED BY <1>1, <2>2, <2>3 DEF Front, Pop
  <1>4. DOMAIN frames' = 1 .. n
    BY <1>3, LenProperties
  <1>5. \A k \in DOMAIN frames' : k \in DOMAIN frames /\ frames'[k] = frames[k] /\ k < Len(frames)
    BY <1>1, <1>3, <1>4
  <1>6. \A k \in DOMAIN frames' : FrameOK(frames[k])'
    <2> TAKE k \in DOMAIN frames'
    <2>1. PICK g : g = frames'[k]
      OBVIOUS
    <2>2. FrameOK(g)'
      BY <1>5, <2>1, FrameStays DEF FramesOK
    <2> QED BY <2>1, <2>2
  <1>7. FramesOK'
    BY <1>3, <1>5, <1>6 DEF FramesOK
  <1>8. \A k \in DOMAIN frames : k # Len(frames) => k \in DOMAIN frames'
    BY <1>1, <1>4
  <1> QED BY <1>3, <1>4, <1>5, <1>7, <1>8

-----------------------------------------------------------------------------
(* The frame each step leaves on top of the stack.                           *)

LEMMA ItemsOf ==
  ASSUME NEW S, S \subseteq Item, NEW s \in Seq(S)
  PROVE  s \in Seq(Item)
  BY SeqMonotonic

LEMMA FreshFrame ==
  ASSUME NEW hook \in Methods \cup {"construct"}, NEW at \in Stages, NEW items \in Seq(Item)
  PROVE  /\ Frame(hook, at, items) \in FrameRecord
         /\ Frame(hook, at, items).hook = hook /\ Frame(hook, at, items).at = at
         /\ Frame(hook, at, items).items = items /\ Frame(hook, at, items).deferred = <<>>
         /\ Frame(hook, at, items).doomed = {} /\ ~Frame(hook, at, items).busy
  <1>1. <<>> \in Seq(Nat)
    BY EmptySeq
  <1> QED BY <1>1 DEF Frame, FrameRecord

LEMMA EmptyFrame ==
  ASSUME NEW hook \in Methods, NEW at \in Stages
  PROVE  /\ Frame(hook, at, <<>>) \in FrameRecord
         /\ Frame(hook, at, <<>>).hook = hook /\ Frame(hook, at, <<>>).at = at
         /\ Frame(hook, at, <<>>).deferred = <<>>
         /\ Frame(hook, at, <<>>).doomed = {} /\ ~Frame(hook, at, <<>>).busy
  <1> DEFINE none == <<>>
  <1>1. none \in Seq(Item)
    BY EmptySeq
  <1> HIDE DEF none
  <1>2. /\ Frame(hook, at, none) \in FrameRecord
        /\ Frame(hook, at, none).hook = hook /\ Frame(hook, at, none).at = at
        /\ Frame(hook, at, none).deferred = <<>>
        /\ Frame(hook, at, none).doomed = {} /\ ~Frame(hook, at, none).busy
    BY <1>1, FreshFrame
  <1> QED BY <1>2 DEF none

\* A stage of a pass or of a construction is that of a frame that exists.
LEMMA AtTop ==
  ASSUME Types, NEW stage, At(stage)
  PROVE  /\ frames # <<>> /\ Top.at = stage /\ Top \in FrameRecord /\ FrameOK(Top)
         /\ Top.hook \in Methods \cup {"construct"} /\ (stage # "construct" => Top.hook \in Methods)
         /\ Top.items \in Seq(Item) /\ Top.deferred \in Seq(Nat) /\ Top.doomed \in SUBSET Nat
         /\ Top.busy \in BOOLEAN /\ Top.at \in Stages
  <1>1. frames # <<>> /\ Top.at = stage /\ Top \in FrameRecord /\ FrameOK(Top)
    BY TopIsFrame DEF At, Types
  <1> QED BY <1>1 DEF FrameRecord, FrameOK

\* What a frame of simple actions must have in hand.
LEMMA SimpleFrame ==
  ASSUME UNCHANGED <<action, cancelled>>, NEW f \in FrameRecord,
         f.hook \in Methods, f.at = "simple", f.doomed = {},
         ToSet(f.items) \cup ToSet(f.deferred) \subseteq DOMAIN action, f.busy => f.items # <<>>
  PROVE  FrameOK(f)'
  BY DEF FrameOK, Methods

LEMMA TakeTop ==
  ASSUME Types, TakeActions
  PROVE  \E f \in FrameRecord :
           /\ SetTop(f) /\ FrameOK(f)' /\ frames # <<>>
           /\ f.hook = Top.hook /\ f.deferred = <<>> /\ f.doomed = {} /\ ~f.busy
           /\ IF ready[Top.hook] = <<>> THEN f.at = "delayed" /\ ready' = ready
              ELSE /\ f.at = "simple" /\ f.items = ready[Top.hook]
                   /\ ready' = [ready EXCEPT ![Top.hook] = <<>>]
  <1>1. At("take")
    BY DEF TakeActions
  <1>2. Top \in FrameRecord /\ Top.hook \in Methods
    BY <1>1, AtTop
  <1>5. Top.deferred = <<>> /\ Top.doomed = {} /\ ~Top.busy /\ frames # <<>>
    BY <1>1, AtTop DEF FrameOK
  <1>6. UNCHANGED <<action, enrolled, cancelled>>
    BY DEF TakeActions, notifyVars
  <1>3. CASE ready[Top.hook] = <<>>
    <2> DEFINE g == [Top EXCEPT !.at = "delayed"]
    <2>1. g \in FrameRecord /\ g.hook = Top.hook /\ g.deferred = Top.deferred /\ g.doomed = Top.doomed
          /\ g.busy = Top.busy /\ g.at = "delayed"
      BY <1>2 DEF FrameRecord, Stages
    <2>2. SetTop(g) /\ ready' = ready
      BY <1>3 DEF TakeActions
    <2> HIDE DEF g
    <2>3. PICK f \in FrameRecord :
             SetTop(f) /\ f.hook = Top.hook /\ f.deferred = <<>> /\ f.doomed = {} /\ ~f.busy
             /\ f.at = "delayed"
      BY <1>5, <2>1, <2>2
    <2>4. FrameOK(f)'
      BY <1>2, <2>3 DEF FrameOK, Methods
    <2> QED BY <1>3, <1>5, <2>2, <2>3, <2>4
  <1>4. CASE ready[Top.hook] # <<>>
    <2> DEFINE g == [Top EXCEPT !.at = "simple", !.items = ready[Top.hook]]
    <2>1. ready[Top.hook] \in Seq(Item)
      BY <1>2, ItemsOf DEF Types, ActionsOK, Item
    <2>2. g \in FrameRecord /\ g.hook = Top.hook /\ g.deferred = Top.deferred /\ g.doomed = Top.doomed
          /\ g.busy = Top.busy /\ g.at = "simple" /\ g.items = ready[Top.hook]
      BY <1>2, <2>1 DEF FrameRecord, Stages
    <2>3. SetTop(g) /\ ready' = [ready EXCEPT ![Top.hook] = <<>>]
      BY <1>4 DEF TakeActions
    <2> HIDE DEF g
    <2>4. PICK f \in FrameRecord :
             SetTop(f) /\ f.hook = Top.hook /\ f.deferred = <<>> /\ f.doomed = {} /\ ~f.busy
             /\ f.at = "simple" /\ f.items = ready[Top.hook]
      BY <1>5, <2>2, <2>3
    <2>5. ToSet(f.items) \cup ToSet(f.deferred) \subseteq DOMAIN action
      BY <1>2, <2>4, EmptyElements DEF Types, ActionsOK
    <2>6. FrameOK(f)'
      BY <1>2, <1>6, <2>4, <2>5, SimpleFrame
    <2> QED BY <1>4, <1>5, <2>3, <2>4, <2>6
  <1> QED BY <1>3, <1>4

\* The first item of a frame of simple actions, and the others.
LEMMA FirstAction ==
  ASSUME Types, At("simple"), Top.items # <<>>
  PROVE  /\ Head(Top.items) \in DOMAIN action /\ Head(Top.items) \in Nat
         /\ Head(Top.items) \in ToSet(Top.items) /\ ToSet(Tail(Top.items)) \subseteq DOMAIN action
         /\ Tail(Top.items) \in Seq(Item)
  <1>1. ToSet(Top.items) \subseteq DOMAIN action /\ Top.items \in Seq(Item)
    BY AtTop DEF FrameOK
  <1>2. DOMAIN action \subseteq Nat
    BY LenProperties DEF Types, ActionsOK
  <1> QED BY <1>1, <1>2, TailElements

LEMMA BeginActionTop ==
  ASSUME Types, BeginAction
  PROVE  \E f \in FrameRecord :
           /\ SetTop(f) /\ FrameOK(f)' /\ frames # <<>>
           /\ f.hook = Top.hook /\ f.at = "simple" /\ f.doomed = {}
           /\ IF executing
              THEN /\ f.items = Tail(Top.items) /\ f.deferred = Append(Top.deferred, Head(Top.items))
                   /\ ~f.busy
                   /\ executing' = executing /\ deferred' = deferred \cup {Head(Top.items)}
              ELSE /\ f.items = Top.items /\ f.deferred = Top.deferred /\ f.busy
                   /\ executing' = TRUE /\ deferred' = deferred
  <1>1. At("simple") /\ ~Top.busy /\ Top.items # <<>>
    BY DEF BeginAction
  <1>2. Top \in FrameRecord /\ Top.at = "simple" /\ Top.deferred \in Seq(Nat)
    BY <1>1, AtTop
  <1>5. /\ Top.hook \in Methods /\ frames # <<>> /\ Top.doomed = {}
        /\ ToSet(Top.items) \subseteq DOMAIN action /\ ToSet(Top.deferred) \subseteq DOMAIN action
    BY <1>1, AtTop DEF FrameOK
  <1>6. UNCHANGED <<action, cancelled>>
    BY DEF BeginAction, actionVars, notifyVars
  <1>3. CASE executing
    <2> DEFINE g == [Top EXCEPT !.items = Tail(@), !.deferred = Append(@, Head(Top.items))]
    <2>1. Tail(Top.items) \in Seq(Item) /\ Append(Top.deferred, Head(Top.items)) \in Seq(Nat)
      BY <1>1, <1>2, FirstAction, Appended
    <2>2. g \in FrameRecord /\ g.hook = Top.hook /\ g.at = "simple" /\ g.doomed = Top.doomed
          /\ g.items = Tail(Top.items) /\ g.deferred = Append(Top.deferred, Head(Top.items))
          /\ g.busy = Top.busy
      BY <1>2, <2>1 DEF FrameRecord
    <2>3. SetTop(g) /\ executing' = executing /\ deferred' = deferred \cup {Head(Top.items)}
      BY <1>3 DEF BeginAction
    <2>4. /\ ToSet(Tail(Top.items)) \subseteq DOMAIN action
          /\ ToSet(Append(Top.deferred, Head(Top.items))) \subseteq DOMAIN action
      BY <1>1, <1>2, <1>5, FirstAction, Appended
    <2> HIDE DEF g
    <2>5. PICK f \in FrameRecord :
             /\ SetTop(f) /\ f.hook = Top.hook /\ f.at = "simple" /\ f.doomed = {}
             /\ f.items = Tail(Top.items) /\ f.deferred = Append(Top.deferred, Head(Top.items))
             /\ ~f.busy
      BY <1>1, <1>5, <2>2, <2>3
    <2>6. FrameOK(f)'
      BY <1>5, <1>6, <2>4, <2>5, SimpleFrame
    <2> QED BY <1>3, <1>5, <2>3, <2>5, <2>6
  <1>4. CASE ~executing
    <2> DEFINE g == [Top EXCEPT !.busy = TRUE]
    <2>1. g \in FrameRecord /\ g.hook = Top.hook /\ g.at = "simple" /\ g.doomed = Top.doomed
          /\ g.items = Top.items /\ g.deferred = Top.deferred /\ g.busy
      BY <1>2 DEF FrameRecord
    <2>2. SetTop(g) /\ executing' = TRUE /\ deferred' = deferred
      BY <1>4 DEF BeginAction
    <2> HIDE DEF g
    <2>3. PICK f \in FrameRecord :
             /\ SetTop(f) /\ f.hook = Top.hook /\ f.at = "simple" /\ f.doomed = {}
             /\ f.items = Top.items /\ f.deferred = Top.deferred /\ f.busy
      BY <1>5, <2>1, <2>2
    <2>4. FrameOK(f)'
      BY <1>1, <1>5, <1>6, <2>3, SimpleFrame
    <2> QED BY <1>4, <1>5, <2>2, <2>3, <2>4
  <1> QED BY <1>3, <1>4

LEMMA EndActionTop ==
  ASSUME Types, EndAction
  PROVE  \E f \in FrameRecord :
           /\ SetTop(f) /\ FrameOK(f)' /\ frames # <<>> /\ Top.items # <<>>
           /\ f.hook = Top.hook /\ f.at = "simple" /\ f.doomed = {}
           /\ f.items = Tail(Top.items) /\ f.deferred = Top.deferred /\ ~f.busy
  <1>1. At("simple") /\ Top.busy
    BY DEF EndAction
  <1>2. Top \in FrameRecord /\ Top.at = "simple" /\ Top.items # <<>>
    BY <1>1, AtTop DEF FrameOK
  <1> DEFINE g == [Top EXCEPT !.busy = FALSE, !.items = Tail(@)]
  <1>3. Tail(Top.items) \in Seq(Item)
    BY <1>1, <1>2, FirstAction
  <1>4. g \in FrameRecord /\ g.hook = Top.hook /\ g.at = "simple" /\ g.doomed = Top.doomed
        /\ g.items = Tail(Top.items) /\ g.deferred = Top.deferred /\ ~g.busy
    BY <1>2, <1>3 DEF FrameRecord
  <1>5. SetTop(g)
    BY DEF EndAction
  <1> HIDE DEF g
  <1>6. /\ Top.hook \in Methods /\ frames # <<>> /\ Top.doomed = {}
        /\ ToSet(Tail(Top.items)) \subseteq DOMAIN action /\ ToSet(Top.deferred) \subseteq DOMAIN action
    BY <1>1, <1>2, AtTop, FirstAction DEF FrameOK
  <1>7. UNCHANGED <<action, cancelled>>
    BY DEF EndAction, actionVars, notifyVars
  <1>8. PICK f \in FrameRecord :
           /\ SetTop(f) /\ f.hook = Top.hook /\ f.at = "simple" /\ f.doomed = {}
           /\ f.items = Tail(Top.items) /\ f.deferred = Top.deferred /\ ~f.busy
    BY <1>4, <1>5, <1>6
  <1>9. FrameOK(f)'
    BY <1>6, <1>7, <1>8, SimpleFrame
  <1> QED BY <1>2, <1>6, <1>8, <1>9

\* A stage that ends leaves a frame with nothing in hand.
LEMMA StageEnds ==
  ASSUME Types, EndActions \/ EndDelayed \/ EndNotifications
  PROVE  \E f \in FrameRecord :
           /\ SetTop(f) /\ FrameOK(f)' /\ frames # <<>>
           /\ f.hook = Top.hook /\ f.at \in {"delayed", "collect", "finish"} /\ f.doomed = {} /\ ~f.busy
  <1>1. ASSUME NEW stage, stage # "construct", At(stage),
               NEW at \in {"delayed", "collect", "finish"}, SetTop(Frame(Top.hook, at, <<>>))
        PROVE  \E f \in FrameRecord :
                 /\ SetTop(f) /\ FrameOK(f)' /\ frames # <<>>
                 /\ f.hook = Top.hook /\ f.at = at /\ f.doomed = {} /\ ~f.busy
    <2>1. Top.hook \in Methods /\ frames # <<>> /\ at \in Stages /\ <<>> \in Seq(Item)
      BY <1>1, AtTop, EmptySeq DEF Stages
    <2> DEFINE g == Frame(Top.hook, at, <<>>)
    <2>2. /\ g \in FrameRecord /\ SetTop(g)
          /\ g.hook = Top.hook /\ g.at = at /\ g.doomed = {} /\ ~g.busy /\ g.deferred = <<>>
      BY <1>1, <2>1, EmptyFrame
    <2> HIDE DEF g
    <2>3. PICK f \in FrameRecord :
             /\ SetTop(f)
             /\ f.hook = Top.hook /\ f.at = at /\ f.doomed = {} /\ ~f.busy /\ f.deferred = <<>>
      BY <2>2
    <2>4. FrameOK(f)'
      BY <2>1, <2>3 DEF FrameOK, Methods
    <2> QED BY <2>1, <2>3, <2>4
  <1>2. CASE EndActions
    <2>1. At("simple") /\ SetTop(Frame(Top.hook, "delayed", <<>>))
      BY <1>2 DEF EndActions
    <2> QED BY <1>1, <2>1
  <1>3. CASE EndDelayed
    <2>1. At("delayed") /\ SetTop(Frame(Top.hook, "collect", <<>>))
      BY <1>3 DEF EndDelayed
    <2> QED BY <1>1, <2>1
  <1>4. CASE EndNotifications
    <2>1. At("notify") /\ SetTop(Frame(Top.hook, "finish", <<>>))
      BY <1>4 DEF EndNotifications
    <2> QED BY <1>1, <2>1
  <1> QED BY <1>2, <1>3, <1>4

LEMMA BeginDelayedTop ==
  ASSUME Types, BeginDelayed
  PROVE  \E f \in FrameRecord :
           /\ SetTop(f) /\ FrameOK(f)' /\ frames # <<>>
           /\ f.hook = Top.hook /\ f.at = "delayed" /\ f.doomed = {} /\ f.busy
  <1>1. At("delayed") /\ SetTop([Top EXCEPT !.busy = TRUE])
    BY DEF BeginDelayed
  <1>2. Top \in FrameRecord /\ Top.at = "delayed" /\ FrameOK(Top) /\ frames # <<>> /\ Top.hook \in Methods
    BY <1>1, AtTop
  <1>3. [Top EXCEPT !.busy = TRUE] \in FrameRecord
    BY <1>2 DEF FrameRecord
  <1>4. PICK f \in FrameRecord : f = [Top EXCEPT !.busy = TRUE]
    BY <1>3
  <1>5. f.hook = Top.hook /\ f.at = "delayed" /\ f.doomed = {} /\ f.busy /\ f.deferred = <<>>
    BY <1>2, <1>4 DEF FrameRecord, FrameOK
  <1>6. FrameOK(f)'
    BY <1>2, <1>5 DEF FrameOK, Methods
  <1> QED BY <1>1, <1>2, <1>4, <1>5, <1>6
\* A function on 1 .. n is a sequence.
LEMMA FunctionIsSeq ==
  ASSUME NEW S, NEW n \in Nat, NEW s \in [1 .. n -> S]
  PROVE  s \in Seq(S)
  <1>1. s \in UNION {[1 .. k -> S] : k \in Nat}
    OBVIOUS
  <1> QED BY <1>1, SeqDef, Zenon

\* The pointers that are taken with the queue: of the object, or of whatever is
\* in the entry by now if the object had no serial number.
LEMMA CollectTop ==
  ASSUME Types, CollectNotifications
  PROVE  \E f \in FrameRecord :
           /\ SetTop(f) /\ FrameOK(f)' /\ frames # <<>>
           /\ f.hook = Top.hook /\ f.at \in {"notify", "finish"} /\ f.doomed = {} /\ ~f.busy
  <1>1. At("collect")
    BY DEF CollectNotifications
  <1>2. /\ Top \in FrameRecord /\ FrameOK(Top) /\ frames # <<>> /\ Top.hook \in Methods
        /\ ~Top.busy /\ Top.doomed = {} /\ Top.deferred = <<>>
    BY <1>1, AtTop DEF FrameOK
  <1>3. CASE pending = <<>>
    <2> DEFINE g == [Top EXCEPT !.at = "finish"]
    <2>1. SetTop(g)
      BY <1>3 DEF CollectNotifications
    <2>2. g \in FrameRecord /\ g.hook = Top.hook /\ g.at = "finish" /\ g.doomed = {} /\ ~g.busy
          /\ g.deferred = <<>>
      BY <1>2 DEF FrameRecord, Stages
    <2>3. PICK f \in FrameRecord :
             SetTop(f) /\ f.hook = Top.hook /\ f.at = "finish" /\ f.doomed = {} /\ ~f.busy
             /\ f.deferred = <<>>
      BY <2>1, <2>2
    <2>4. FrameOK(f)'
      BY <1>2, <2>3 DEF FrameOK, Methods
    <2> QED BY <1>2, <2>3, <2>4
  <1>4. CASE pending # <<>>
    <2>1. PICK valid \in Kept(pending, {p \in ToSet(pending) : StillValid(p)}) :
             SetTop([Top EXCEPT !.at = "notify",
                        !.items = [k \in DOMAIN valid |->
                           [listener |-> valid[k].listener, wanted |-> valid[k].object,
                            serial |-> valid[k].serial, given |-> address[slot.object],
                            asOf |-> Len(address)]]])
      BY <1>4 DEF CollectNotifications
    <2> DEFINE notes == [k \in DOMAIN valid |->
                           [listener |-> valid[k].listener, wanted |-> valid[k].object,
                            serial |-> valid[k].serial, given |-> address[slot.object],
                            asOf |-> Len(address)]]
    <2>2. valid \in Seq(Notice) /\ ToSet(valid) \subseteq {p \in ToSet(pending) : StillValid(p)}
      BY KeptElements DEF Types, ListenersOK
    <2>3. /\ Len(valid) \in Nat /\ DOMAIN valid = 1 .. Len(valid)
          /\ \A k \in DOMAIN valid : valid[k] \in Notice /\ valid[k] \in ToSet(valid)
      BY <2>2, Elements
    <2>4. ASSUME NEW k \in DOMAIN valid
          PROVE  notes[k] \in Note /\ notes[k].listener \in DOMAIN enrolled /\ RightlyGiven(notes[k])
      <3> DEFINE p == valid[k]
      <3>1. /\ p \in Notice /\ p.listener \in DOMAIN enrolled /\ p.object \in 1 .. Len(address)
            /\ slot.object # 0 /\ (p.serial # 0 => slot.serial = p.serial)
        BY <2>2, <2>3 DEF Types, ListenersOK, StillValid
      <3>2. /\ slot.object \in 1 .. Len(address) /\ slot.serial \in {0, slot.object}
            /\ Len(address) \in Nat /\ address[slot.object] \in Addresses
        <4>1. Len(address) \in Nat /\ DOMAIN address = 1 .. Len(address)
              /\ \A i \in DOMAIN address : address[i] \in Addresses
          BY Elements DEF Types, ObjectsOK
        <4>2. slot.object \in 1 .. Len(address)
          BY <3>1, <4>1 DEF Types, ObjectsOK
        <4> QED BY <4>1, <4>2 DEF Types, ObjectsOK
      <3>3. p.listener \in Nat /\ p.object \in Nat /\ p.serial \in Nat /\ p.serial \in {0, p.object}
        BY <3>1 DEF Notice
      <3>4. slot.object = p.object \/ p.serial = 0
        BY <3>1, <3>2, <3>3
      <3>5. notes[k] = [listener |-> p.listener, wanted |-> p.object, serial |-> p.serial,
                        given |-> address[slot.object], asOf |-> Len(address)]
        OBVIOUS
      <3> HIDE DEF p, notes
      <3>6. /\ notes[k] \in Note /\ notes[k].listener = p.listener /\ notes[k].wanted = p.object
            /\ notes[k].serial = p.serial /\ notes[k].given = address[slot.object]
            /\ notes[k].asOf = Len(address)
        BY <3>2, <3>3, <3>5 DEF Note
      <3>7. Len(address) \in p.object .. Len(address)
        BY <3>1, <3>2
      <3>8. RightlyGiven(notes[k])
        BY <3>1, <3>4, <3>6, <3>7 DEF RightlyGiven
      <3> QED BY <3>1, <3>6, <3>8
    <2>5. notes \in Seq(Note)
      <3>1. DOMAIN notes = 1 .. Len(valid)
        BY <2>3
      <3>2. notes \in [1 .. Len(valid) -> Note]
        BY <2>3, <2>4, <3>1
      <3> HIDE DEF notes
      <3> QED BY <2>3, <3>2, FunctionIsSeq
    <2>6. \A n \in ToSet(notes) : n \in Note /\ n.listener \in DOMAIN enrolled /\ RightlyGiven(n)
      <3>1. DOMAIN notes = DOMAIN valid
        OBVIOUS
      <3> HIDE DEF notes
      <3> QED BY <2>4, <3>1 DEF ToSet
    <2>7. notes \in Seq(Item)
      <3> HIDE DEF notes
      <3> QED BY <2>5, ItemsOf DEF Item
    <2>8. SetTop([Top EXCEPT !.at = "notify", !.items = notes])
      BY <2>1
    <2> HIDE DEF notes
    <2> DEFINE g == [Top EXCEPT !.at = "notify", !.items = notes]
    <2>9. /\ g \in FrameRecord /\ SetTop(g) /\ g.hook = Top.hook /\ g.at = "notify" /\ g.doomed = {}
          /\ ~g.busy /\ g.deferred = <<>> /\ g.items = notes
      BY <1>2, <2>7, <2>8 DEF FrameRecord, Stages
    <2> HIDE DEF g
    <2>10. PICK f \in FrameRecord :
             /\ SetTop(f) /\ f.hook = Top.hook /\ f.at = "notify" /\ f.doomed = {} /\ ~f.busy
             /\ f.deferred = <<>>
             /\ \A n \in ToSet(f.items) : n \in Note /\ n.listener \in DOMAIN enrolled /\ RightlyGiven(n)
      BY <2>6, <2>9
    <2>11. UNCHANGED <<enrolled, slot, address>> /\ Top.hook # "construct"
      BY <1>2 DEF CollectNotifications, Methods, objectVars
    <2>12. \A n : RightlyGiven(n) => RightlyGiven(n)'
      BY <2>11 DEF RightlyGiven
    <2>13. FrameOK(f)'
      BY <2>10, <2>11, <2>12 DEF FrameOK
    <2> QED BY <1>2, <2>10, <2>13
  <1> QED BY <1>3, <1>4

LEMMA FirstItem ==
  ASSUME Types, At("notify") \/ At("construct"), Top.items # <<>>
  PROVE  /\ Tail(Top.items) \in Seq(Item) /\ ToSet(Tail(Top.items)) \subseteq ToSet(Top.items)
         /\ Head(Top.items) \in ToSet(Top.items)
         /\ At("notify") => Head(Top.items).listener \in DOMAIN enrolled
         /\ At("construct") => Head(Top.items) \in DOMAIN enrolled
  <1>1. Top.items \in Seq(Item) /\ FrameOK(Top) /\ (At("notify") => Top.at = "notify")
        /\ (At("construct") => Top.at = "construct")
    BY AtTop
  <1>2. /\ Tail(Top.items) \in Seq(Item)
        /\ ToSet(Top.items) = ToSet(Tail(Top.items)) \cup {Head(Top.items)}
    BY <1>1, TailElements
  <1> QED BY <1>1, <1>2 DEF FrameOK

\* A listener that is called, skipped or returns: only its frame changes, and
\* who is cancelled is remembered there.
LEMMA ListenerTop ==
  ASSUME Types,
         \/ BeginNotification \/ BeginListener
         \/ \E c \in BOOLEAN : EndNotification(c) \/ EndListener(c)
  PROVE  /\ \E f \in FrameRecord :
              /\ SetTop(f) /\ FrameOK(f)' /\ frames # <<>>
              /\ f.hook = Top.hook /\ f.at = Top.at /\ f.at \in {"notify", "construct"}
              /\ Top.doomed \subseteq f.doomed /\ cancelled' \ cancelled \subseteq f.doomed
         /\ cancelled \subseteq cancelled' /\ cancelled' \subseteq DOMAIN enrolled
  <1> DEFINE Result ==
          /\ \E f \in FrameRecord :
              /\ SetTop(f) /\ FrameOK(f)' /\ frames # <<>>
              /\ f.hook = Top.hook /\ f.at = Top.at /\ f.at \in {"notify", "construct"}
              /\ Top.doomed \subseteq f.doomed /\ cancelled' \ cancelled \subseteq f.doomed
          /\ cancelled \subseteq cancelled' /\ cancelled' \subseteq DOMAIN enrolled
  <1>0. ASSUME UNCHANGED <<slot, address>>, NEW n, RightlyGiven(n) PROVE RightlyGiven(n)'
    BY <1>0 DEF RightlyGiven
  <1>1. ASSUME At("notify") \/ At("construct"), Top.items # <<>>,
               UNCHANGED <<enrolled, cancelled, slot, address>>,
               \/ ~Top.busy /\ SetTop([Top EXCEPT !.busy = TRUE])
               \/ ~Top.busy /\ SetTop([Top EXCEPT !.items = Tail(@)])
        PROVE  Result
    <2>1. /\ Top \in FrameRecord /\ FrameOK(Top) /\ frames # <<>> /\ Top.at \in {"notify", "construct"}
          /\ Top.deferred = <<>>
      BY <1>1, AtTop DEF FrameOK
    <2>2. \E f \in FrameRecord :
             /\ SetTop(f)
             /\ f.hook = Top.hook /\ f.at = Top.at /\ f.doomed = Top.doomed /\ f.deferred = <<>>
             /\ f.items = Top.items \/ (f.items = Tail(Top.items) /\ ~f.busy)
      <3>1. CASE ~Top.busy /\ SetTop([Top EXCEPT !.busy = TRUE])
        <4> DEFINE g == [Top EXCEPT !.busy = TRUE]
        <4>1. /\ g \in FrameRecord /\ g.hook = Top.hook /\ g.at = Top.at /\ g.doomed = Top.doomed
              /\ g.deferred = <<>> /\ g.items = Top.items
          BY <2>1 DEF FrameRecord
        <4> QED BY <3>1, <4>1
      <3>2. CASE ~Top.busy /\ SetTop([Top EXCEPT !.items = Tail(@)])
        <4> DEFINE g == [Top EXCEPT !.items = Tail(@)]
        <4>1. /\ g \in FrameRecord /\ g.hook = Top.hook /\ g.at = Top.at /\ g.doomed = Top.doomed
              /\ g.deferred = <<>> /\ g.items = Tail(Top.items) /\ ~g.busy
          BY <1>1, <2>1, <3>2, FirstItem DEF FrameRecord
        <4> QED BY <3>2, <4>1
      <3> QED BY <1>1, <3>1, <3>2
    <2>3. PICK f \in FrameRecord :
             /\ SetTop(f)
             /\ f.hook = Top.hook /\ f.at = Top.at /\ f.doomed = Top.doomed /\ f.deferred = <<>>
             /\ f.items = Top.items \/ (f.items = Tail(Top.items) /\ ~f.busy)
      BY <2>2
    <2>4. ToSet(f.items) \subseteq ToSet(Top.items) /\ (f.busy => f.items # <<>>)
      BY <1>1, <2>3, FirstItem
    <2>5. FrameOK(f)'
      BY <1>0, <1>1, <2>1, <2>3, <2>4 DEF FrameOK
    <2>6. cancelled' = cancelled /\ cancelled \subseteq DOMAIN enrolled
      BY <1>1 DEF Types, ListenersOK
    <2> QED BY <2>1, <2>3, <2>5, <2>6
  <1>2. ASSUME At("notify") \/ At("construct"), Top.busy, NEW c \in BOOLEAN, NEW l \in DOMAIN enrolled,
               UNCHANGED <<enrolled, slot, address>>, cancelled' = (IF c THEN cancelled \cup {l} ELSE cancelled),
               SetTop([Top EXCEPT !.busy = FALSE, !.items = Tail(@),
                                  !.doomed = IF c THEN @ \cup {l} ELSE @])
        PROVE  Result
    <2>1. /\ Top \in FrameRecord /\ FrameOK(Top) /\ frames # <<>> /\ Top.at \in {"notify", "construct"}
          /\ Top.deferred = <<>> /\ Top.items # <<>>
      BY <1>2, AtTop DEF FrameOK
    <2>2. cancelled \subseteq cancelled' /\ cancelled' \subseteq DOMAIN enrolled
      BY <1>2 DEF Types, ListenersOK
    <2>3. l \in Nat
      BY LenProperties DEF Types, ListenersOK
    <2> DEFINE g == [Top EXCEPT !.busy = FALSE, !.items = Tail(@),
                                !.doomed = IF c THEN @ \cup {l} ELSE @]
    <2>4. Tail(Top.items) \in Seq(Item) /\ (IF c THEN Top.doomed \cup {l} ELSE Top.doomed) \in SUBSET Nat
      BY <1>2, <2>1, <2>3, FirstItem DEF FrameRecord
    <2>5. /\ g \in FrameRecord /\ SetTop(g) /\ g.hook = Top.hook /\ g.at = Top.at
          /\ g.doomed = (IF c THEN Top.doomed \cup {l} ELSE Top.doomed)
          /\ g.deferred = <<>> /\ g.items = Tail(Top.items) /\ ~g.busy
      BY <1>2, <2>1, <2>4 DEF FrameRecord
    <2> HIDE DEF g
    <2>6. PICK f \in FrameRecord :
             /\ SetTop(f) /\ f.hook = Top.hook /\ f.at = Top.at
             /\ f.doomed = (IF c THEN Top.doomed \cup {l} ELSE Top.doomed)
             /\ f.deferred = <<>> /\ f.items = Tail(Top.items) /\ ~f.busy
      BY <2>5
    <2>7. ToSet(f.items) \subseteq ToSet(Top.items)
      BY <1>2, <2>1, <2>6, FirstItem
    <2>8. Top.doomed \subseteq f.doomed /\ cancelled' \ cancelled \subseteq f.doomed
          /\ f.doomed \subseteq cancelled'
      BY <1>2, <2>1, <2>6 DEF FrameOK
    <2>9. FrameOK(f)'
      BY <1>0, <1>2, <2>1, <2>6, <2>7, <2>8 DEF FrameOK
    <2> QED BY <2>1, <2>2, <2>6, <2>8, <2>9
  <1> HIDE DEF Result
  <1>3. ASSUME BeginNotification PROVE Result
    <2>1. /\ UNCHANGED <<enrolled, cancelled, slot, address>>
          /\ At("notify") /\ ~Top.busy /\ Top.items # <<>>
      BY <1>3 DEF BeginNotification, notifyVars, objectVars
    <2>2. SetTop([Top EXCEPT !.busy = TRUE]) \/ SetTop([Top EXCEPT !.items = Tail(@)])
      BY <1>3 DEF BeginNotification
    <2> QED BY <1>1, <2>1, <2>2
  <1>4. ASSUME BeginListener PROVE Result
    <2>1. /\ UNCHANGED <<enrolled, cancelled, slot, address>>
          /\ At("construct") /\ ~Top.busy /\ Top.items # <<>>
      BY <1>4 DEF BeginListener, notifyVars, objectVars
    <2>2. SetTop([Top EXCEPT !.busy = TRUE]) \/ SetTop([Top EXCEPT !.items = Tail(@)])
      BY <1>4 DEF BeginListener
    <2> QED BY <1>1, <2>1, <2>2
  <1>5. ASSUME NEW c \in BOOLEAN, EndNotification(c) PROVE Result
    <2>1. At("notify") /\ Top.busy /\ Top.items # <<>>
      BY <1>5, AtTop DEF EndNotification, FrameOK
    <2>2. Head(Top.items).listener \in DOMAIN enrolled
      BY <2>1, FirstItem
    <2> QED BY <1>2, <1>5, <2>1, <2>2 DEF EndNotification, objectVars
  <1>6. ASSUME NEW c \in BOOLEAN, EndListener(c) PROVE Result
    <2>1. At("construct") /\ Top.busy /\ Top.items # <<>>
      BY <1>6, AtTop DEF EndListener, FrameOK
    <2>2. Head(Top.items) \in DOMAIN enrolled
      BY <2>1, FirstItem
    <2> QED BY <1>2, <1>6, <2>1, <2>2 DEF EndListener, objectVars
  <1>7. Result
    BY <1>3, <1>4, <1>5, <1>6
  <1> QED BY <1>7 DEF Result

-----------------------------------------------------------------------------
(* Every step preserves the types.                                           *)

\* What the actions of simple actions have in common.
LEMMA QueuedAction ==
  ASSUME Types, NEW m \in Mods, NEW h \in Methods, ExecuteInGameThread(m, h)
  PROVE  /\ action' \in Seq([mod : Mods, method : Methods])
         /\ Len(action) \in Nat
         /\ DOMAIN action' = DOMAIN action \cup {Len(action) + 1}
         /\ \A a \in DOMAIN action : a < Len(action) + 1 /\ a \in Nat /\ action'[a] = action[a]
         /\ Len(action) + 1 \in Nat
         /\ action'[Len(action) + 1].method = h /\ action'[Len(action) + 1].mod = m
         /\ m \in open
  <1> DEFINE r == [mod |-> m, method |-> h]
  <1>1. r \in [mod : Mods, method : Methods] /\ r.method = h /\ r.mod = m
    OBVIOUS
  <1>2. action' = Append(action, r) /\ m \in open
    BY DEF ExecuteInGameThread, MayEnter
  <1> HIDE DEF r
  <1>3. /\ action' \in Seq([mod : Mods, method : Methods])
        /\ Len(action') = Len(action) + 1 /\ Len(action) \in Nat
        /\ DOMAIN action = 1 .. Len(action) /\ DOMAIN action' = 1 .. Len(action) + 1
        /\ \A a \in 1 .. Len(action) : action'[a] = action[a]
        /\ action'[Len(action) + 1] = r
    BY <1>1, <1>2, AppendProperties, LenProperties DEF Types, ActionsOK
  <1> QED BY <1>1, <1>2, <1>3

LEMMA MethodVector ==
  ASSUME Types, NEW h \in Methods
  PROVE  /\ ready[h] \in Seq(Nat) /\ waiting[h] \in Seq(Nat)
         /\ ToSet(ready[h]) \subseteq DOMAIN action /\ ToSet(waiting[h]) \subseteq DOMAIN action
  BY DEF Types, ActionsOK

\* Uninstall erases from the vectors of both methods.
LEMMA KeptVectors ==
  ASSUME NEW v \in [Methods -> Seq(Nat)], NEW keep, NEW w \in KeptOfBoth(v, keep)
  PROVE  /\ w \in [Methods -> Seq(Nat)]
         /\ \A h \in Methods :
               /\ w[h] \in Kept(v[h], keep)
               /\ ToSet(w[h]) = ToSet(v[h]) \cap keep
               /\ Distinct(v[h]) => Distinct(w[h])
               /\ \A order : InOrder(v[h], order) => InOrder(w[h], order)
  <1>1. /\ DOMAIN w = Methods /\ w = [h \in Methods |-> w[h]]
        /\ \A h \in Methods : w[h] \in Kept(v[h], keep)
    BY DEF KeptOfBoth
  <1>2. ASSUME NEW h \in Methods
        PROVE  /\ w[h] \in Seq(Nat)
               /\ ToSet(w[h]) = ToSet(v[h]) \cap keep
               /\ Distinct(v[h]) => Distinct(w[h])
               /\ \A order : InOrder(v[h], order) => InOrder(w[h], order)
    <2>1. v[h] \in Seq(Nat) /\ w[h] \in Kept(v[h], keep)
      BY <1>1
    <2> QED BY <2>1, KeptElements
  <1> QED BY <1>1, <1>2

LEMMA ActionsNext ==
  ASSUME Types, Next
  PROVE  ActionsOK'
  <1>1. ASSUME NEW m \in Mods, NEW h \in Methods, ExecuteInGameThread(m, h)
        PROVE  ActionsOK'
    <2> DEFINE new == Len(action) + 1
    <2>1. /\ action' \in Seq([mod : Mods, method : Methods])
          /\ DOMAIN action' = DOMAIN action \cup {new} /\ new \in Nat
      BY <1>1, QueuedAction
    <2>2. /\ ready[h] \in Seq(Nat) /\ waiting[h] \in Seq(Nat)
          /\ ToSet(ready[h]) \subseteq DOMAIN action /\ ToSet(waiting[h]) \subseteq DOMAIN action
      BY MethodVector
    <2>3. /\ open' = open /\ finished' = finished /\ dropped' = dropped /\ deferred' = deferred
          /\ escaped' = escaped /\ late' \subseteq late \cup {new}
          /\ \/ ready' = [ready EXCEPT ![h] = Append(ready[h], new)] /\ waiting' = waiting
             \/ waiting' = [waiting EXCEPT ![h] = Append(waiting[h], new)] /\ ready' = ready
      BY <1>1 DEF ExecuteInGameThread
    <2> HIDE DEF new
    <2>4. /\ Append(ready[h], new) \in Seq(Nat) /\ ToSet(Append(ready[h], new)) \subseteq DOMAIN action'
          /\ Append(waiting[h], new) \in Seq(Nat)
          /\ ToSet(Append(waiting[h], new)) \subseteq DOMAIN action'
      BY <2>1, <2>2, Appended
    <2> QED BY <2>1, <2>3, <2>4 DEF Types, ActionsOK
  <1>2. ASSUME NEW m \in Mods, Uninstall(m) PROVE ActionsOK'
    <2> DEFINE keep == DOMAIN action \ ActionsOf(m)
    <2>1. /\ ready' \in KeptOfBoth(ready, keep) /\ waiting' \in KeptOfBoth(waiting, keep)
          /\ UNCHANGED <<action, finished, late, deferred>>
          /\ dropped' \subseteq dropped \cup ActionsOf(m) /\ escaped' \subseteq escaped \cup ActionsOf(m)
          /\ open' \subseteq open
      BY <1>2 DEF Uninstall
    <2>2. ActionsOf(m) \subseteq DOMAIN action
      BY DEF ActionsOf
    <2> HIDE DEF keep
    <2>3. ready \in [Methods -> Seq(Nat)] /\ waiting \in [Methods -> Seq(Nat)]
      BY DEF Types, ActionsOK
    <2>4. /\ ready' \in [Methods -> Seq(Nat)]
          /\ \A h \in Methods : ToSet(ready'[h]) = ToSet(ready[h]) \cap keep
      BY <2>1, <2>3, KeptVectors
    <2>5. /\ waiting' \in [Methods -> Seq(Nat)]
          /\ \A h \in Methods : ToSet(waiting'[h]) = ToSet(waiting[h]) \cap keep
      BY <2>1, <2>3, KeptVectors
    <2> QED BY <2>1, <2>2, <2>4, <2>5 DEF Types, ActionsOK
  <1>3. CASE TakeActions
    <2>1. Top.hook \in Methods
      BY <1>3, AtTop DEF TakeActions
    <2>2. ready' = ready \/ ready' = [ready EXCEPT ![Top.hook] = <<>>]
      BY <1>3 DEF TakeActions
    <2>3. UNCHANGED <<open, action, waiting, history>>
      BY <1>3 DEF TakeActions
    <2>4. <<>> \in Seq(Nat) /\ ToSet(<<>>) = {}
      BY EmptySeq, EmptyElements
    <2> QED BY <2>1, <2>2, <2>3, <2>4 DEF Types, ActionsOK, history
  <1>4. CASE BeginAction
    <2>1. At("simple") /\ Top.items # <<>>
      BY <1>4 DEF BeginAction
    <2>2. Head(Top.items) \in DOMAIN action
      BY <2>1, FirstAction
    <2>3. /\ deferred' \subseteq deferred \cup {Head(Top.items)}
          /\ UNCHANGED <<open, action, ready, waiting, finished, dropped, late, escaped>>
      BY <1>4 DEF BeginAction, actionVars
    <2> QED BY <2>2, <2>3 DEF Types, ActionsOK
  <1>5. CASE EndAction
    <2>1. At("simple") /\ Top.items # <<>>
      BY <1>5, AtTop DEF EndAction, FrameOK
    <2>2. Head(Top.items) \in DOMAIN action
      BY <2>1, FirstAction
    <2>3. /\ finished' = finished \cup {Head(Top.items)}
          /\ UNCHANGED <<open, action, ready, waiting, deferred, dropped, late, escaped>>
      BY <1>5 DEF EndAction, actionVars
    <2> QED BY <2>2, <2>3 DEF Types, ActionsOK
  <1>6. CASE EndActions
    <2>1. /\ Top.hook \in Methods /\ Top.deferred \in Seq(Nat) /\ ToSet(Top.deferred) \subseteq DOMAIN action
      BY <1>6, AtTop DEF EndActions, FrameOK
    <2>2. /\ ready' = [ready EXCEPT ![Top.hook] = ready[Top.hook] \o Top.deferred]
          /\ UNCHANGED <<open, action, waiting, history>>
      BY <1>6 DEF EndActions
    <2>3. ready[Top.hook] \o Top.deferred \in Seq(Nat)
          /\ ToSet(ready[Top.hook] \o Top.deferred) \subseteq DOMAIN action
      BY <2>1, MethodVector, Concatenated
    <2> QED BY <2>1, <2>2, <2>3 DEF Types, ActionsOK, history
  <1>7. CASE EndPass
    <2> DEFINE h == Top.hook
    <2>1. h \in Methods
      BY <1>7, AtTop DEF EndPass
    <2>2. /\ ready' = [ready EXCEPT ![h] = ready[h] \o waiting[h]]
          /\ waiting' = [waiting EXCEPT ![h] = <<>>]
          /\ UNCHANGED <<open, action, history>>
      BY <1>7 DEF EndPass
    <2> HIDE DEF h
    <2>3. ready[h] \o waiting[h] \in Seq(Nat) /\ ToSet(ready[h] \o waiting[h]) \subseteq DOMAIN action
      BY <2>1, MethodVector, Concatenated
    <2>4. <<>> \in Seq(Nat) /\ ToSet(<<>>) = {}
      BY EmptySeq, EmptyElements
    <2> QED BY <2>1, <2>2, <2>3, <2>4 DEF Types, ActionsOK, history
  <1>8. CASE UNCHANGED <<open, action, ready, waiting, finished, dropped, late, deferred, escaped>>
    BY <1>8 DEF Types, ActionsOK
  <1>9. \/ TakeActions \/ BeginAction \/ EndAction \/ EndActions \/ EndPass
        \/ \E m \in Mods, h \in Methods : ExecuteInGameThread(m, h)
        \/ \E m \in Mods : Uninstall(m)
        \/ UNCHANGED <<open, action, ready, waiting, finished, dropped, late, deferred, escaped>>
    <2>1. UNCHANGED <<open, actionVars, history>>
          => UNCHANGED <<open, action, ready, waiting, finished, dropped, late, deferred, escaped>>
      BY DEF actionVars, history
    <2>2. ASSUME \/ \E m \in Mods : NotifyOnNewObject(m)
                 \/ \E h \in Methods : BeginPass(h)
                 \/ BeginDelayed \/ Construct \/ ConstructElsewhere \/ QueueNotifications
                 \/ ConstructUnheard \/ AllocateSerial \/ Destroy
          PROVE  UNCHANGED <<open, actionVars, history>>
      BY <2>2 DEF NotifyOnNewObject, BeginPass, BeginDelayed, Construct, ConstructElsewhere,
                  QueueNotifications, ConstructUnheard, AllocateSerial, Destroy
    <2>3. ASSUME Construction PROVE UNCHANGED <<open, actionVars, history>>
      BY <2>3 DEF Construction, BeginListener, EndListener, ListenerThrows, EndConstruct
    <2>4. ASSUME \/ EndDelayed \/ CollectNotifications \/ BeginNotification
                 \/ (\E c \in BOOLEAN : EndNotification(c)) \/ EndNotifications
          PROVE  UNCHANGED <<open, actionVars, history>>
      BY <2>4 DEF EndDelayed, CollectNotifications, BeginNotification, EndNotification, EndNotifications
    <2> QED BY <2>1, <2>2, <2>3, <2>4 DEF Next, Pass
  <1> QED BY <1>1, <1>2, <1>3, <1>4, <1>5, <1>6, <1>7, <1>8, <1>9

\* The entry of the object array is filled when it is empty, with a new object.
LEMMA NewObject ==
  ASSUME Types, NEW a \in Addresses, Appear(a)
  PROVE  /\ address' \in Seq(Addresses) /\ Len(address') <= MaxObjects
         /\ slot' \in [object : 0 .. Len(address'), serial : Nat] /\ slot'.serial = 0
         /\ slot'.object # 0 /\ ObjectsGrow
  <1>1. /\ address \in Seq(Addresses) /\ Len(address) \in Nat /\ MaxObjects \in Nat
        /\ Len(address) < MaxObjects
        /\ address' = Append(address, a) /\ slot' = [object |-> Len(address) + 1, serial |-> 0]
    BY LenProperties, QueueConstants DEF Types, ObjectsOK, Appear
  <1>2. /\ address' \in Seq(Addresses) /\ Len(address') = Len(address) + 1
        /\ \A k \in 1 .. Len(address) : address'[k] = address[k]
    BY <1>1, AppendProperties
  <1>3. /\ slot'.object = Len(address) + 1 /\ slot'.serial = 0
        /\ slot' \in [object : 0 .. Len(address) + 1, serial : Nat]
    BY <1>1
  <1>4. ObjectsGrow
    BY <1>1, <1>2, <1>3 DEF ObjectsGrow
  <1> QED BY <1>1, <1>2, <1>3, <1>4

LEMMA ObjectsNext ==
  ASSUME Types, Next
  PROVE  ObjectsOK' /\ ObjectsGrow
  <1>1. Len(address) \in Nat /\ slot.object \in 0 .. Len(address)
    BY LenProperties DEF Types, ObjectsOK
  <1>2. ASSUME NEW a \in Addresses, Appear(a), constructing' \in BOOLEAN
        PROVE  ObjectsOK' /\ ObjectsGrow
    BY <1>2, NewObject DEF ObjectsOK
  <1>3. ASSUME UNCHANGED <<slot, address>>, constructing' \in {constructing, FALSE}
        PROVE  ObjectsOK' /\ ObjectsGrow
    <2>1. ObjectsGrow
      BY <1>1, <1>3 DEF ObjectsGrow
    <2>2. constructing' \in BOOLEAN /\ (constructing' => slot.object # 0)
      <3>1. constructing \in BOOLEAN /\ (constructing => slot.object # 0)
        BY DEF Types, ObjectsOK
      <3>2. constructing' = constructing \/ constructing' = FALSE
        BY <1>3
      <3>3. CASE constructing' = constructing
        BY <3>1, <3>3, Zenon
      <3>4. CASE constructing' = FALSE
        BY <3>4, Zenon
      <3> QED BY <3>2, <3>3, <3>4
    <2>3. /\ address' \in Seq(Addresses) /\ Len(address') <= MaxObjects
          /\ slot' \in [object : 0 .. Len(address'), serial : Nat] /\ slot'.serial \in {0, slot'.object}
          /\ slot' = slot
      BY <1>3 DEF Types, ObjectsOK
    <2> QED BY <2>1, <2>2, <2>3 DEF ObjectsOK
  <1>4. CASE ConstructElsewhere
    BY <1>2, <1>4 DEF ConstructElsewhere
  <1>5. CASE Construct \/ ConstructUnheard
    <2>1. constructing' = constructing /\ constructing \in BOOLEAN
      BY <1>5 DEF Construct, ConstructUnheard, Types, ObjectsOK
    <2>2. UNCHANGED <<slot, address>> \/ \E a \in Addresses : Appear(a)
      BY <1>5 DEF Construct, ConstructUnheard
    <2> QED BY <1>2, <1>3, <2>1, <2>2
  <1>6. CASE QueueNotifications
    BY <1>3, <1>6 DEF QueueNotifications
  <1>7. CASE AllocateSerial \/ Destroy
    <2>1. UNCHANGED <<constructing, address>>
      BY <1>7 DEF AllocateSerial, Destroy
    <2>2. /\ slot' \in [object : 0 .. Len(address), serial : Nat] /\ slot'.serial \in {0, slot'.object}
          /\ slot'.object \in {0, slot.object} /\ (constructing => slot'.object # 0)
      <3>1. CASE AllocateSerial
        BY <1>1, <3>1 DEF AllocateSerial, Types, ObjectsOK
      <3>2. CASE Destroy
        BY <1>1, <3>2 DEF Destroy, NoObject
      <3> QED BY <1>7, <3>1, <3>2
    <2>3. ObjectsGrow
      BY <1>1, <2>1, <2>2 DEF ObjectsGrow
    <2> QED BY <2>1, <2>2, <2>3 DEF Types, ObjectsOK
  <1>8. \/ ConstructElsewhere \/ Construct \/ ConstructUnheard \/ QueueNotifications
        \/ AllocateSerial \/ Destroy
        \/ UNCHANGED <<slot, constructing, address>>
    <2>1. ASSUME \/ \E m \in Mods, h \in Methods : ExecuteInGameThread(m, h)
                 \/ \E m \in Mods : NotifyOnNewObject(m) \/ Uninstall(m)
                 \/ \E h \in Methods : BeginPass(h)
                 \/ BeginDelayed
          PROVE  UNCHANGED objectVars
      BY <2>1 DEF ExecuteInGameThread, NotifyOnNewObject, Uninstall, BeginPass, BeginDelayed
    <2>2. ASSUME Pass PROVE UNCHANGED objectVars
      BY <2>2 DEF Pass, TakeActions, BeginAction, EndAction, EndActions, EndDelayed,
                  CollectNotifications, BeginNotification, EndNotification, EndNotifications, EndPass
    <2>3. ASSUME Construction PROVE UNCHANGED objectVars
      BY <2>3 DEF Construction, BeginListener, EndListener, ListenerThrows, EndConstruct
    <2> QED BY <2>1, <2>2, <2>3 DEF Next, objectVars
  <1> QED BY <1>3, <1>4, <1>5, <1>6, <1>7, <1>8

\* Only registration extends what is known, and only a callback that returns
\* true cancels.
LEMMA StepsGrow ==
  ASSUME Types, Next
  PROVE  Grows
  <1>0. ObjectsGrow
    BY ObjectsNext
  <1>1. ASSUME NEW m \in Mods, NEW h \in Methods, ExecuteInGameThread(m, h) PROVE Grows
    <2>1. UNCHANGED <<enrolled, cancelled>>
      BY <1>1 DEF ExecuteInGameThread, notifyVars
    <2> QED BY <1>0, <1>1, <2>1, QueuedAction DEF Grows
  <1>2. ASSUME NEW m \in Mods, NotifyOnNewObject(m) PROVE Grows
    <2>1. UNCHANGED <<action, cancelled>> /\ enrolled' = Append(enrolled, m)
      BY <1>2 DEF NotifyOnNewObject, actionVars
    <2>2. DOMAIN enrolled \subseteq DOMAIN enrolled'
      BY <2>1, AppendProperties, LenProperties DEF Types, ListenersOK
    <2> QED BY <1>0, <2>1, <2>2 DEF Grows
  <1>3. ASSUME NEW c \in BOOLEAN, EndNotification(c) \/ EndListener(c) PROVE Grows
    <2>1. UNCHANGED <<action, enrolled>>
      BY <1>3 DEF EndNotification, EndListener, actionVars
    <2>2. cancelled \subseteq cancelled'
      BY <1>3 DEF EndNotification, EndListener
    <2> QED BY <1>0, <2>1, <2>2 DEF Grows
  <1>4. CASE UNCHANGED <<action, enrolled, cancelled>>
    BY <1>0, <1>4 DEF Grows
  <1>5. \/ \E m \in Mods, h \in Methods : ExecuteInGameThread(m, h)
        \/ \E m \in Mods : NotifyOnNewObject(m)
        \/ \E c \in BOOLEAN : EndNotification(c) \/ EndListener(c)
        \/ UNCHANGED <<action, enrolled, cancelled>>
    <2>1. ASSUME \/ \E m \in Mods : Uninstall(m)
                 \/ \E h \in Methods : BeginPass(h)
                 \/ BeginDelayed \/ Construct \/ ConstructElsewhere \/ QueueNotifications
                 \/ ConstructUnheard \/ AllocateSerial \/ Destroy
          PROVE  UNCHANGED <<action, enrolled, cancelled>>
      BY <2>1 DEF Uninstall, BeginPass, BeginDelayed, Construct, ConstructElsewhere,
                  QueueNotifications, ConstructUnheard, AllocateSerial, Destroy, notifyVars, actionVars
    <2>2. ASSUME BeginListener \/ ListenerThrows \/ EndConstruct
          PROVE  UNCHANGED <<action, enrolled, cancelled>>
      BY <2>2 DEF BeginListener, ListenerThrows, EndConstruct, notifyVars, actionVars
    <2>3. ASSUME \/ TakeActions \/ BeginAction \/ EndAction \/ EndActions \/ EndDelayed
                 \/ CollectNotifications \/ BeginNotification \/ EndNotifications \/ EndPass
          PROVE  UNCHANGED <<action, enrolled, cancelled>>
      BY <2>3 DEF TakeActions, BeginAction, EndAction, EndActions, EndDelayed, CollectNotifications,
                  BeginNotification, EndNotifications, EndPass, notifyVars, actionVars
    <2> QED BY <2>1, <2>2, <2>3 DEF Next, Pass, Construction
  <1> QED BY <1>1, <1>2, <1>3, <1>4, <1>5
\* A notification for every listener, in the queue of those before it.
LEMMA QueuedNotices ==
  ASSUME Types, constructing, NEW more,
         more = [k \in DOMAIN listeners |->
                   [listener |-> listeners[k], object |-> slot.object, serial |-> slot.serial]]
  PROVE  /\ pending \o more \in Seq(Notice)
         /\ \A p \in ToSet(pending \o more) :
               p.listener \in DOMAIN enrolled /\ p.object \in 1 .. Len(address)
  <1>1. /\ listeners \in Seq(Nat) /\ ToSet(listeners) \subseteq DOMAIN enrolled /\ pending \in Seq(Notice)
        /\ slot.object \in 1 .. Len(address) /\ slot.object \in Nat
        /\ slot.serial \in {0, slot.object} /\ slot.serial \in Nat
    BY LenProperties DEF Types, ListenersOK, ObjectsOK
  <1>2. /\ Len(listeners) \in Nat /\ DOMAIN listeners = 1 .. Len(listeners)
        /\ \A k \in DOMAIN listeners : listeners[k] \in Nat /\ listeners[k] \in DOMAIN enrolled
    BY <1>1, Elements
  <1>3. ASSUME NEW k \in DOMAIN listeners
        PROVE  /\ more[k] \in Notice
               /\ more[k].listener \in DOMAIN enrolled /\ more[k].object = slot.object
    <2> DEFINE r == [listener |-> listeners[k], object |-> slot.object, serial |-> slot.serial]
    <2>1. /\ r \in [listener : Nat, object : Nat, serial : Nat]
          /\ r.serial \in {0, r.object} /\ r.listener = listeners[k] /\ r.object = slot.object
      BY <1>1, <1>2
    <2>2. more[k] = r
      OBVIOUS
    <2> HIDE DEF r
    <2> QED BY <1>2, <2>1, <2>2 DEF Notice
  <1>4. DOMAIN more = DOMAIN listeners
    OBVIOUS
  <1>5. more \in Seq(Notice)
    <2>1. more \in [1 .. Len(listeners) -> Notice]
      BY <1>2, <1>3
    <2> QED BY <1>2, <2>1, FunctionIsSeq
  <1>6. \A p \in ToSet(more) : p.listener \in DOMAIN enrolled /\ p.object \in 1 .. Len(address)
    BY <1>1, <1>3, <1>4 DEF ToSet
  <1>7. \A p \in ToSet(pending) : p.listener \in DOMAIN enrolled /\ p.object \in 1 .. Len(address)
    BY DEF Types, ListenersOK
  <1>8. pending \o more \in Seq(Notice) /\ ToSet(pending \o more) = ToSet(pending) \cup ToSet(more)
    <2>1. pending \in Seq(Notice)
      BY <1>1
    <2>2. PICK t \in Seq(Notice) : t = more
      BY <1>5
    <2>3. pending \o t \in Seq(Notice) /\ ToSet(pending \o t) = ToSet(pending) \cup ToSet(t)
      BY <2>1, Concatenated
    <2> QED BY <2>2, <2>3
  <1> QED BY <1>6, <1>7, <1>8

LEMMA ListenersNext ==
  ASSUME Types, Next
  PROVE  ListenersOK'
  <1> USE DEF ListenersOK
  <1>0. \A k \in 1 .. Len(address) : k \in 1 .. Len(address')
    BY ObjectsNext DEF ObjectsGrow
  <1>1. ASSUME NEW m \in Mods, NotifyOnNewObject(m) PROVE ListenersOK'
    <2>1. /\ enrolled' = Append(enrolled, m) /\ listeners' = Append(listeners, Len(enrolled) + 1)
          /\ UNCHANGED <<pending, cancelled, spared>> /\ Len(enrolled) < MaxListeners
      BY <1>1 DEF NotifyOnNewObject
    <2>2. /\ enrolled' \in Seq(Mods) /\ Len(enrolled') = Len(enrolled) + 1 /\ Len(enrolled) \in Nat
          /\ DOMAIN enrolled' = DOMAIN enrolled \cup {Len(enrolled) + 1} /\ Len(enrolled) + 1 \in Nat
      <3>1. enrolled \in Seq(Mods)
        BY DEF Types
      <3>2. /\ enrolled' \in Seq(Mods) /\ Len(enrolled') = Len(enrolled) + 1 /\ Len(enrolled) \in Nat
            /\ DOMAIN enrolled = 1 .. Len(enrolled) /\ DOMAIN enrolled' = 1 .. Len(enrolled) + 1
        BY <2>1, <3>1, AppendProperties, LenProperties
      <3> QED BY <3>2
    <2>3. /\ listeners' \in Seq(Nat) /\ ToSet(listeners') = ToSet(listeners) \cup {Len(enrolled) + 1}
      <3>1. listeners \in Seq(Nat) /\ Len(enrolled) + 1 \in Nat
        BY <2>2 DEF Types
      <3>2. /\ Append(listeners, Len(enrolled) + 1) \in Seq(Nat)
            /\ ToSet(Append(listeners, Len(enrolled) + 1)) = ToSet(listeners) \cup {Len(enrolled) + 1}
        BY <3>1, Appended
      <3> QED BY <2>1, <3>2
    <2>4. Len(enrolled') <= MaxListeners
      BY <2>1, <2>2, QueueConstants
    <2> QED BY <1>0, <2>1, <2>2, <2>3, <2>4 DEF Types
  <1>2. ASSUME UNCHANGED <<enrolled, cancelled, spared>>,
               NEW keep, listeners' \in Kept(listeners, keep), pending' = pending \/ pending' = <<>>
        PROVE  ListenersOK'
    <2>1. listeners' \in Seq(Nat) /\ ToSet(listeners') \subseteq ToSet(listeners)
      BY <1>2, KeptElements DEF Types
    <2>2. pending' \in Seq(Notice) /\ ToSet(pending') \subseteq ToSet(pending)
      BY <1>2, EmptySeq, EmptyElements DEF Types
    <2> QED BY <1>0, <1>2, <2>1, <2>2 DEF Types
  <1>3. ASSUME UNCHANGED <<enrolled, listeners, cancelled, spared>>,
               pending' = pending \/ pending' = <<>>
        PROVE  ListenersOK'
    <2>1. pending' \in Seq(Notice) /\ ToSet(pending') \subseteq ToSet(pending)
      BY <1>3, EmptySeq, EmptyElements DEF Types
    <2> QED BY <1>0, <1>3, <2>1 DEF Types
  <1>4. ASSUME NEW m \in Mods, Uninstall(m) PROVE ListenersOK'
    BY <1>2, <1>4 DEF Uninstall
  <1>5. CASE EndNotifications
    BY <1>2, <1>5 DEF EndNotifications
  <1>6. CASE EndConstruct
    BY <1>2, <1>6 DEF EndConstruct
  <1>7. CASE CollectNotifications
    BY <1>3, <1>7 DEF CollectNotifications
  <1>8. ASSUME NEW c \in BOOLEAN, EndNotification(c) \/ EndListener(c) PROVE ListenersOK'
    <2>1. UNCHANGED <<enrolled, listeners, pending, spared>>
      BY <1>8 DEF EndNotification, EndListener
    <2>2. cancelled \subseteq cancelled' /\ cancelled' \subseteq DOMAIN enrolled
      BY <1>8, ListenerTop
    <2> QED BY <1>0, <2>1, <2>2 DEF Types
  <1>9. CASE ListenerThrows
    <2>1. UNCHANGED <<enrolled, listeners, pending, cancelled>> /\ spared' = spared \cup Top.doomed
      BY <1>9 DEF ListenerThrows
    <2>2. Top.doomed \subseteq cancelled
      BY <1>9, AtTop DEF ListenerThrows, FrameOK
    <2> QED BY <1>0, <2>1, <2>2 DEF Types
  <1>10. CASE QueueNotifications
    <2>1. /\ constructing /\ UNCHANGED <<enrolled, listeners, cancelled, spared, address>>
          /\ pending' = pending \o [k \in DOMAIN listeners |->
                [listener |-> listeners[k], object |-> slot.object, serial |-> slot.serial]]
      BY <1>10 DEF QueueNotifications
    <2>2. /\ pending' \in Seq(Notice)
          /\ \A p \in ToSet(pending') : p.listener \in DOMAIN enrolled /\ p.object \in 1 .. Len(address)
      BY <2>1, QueuedNotices
    <2> QED BY <2>1, <2>2 DEF Types
  <1>11. CASE UNCHANGED notifyVars
    BY <1>3, <1>11 DEF notifyVars
  <1>12. \/ \E m \in Mods : NotifyOnNewObject(m) \/ Uninstall(m)
         \/ EndNotifications \/ EndConstruct \/ CollectNotifications
         \/ \E c \in BOOLEAN : EndNotification(c) \/ EndListener(c)
         \/ ListenerThrows \/ QueueNotifications
         \/ UNCHANGED notifyVars
    <2>1. ASSUME \/ \E m \in Mods, h \in Methods : ExecuteInGameThread(m, h)
                 \/ \E h \in Methods : BeginPass(h)
                 \/ BeginDelayed \/ Construct \/ BeginListener
          PROVE  UNCHANGED notifyVars
      BY <2>1 DEF ExecuteInGameThread, BeginPass, BeginDelayed, Construct, BeginListener
    <2>2. ASSUME \/ TakeActions \/ BeginAction \/ EndAction \/ EndActions \/ EndDelayed
                 \/ BeginNotification \/ EndPass
          PROVE  UNCHANGED notifyVars
      BY <2>2 DEF TakeActions, BeginAction, EndAction, EndActions, EndDelayed, BeginNotification, EndPass
    <2>3. ASSUME ConstructElsewhere \/ ConstructUnheard \/ AllocateSerial \/ Destroy
          PROVE  UNCHANGED notifyVars
      BY <2>3 DEF ConstructElsewhere, ConstructUnheard, AllocateSerial, Destroy
    <2> QED BY <2>1, <2>2, <2>3 DEF Next, Pass, Construction
  <1> QED BY <1>1, <1>4, <1>5, <1>6, <1>7, <1>8, <1>9, <1>10, <1>11, <1>12

LEMMA FlagsNext ==
  ASSUME Types, Next
  PROVE  FlagsOK'
  <1> USE DEF FlagsOK
  <1>1. ASSUME NEW m \in Mods, NEW h \in Methods, ExecuteInGameThread(m, h) PROVE FlagsOK'
    BY <1>1 DEF Types, ExecuteInGameThread
  <1>2. ASSUME NEW m \in Mods, NotifyOnNewObject(m) \/ Uninstall(m) PROVE FlagsOK'
    BY <1>2 DEF Types, NotifyOnNewObject, Uninstall
  <1>3. ASSUME NEW h \in Methods, BeginPass(h) PROVE FlagsOK'
    BY <1>3 DEF Types, BeginPass
  <1>4. CASE EndDelayed
    <2>1. processing' = processing /\ registered' = registered
      BY <1>4 DEF EndDelayed
    <2>2. executing' \in BOOLEAN
      BY <1>4, Zenon DEF EndDelayed
    <2> QED BY <2>1, <2>2 DEF Types
  <1>5. CASE BeginDelayed \/ TakeActions \/ BeginAction \/ EndAction \/ EndActions \/ EndPass
    BY <1>5 DEF Types, BeginDelayed, TakeActions, BeginAction, EndAction, EndActions, EndPass
  <1>6. CASE \/ CollectNotifications \/ BeginNotification \/ EndNotifications
             \/ \E c \in BOOLEAN : EndNotification(c)
    BY <1>6 DEF Types, CollectNotifications, BeginNotification, EndNotification, EndNotifications
  <1>7. CASE Construct \/ Construction \/ ConstructElsewhere \/ QueueNotifications
             \/ ConstructUnheard \/ AllocateSerial \/ Destroy
    BY <1>7 DEF Types, Construct, Construction, BeginListener, EndListener, ListenerThrows,
                EndConstruct, ConstructElsewhere, QueueNotifications,
                ConstructUnheard, AllocateSerial, Destroy
  <1> QED BY <1>1, <1>2, <1>3, <1>4, <1>5, <1>6, <1>7 DEF Next, Pass

LEMMA PassPushed ==
  ASSUME Types, NEW h \in Methods, BeginPass(h)
  PROVE  \E f \in FrameRecord :
           /\ Push(f) /\ FrameOK(f)' /\ GameIsFree
           /\ f.hook = h /\ f.at = "take" /\ f.doomed = {} /\ ~f.busy
  <1>1. Push(Frame(h, "take", <<>>)) /\ GameIsFree /\ "take" \in Stages
    BY DEF BeginPass, Stages
  <1> DEFINE g == Frame(h, "take", <<>>)
  <1>2. /\ g \in FrameRecord /\ Push(g)
        /\ g.hook = h /\ g.at = "take" /\ g.doomed = {} /\ ~g.busy /\ g.deferred = <<>>
    BY <1>1, EmptyFrame
  <1> HIDE DEF g
  <1>3. PICK f \in FrameRecord :
           /\ Push(f)
           /\ f.hook = h /\ f.at = "take" /\ f.doomed = {} /\ ~f.busy /\ f.deferred = <<>>
    BY <1>2
  <1>4. FrameOK(f)'
    BY <1>3 DEF FrameOK, Methods
  <1> QED BY <1>1, <1>3, <1>4

LEMMA ConstructionPushed ==
  ASSUME Types, Construct
  PROVE  \E f \in FrameRecord :
           /\ Push(f) /\ FrameOK(f)' /\ GameIsFree
           /\ f.hook = "construct" /\ f.at = "construct" /\ f.doomed = {} /\ ~f.busy
  <1>1. /\ Push(Frame("construct", "construct", listeners)) /\ GameIsFree /\ "construct" \in Stages
        /\ UNCHANGED <<enrolled, cancelled>>
    BY DEF Construct, Stages, notifyVars
  <1>2. listeners \in Seq(Item) /\ ToSet(listeners) \subseteq DOMAIN enrolled
    BY ItemsOf DEF Types, ListenersOK, Item
  <1> DEFINE g == Frame("construct", "construct", listeners)
  <1>3. /\ g \in FrameRecord /\ Push(g) /\ g.items = listeners
        /\ g.hook = "construct" /\ g.at = "construct" /\ g.doomed = {} /\ ~g.busy /\ g.deferred = <<>>
    BY <1>1, <1>2, FreshFrame
  <1> HIDE DEF g
  <1>4. PICK f \in FrameRecord :
           /\ Push(f) /\ ToSet(f.items) \subseteq DOMAIN enrolled
           /\ f.hook = "construct" /\ f.at = "construct" /\ f.doomed = {} /\ ~f.busy /\ f.deferred = <<>>
    BY <1>2, <1>3
  <1>5. FrameOK(f)'
    BY <1>1, <1>4 DEF FrameOK
  <1> QED BY <1>1, <1>4, <1>5

LEMMA FramesNext ==
  ASSUME Types, Next
  PROVE  FramesOK'
  <1>1. Grows /\ FramesOK
    BY StepsGrow DEF Types
  <1>2. ASSUME NEW f \in FrameRecord, SetTop(f), FrameOK(f)', frames # <<>> PROVE FramesOK'
    BY <1>1, <1>2, TopChanged
  <1>3. ASSUME NEW f \in FrameRecord, Push(f), FrameOK(f)', GameIsFree PROVE FramesOK'
    BY <1>1, <1>3, TopPushed
  <1>4. ASSUME frames # <<>>, Pop PROVE FramesOK'
    BY <1>1, <1>4, TopPopped
  <1>5. ASSUME UNCHANGED frames PROVE FramesOK'
    BY <1>1, <1>5, FramesStay
  <1>6. ASSUME NEW h \in Methods, BeginPass(h) PROVE FramesOK'
    BY <1>3, <1>6, PassPushed
  <1>7. CASE Construct
    BY <1>3, <1>7, ConstructionPushed
  <1>8. CASE TakeActions
    BY <1>2, <1>8, TakeTop
  <1>9. CASE BeginAction
    BY <1>2, <1>9, BeginActionTop
  <1>10. CASE EndAction
    BY <1>2, <1>10, EndActionTop
  <1>11. CASE EndActions \/ EndDelayed \/ EndNotifications
    BY <1>2, <1>11, StageEnds
  <1>12. CASE BeginDelayed
    BY <1>2, <1>12, BeginDelayedTop
  <1>13. CASE CollectNotifications
    BY <1>2, <1>13, CollectTop
  <1>14. CASE \/ BeginNotification \/ BeginListener
              \/ \E c \in BOOLEAN : EndNotification(c) \/ EndListener(c)
    BY <1>2, <1>14, ListenerTop
  <1>15. CASE EndPass \/ ListenerThrows \/ EndConstruct
    BY <1>4, <1>15 DEF EndPass, ListenerThrows, EndConstruct, At
  <1>16. CASE \/ \E m \in Mods, h \in Methods : ExecuteInGameThread(m, h)
              \/ \E m \in Mods : NotifyOnNewObject(m) \/ Uninstall(m)
              \/ ConstructElsewhere \/ QueueNotifications
              \/ ConstructUnheard \/ AllocateSerial \/ Destroy
    BY <1>5, <1>16 DEF ExecuteInGameThread, NotifyOnNewObject, Uninstall, ConstructElsewhere,
                       QueueNotifications, ConstructUnheard, AllocateSerial, Destroy
  <1> QED BY <1>6, <1>7, <1>8, <1>9, <1>10, <1>11, <1>12, <1>13, <1>14, <1>15, <1>16
          DEF Next, Pass, Construction

LEMMA TypesInitially == Init => Types
  <1> SUFFICES ASSUME Init PROVE Types
    OBVIOUS
  <1>1. /\ ToSet(<<>>) = {} /\ DOMAIN <<>> = {} /\ Len(<<>>) = 0
        /\ \A S : <<>> \in Seq(S)
    BY EmptyElements, EmptySeq
  <1>2. ActionsOK
    BY <1>1 DEF Init, ActionsOK
  <1>3. ListenersOK
    BY <1>1, QueueConstants DEF Init, ListenersOK
  <1>4. ObjectsOK
    <2>1. address = <<>> /\ slot = [object |-> 0, serial |-> 0] /\ constructing = FALSE
      BY DEF Init, NoObject
    <2>2. address \in Seq(Addresses) /\ Len(address) = 0
      BY <1>1, <2>1
    <2>3. slot \in [object : 0 .. 0, serial : Nat] /\ slot.serial = 0
      BY <2>1
    <2>4. address \in Seq(Addresses) /\ Len(address) <= MaxObjects
      BY <2>2, QueueConstants
    <2>5. slot \in [object : 0 .. Len(address), serial : Nat] /\ slot.serial \in {0, slot.object}
      BY <2>2, <2>3
    <2>6. constructing \in BOOLEAN /\ (constructing => slot.object # 0)
      BY <2>1, Zenon
    <2> QED BY <2>4, <2>5, <2>6 DEF ObjectsOK
  <1>5. FlagsOK
    BY DEF Init, FlagsOK
  <1>6. FramesOK
    BY <1>1 DEF Init, FramesOK
  <1> QED BY <1>2, <1>3, <1>4, <1>5, <1>6 DEF Types

LEMMA TypesStay == Types /\ [Next]_vars => Types'
  <1> SUFFICES ASSUME Types, [Next]_vars PROVE Types'
    OBVIOUS
  <1>1. CASE Next
    BY <1>1, ActionsNext, ListenersNext, ObjectsNext, FlagsNext, FramesNext DEF Types
  <1>2. CASE UNCHANGED vars
    BY <1>2 DEF Types, ActionsOK, ListenersOK, ObjectsOK, FlagsOK, FramesOK, FrameOK, RightlyGiven,
                vars, actionVars, notifyVars, objectVars, history
  <1> QED BY <1>1, <1>2

LEMMA AlwaysTypes == Spec => []Types
  BY TypesInitially, TypesStay, PTL DEF Spec

\* The invariant the runs check on types: among other things, every call on the
\* game thread's stack that made another one runs Lua, and only listeners that
\* were cancelled are spared.
THEOREM TypeCorrect == Spec => []TypeOK
  <1>1. Types => TypeOK
    <2> SUFFICES ASSUME Types PROVE TypeOK
      OBVIOUS
    <2>1. \A a \in DOMAIN action : action[a] \in [mod : Mods, method : Methods]
      <3>1. action \in Seq([mod : Mods, method : Methods])
        BY DEF Types, ActionsOK
      <3> QED BY <3>1, Elements
    <2>2. \A k \in DOMAIN pending :
             pending[k] \in [listener : Listeners, object : Objects, serial : Objects \cup {0}]
      <3> TAKE k \in DOMAIN pending
      <3>1. PICK p : p = pending[k]
        OBVIOUS
      <3>2. /\ p \in Notice /\ p.listener \in DOMAIN enrolled
            /\ p.object \in 1 .. Len(address) /\ Len(address) \in Nat /\ Len(address) <= MaxObjects
        BY <3>1, Elements DEF Types, ListenersOK, ObjectsOK
      <3>3. p.listener \in Listeners /\ p.object \in Objects
        BY <3>2, LenProperties, QueueConstants DEF Types, ListenersOK, Listeners, Objects
      <3>4. p.serial \in Objects \cup {0}
        BY <3>2, <3>3 DEF Notice
      <3>5. p \in [listener : Listeners, object : Objects, serial : Objects \cup {0}]
        BY <3>2, <3>3, <3>4 DEF Notice
      <3> QED BY <3>1, <3>5
    <2>3. slot \in [object : Objects \cup {0}, serial : Objects \cup {0}]
      <3>1. slot.object \in Objects \cup {0} /\ slot.serial \in {0, slot.object}
        BY Elements, QueueConstants DEF Types, ObjectsOK, Objects
      <3> QED BY <3>1 DEF Types, ObjectsOK
    <2>4. \A k \in DOMAIN frames :
             /\ frames[k].hook \in Methods \cup {"construct"}
             /\ frames[k].at \in {"take", "simple", "delayed", "collect", "notify", "finish", "construct"}
             /\ k < Len(frames) => frames[k].busy
      <3> TAKE k \in DOMAIN frames
      <3>1. frames \in Seq(FrameRecord) /\ (k < Len(frames) => frames[k].busy)
        BY DEF Types, FramesOK
      <3>2. frames[k] \in FrameRecord
        BY <3>1, Elements
      <3> QED BY <3>1, <3>2 DEF FrameRecord, Stages
    <2>5. constructing \in BOOLEAN /\ ToSet(address) \subseteq Addresses
      BY Elements DEF Types, ObjectsOK
    <2> QED BY <2>1, <2>2, <2>3, <2>4, <2>5 DEF TypeOK, Types, ActionsOK, ListenersOK, FlagsOK
  <1> QED BY <1>1, AlwaysTypes, PTL

\* A notification that starts to run is one that has been compared before.
LEMMA OnlyBeginNotifies ==
  ASSUME Types, Next, At("notify"), ~Top.busy, Len(frames') = Len(frames), frames'[Len(frames)].busy
  PROVE  BeginNotification
  <1>1. /\ Grows /\ FramesOK /\ frames # <<>> /\ Len(frames) \in Nat /\ Top = frames[Len(frames)]
        /\ Top.at = "notify"
    BY StepsGrow, TopIsFrame DEF Types, At
  <1>2. ASSUME NEW f \in FrameRecord, SetTop(f), FrameOK(f)', ~f.busy PROVE FALSE
    BY <1>1, <1>2, TopChanged
  <1>3. frames' # frames
    BY <1>1
  <1>4. ASSUME NEW h \in Methods, BeginPass(h) PROVE FALSE
    <2>1. PICK f \in FrameRecord : Push(f) /\ FrameOK(f)' /\ GameIsFree
      BY <1>4, PassPushed
    <2> QED BY <1>1, <2>1, TopPushed
  <1>5. ASSUME Construct PROVE FALSE
    <2>1. PICK f \in FrameRecord : Push(f) /\ FrameOK(f)' /\ GameIsFree
      BY <1>5, ConstructionPushed
    <2> QED BY <1>1, <2>1, TopPushed
  <1>6. ASSUME EndNotifications PROVE FALSE
    BY <1>2, <1>6, StageEnds
  <1>7. ASSUME NEW c \in BOOLEAN, EndNotification(c) PROVE FALSE
    BY <1>7 DEF EndNotification
  <1>8. ASSUME \/ TakeActions \/ BeginAction \/ EndAction \/ EndActions \/ EndDelayed
               \/ CollectNotifications \/ EndPass \/ BeginDelayed \/ Construction
        PROVE  FALSE
    BY <1>1, <1>8 DEF TakeActions, BeginAction, EndAction, EndActions, EndDelayed, CollectNotifications,
                      EndPass, BeginDelayed, Construction, BeginListener, EndListener, ListenerThrows,
                      EndConstruct, At
  <1>9. ASSUME \/ \E m \in Mods, h \in Methods : ExecuteInGameThread(m, h)
               \/ \E m \in Mods : NotifyOnNewObject(m) \/ Uninstall(m)
               \/ ConstructElsewhere \/ QueueNotifications
               \/ ConstructUnheard \/ AllocateSerial \/ Destroy
        PROVE  FALSE
    BY <1>3, <1>9 DEF ExecuteInGameThread, NotifyOnNewObject, Uninstall, ConstructElsewhere,
                      QueueNotifications, ConstructUnheard, AllocateSerial, Destroy
  <1> QED BY <1>4, <1>5, <1>6, <1>7, <1>8, <1>9 DEF Next, Pass

LEMMA BegunNotification ==
  ASSUME Types, BeginNotification, frames'[Len(frames)].busy
  PROVE  Top.items # <<>> /\ slot.object # 0 /\ address[slot.object] = Head(Top.items).given
  <1>1. /\ At("notify") /\ ~Top.busy /\ Top.items # <<>>
        /\ IF slot.object # 0 /\ address[slot.object] = Head(Top.items).given
           THEN SetTop([Top EXCEPT !.busy = TRUE])
           ELSE SetTop([Top EXCEPT !.items = Tail(@)])
    BY DEF BeginNotification
  <1>2. Top \in FrameRecord /\ Len(frames) \in DOMAIN frames
    BY <1>1, TopIsFrame DEF Types, At
  <1>3. ASSUME SetTop([Top EXCEPT !.items = Tail(@)]) PROVE FALSE
    <2> DEFINE g == [Top EXCEPT !.items = Tail(@)]
    <2>1. g.busy = Top.busy
      BY <1>2 DEF FrameRecord
    <2> HIDE DEF g
    <2>2. frames' = [frames EXCEPT ![Len(frames)] = g]
      BY <1>3 DEF g, SetTop, ReplaceAt
    <2> QED BY <1>1, <1>2, <2>1, <2>2
  <1> QED BY <1>1, <1>3

\* What a notification is given when it begins, however objects were destroyed
\* and constructed at its index before and while the batch is delivered: the
\* object it was queued for. The exceptions are one that had no serial number
\* then, and one that was constructed since the batch was collected, at the
\* address of the object that is gone.
THEOREM NotifiedObject == Spec => NotifiedOfTheObject
  <1> DEFINE Begins == /\ At("notify") /\ ~Top.busy /\ Len(frames') = Len(frames)
                       /\ frames'[Len(frames)].busy
  <1>1. ASSUME Types, Next, Begins PROVE GivenRightly(Head(Top.items))
    <2>1. BeginNotification
      BY <1>1, OnlyBeginNotifies
    <2>2. Top.items # <<>> /\ slot.object # 0 /\ address[slot.object] = Head(Top.items).given
      BY <1>1, <2>1, BegunNotification
    <2>3. RightlyGiven(Head(Top.items))
      BY <1>1, <2>2, FirstItem, AtTop DEF FrameOK
    <2> QED BY <2>2, <2>3 DEF RightlyGiven, GivenRightly
  <1>2. ASSUME Types, [Next]_vars
        PROVE  [Begins => GivenRightly(Head(Top.items))]_vars
    BY <1>1, <1>2
  <1> QED BY <1>2, AlwaysTypes, PTL DEF Spec, NotifiedOfTheObject

\* Erasing the listeners that were cancelled in the frame on top.
LEMMA ErasedListeners ==
  ASSUME Types, NEW doomed, listeners' \in Kept(listeners, DOMAIN enrolled \ doomed)
  PROVE  ToSet(listeners') \subseteq ToSet(listeners) /\ \A l \in doomed : l \notin ToSet(listeners')
  <1>1. listeners \in Seq(Nat)
    BY DEF Types, ListenersOK
  <1> DEFINE keep == DOMAIN enrolled \ doomed
  <1>2. listeners' \in Kept(listeners, keep)
    OBVIOUS
  <1> HIDE DEF keep
  <1>3. ToSet(listeners') = ToSet(listeners) \cap keep
    BY <1>1, <1>2, KeptElements
  <1> QED BY <1>3 DEF keep

LEMMA CancelledStep ==
  ASSUME Types, Next, CancelledIsErased
  PROVE  CancelledIsErased'
  <1>1. Grows /\ FramesOK
    BY StepsGrow DEF Types
  <1>2. ASSUME ToSet(listeners') \subseteq ToSet(listeners), UNCHANGED <<cancelled, spared, frames>>
        PROVE  CancelledIsErased'
    BY <1>2 DEF CancelledIsErased
  <1>3. ASSUME NEW f \in FrameRecord, SetTop(f), FrameOK(f)', frames # <<>>,
               ToSet(listeners') \subseteq ToSet(listeners), spared' = spared,
               cancelled' \ cancelled \subseteq f.doomed,
               \A l \in Top.doomed : l \in f.doomed \/ l \notin ToSet(listeners')
        PROVE  CancelledIsErased'
    <2> SUFFICES ASSUME NEW l \in cancelled' \cap ToSet(listeners'), l \notin spared'
                 PROVE  \E k \in DOMAIN frames' : l \in frames'[k].doomed
      BY DEF CancelledIsErased
    <2>1. /\ DOMAIN frames' = DOMAIN frames /\ frames'[Len(frames)] = f
          /\ \A k \in DOMAIN frames : k # Len(frames) => frames'[k] = frames[k]
      BY <1>1, <1>3, TopChanged
    <2>2. Len(frames) \in DOMAIN frames /\ Top = frames[Len(frames)]
      BY <1>1, <1>3, TopIsFrame
    <2>3. CASE l \in f.doomed
      BY <2>1, <2>2, <2>3
    <2>4. CASE l \notin f.doomed
      <3>1. l \in cancelled \cap ToSet(listeners) /\ l \notin spared
        BY <1>3, <2>4
      <3>2. PICK k \in DOMAIN frames : l \in frames[k].doomed
        BY <3>1 DEF CancelledIsErased
      <3>3. k # Len(frames)
        BY <1>3, <2>2, <2>4, <3>2
      <3> QED BY <2>1, <3>2, <3>3
    <2> QED BY <2>3, <2>4
  <1>4. ASSUME NEW f \in FrameRecord, Push(f), FrameOK(f)', GameIsFree,
               UNCHANGED <<listeners, cancelled, spared>>
        PROVE  CancelledIsErased'
    <2> SUFFICES ASSUME NEW l \in cancelled \cap ToSet(listeners), l \notin spared
                 PROVE  \E k \in DOMAIN frames' : l \in frames'[k].doomed
      BY <1>4 DEF CancelledIsErased
    <2>1. PICK k \in DOMAIN frames : l \in frames[k].doomed
      BY DEF CancelledIsErased
    <2>2. k \in DOMAIN frames' /\ frames'[k] = frames[k]
      BY <1>1, <1>4, TopPushed
    <2> QED BY <2>1, <2>2
  <1>5. ASSUME frames # <<>>, Pop, ToSet(listeners') \subseteq ToSet(listeners), spared \subseteq spared',
               cancelled' = cancelled,
               \A l \in Top.doomed : l \in spared' \/ l \notin ToSet(listeners')
        PROVE  CancelledIsErased'
    <2> SUFFICES ASSUME NEW l \in cancelled \cap ToSet(listeners'), l \notin spared'
                 PROVE  \E k \in DOMAIN frames' : l \in frames'[k].doomed
      BY <1>5 DEF CancelledIsErased
    <2>1. PICK k \in DOMAIN frames : l \in frames[k].doomed
      BY <1>5 DEF CancelledIsErased
    <2>2. k # Len(frames)
      BY <1>5, <2>1 DEF Top
    <2>3. k \in DOMAIN frames' /\ frames'[k] = frames[k]
      BY <1>1, <1>5, <2>2, TopPopped
    <2> QED BY <2>1, <2>3
  <1>6. ASSUME NEW m \in Mods, NotifyOnNewObject(m) PROVE CancelledIsErased'
    <2>1. UNCHANGED <<cancelled, spared, frames>> /\ listeners' = Append(listeners, Len(enrolled) + 1)
      BY <1>6 DEF NotifyOnNewObject
    <2>2. /\ enrolled \in Seq(Mods) /\ listeners \in Seq(Nat) /\ cancelled \subseteq DOMAIN enrolled
      BY DEF Types, ListenersOK
    <2>3. /\ Len(enrolled) + 1 \in Nat /\ Len(enrolled) + 1 \notin DOMAIN enrolled
      BY <2>2, LenProperties
    <2>4. ToSet(listeners') = ToSet(listeners) \cup {Len(enrolled) + 1}
      BY <2>1, <2>2, <2>3, Appended
    <2> QED BY <2>1, <2>2, <2>3, <2>4 DEF CancelledIsErased
  <1>7. ASSUME NEW m \in Mods, Uninstall(m) PROVE CancelledIsErased'
    <2>1. listeners' \in Kept(listeners, DOMAIN enrolled \ ListenersOf(m))
      BY <1>7 DEF Uninstall
    <2>2. ToSet(listeners') \subseteq ToSet(listeners)
      BY <2>1, ErasedListeners
    <2> QED BY <1>2, <1>7, <2>2 DEF Uninstall
  <1>8. CASE \/ \E m \in Mods, h \in Methods : ExecuteInGameThread(m, h)
             \/ ConstructElsewhere \/ QueueNotifications
             \/ ConstructUnheard \/ AllocateSerial \/ Destroy
    BY <1>2, <1>8 DEF ExecuteInGameThread, ConstructElsewhere, QueueNotifications, ConstructUnheard,
                      AllocateSerial, Destroy, notifyVars
  <1>9. ASSUME NEW h \in Methods, BeginPass(h) PROVE CancelledIsErased'
    BY <1>4, <1>9, PassPushed DEF BeginPass, notifyVars
  <1>10. CASE Construct
    BY <1>4, <1>10, ConstructionPushed DEF Construct, notifyVars
  <1>11. CASE TakeActions \/ BeginAction \/ EndAction \/ EndActions \/ EndDelayed \/ BeginDelayed
              \/ CollectNotifications
    <2>1. UNCHANGED <<listeners, cancelled, spared>>
      BY <1>11 DEF TakeActions, BeginAction, EndAction, EndActions, EndDelayed, BeginDelayed,
                   CollectNotifications, notifyVars
    <2>2. Top.doomed = {}
      <3>1. At("take") \/ At("simple") \/ At("delayed") \/ At("collect")
        BY <1>11 DEF TakeActions, BeginAction, EndAction, EndActions, EndDelayed, BeginDelayed,
                     CollectNotifications
      <3> QED BY <3>1, AtTop DEF FrameOK
    <2>3. PICK f \in FrameRecord : SetTop(f) /\ FrameOK(f)' /\ frames # <<>>
      BY <1>11, TakeTop, BeginActionTop, EndActionTop, StageEnds, BeginDelayedTop, CollectTop
    <2> QED BY <1>3, <2>1, <2>2, <2>3
  <1>12. CASE \/ BeginNotification \/ BeginListener
              \/ \E c \in BOOLEAN : EndNotification(c) \/ EndListener(c)
    <2>1. UNCHANGED <<listeners, spared>>
      BY <1>12 DEF BeginNotification, BeginListener, EndNotification, EndListener, notifyVars
    <2>2. PICK f \in FrameRecord :
             /\ SetTop(f) /\ FrameOK(f)' /\ frames # <<>>
             /\ Top.doomed \subseteq f.doomed /\ cancelled' \ cancelled \subseteq f.doomed
      BY <1>12, ListenerTop
    <2> QED BY <1>3, <2>1, <2>2
  <1>13. CASE EndNotifications
    <2>1. /\ UNCHANGED <<cancelled, spared>>
          /\ listeners' \in Kept(listeners, DOMAIN enrolled \ Top.doomed)
      BY <1>13 DEF EndNotifications
    <2>2. ToSet(listeners') \subseteq ToSet(listeners) /\ \A l \in Top.doomed : l \notin ToSet(listeners')
      BY <2>1, ErasedListeners
    <2>3. PICK f \in FrameRecord : SetTop(f) /\ FrameOK(f)' /\ frames # <<>>
      BY <1>13, StageEnds
    <2> QED BY <1>3, <2>1, <2>2, <2>3
  <1>14. CASE EndConstruct
    <2>1. /\ UNCHANGED <<cancelled, spared>> /\ frames # <<>> /\ Pop
          /\ listeners' \in Kept(listeners, DOMAIN enrolled \ Top.doomed)
      BY <1>14 DEF EndConstruct, At
    <2>2. ToSet(listeners') \subseteq ToSet(listeners) /\ \A l \in Top.doomed : l \notin ToSet(listeners')
      BY <2>1, ErasedListeners
    <2> QED BY <1>5, <2>1, <2>2
  <1>15. CASE ListenerThrows
    <2>1. /\ UNCHANGED <<cancelled, listeners>> /\ frames # <<>> /\ Pop
          /\ spared' = spared \cup Top.doomed
      BY <1>15 DEF ListenerThrows, At
    <2> QED BY <1>5, <2>1
  <1>16. CASE EndPass
    <2>1. /\ UNCHANGED <<cancelled, listeners, spared>> /\ frames # <<>> /\ Pop /\ At("finish")
      BY <1>16 DEF EndPass, At, notifyVars
    <2>2. Top.doomed = {}
      BY <2>1, AtTop DEF FrameOK
    <2> QED BY <1>5, <2>1, <2>2
  <1> QED BY <1>6, <1>7, <1>8, <1>9, <1>10, <1>11, <1>12, <1>13, <1>14, <1>15, <1>16
          DEF Next, Pass, Construction

\* A listener whose callback has returned true is off the list once the batch
\* or the construction it was called in is over, however batches, constructions
\* and uninstalls nest, except after an error in that construction.
THEOREM CancelledErased == Spec => []CancelledIsErased
  <1>1. Init => CancelledIsErased
    BY DEF Init, CancelledIsErased
  <1>2. Types /\ CancelledIsErased /\ [Next]_vars => CancelledIsErased'
    <2> SUFFICES ASSUME Types, CancelledIsErased, [Next]_vars PROVE CancelledIsErased'
      OBVIOUS
    <2>1. CASE UNCHANGED vars
      BY <2>1 DEF CancelledIsErased, vars, notifyVars
    <2> QED BY <2>1, CancelledStep
  <1> QED BY <1>1, <1>2, AlwaysTypes, PTL DEF Spec-----------------------------------------------------------------------------
(* Every action is in one place.                                             *)

\* The actions a frame has in its hands, and those of the frame at depth k.
Hand(f) == IF f.at = "simple" THEN ToSet(f.items) \cup ToSet(f.deferred) ELSE {}
Held(k) == IF k \in DOMAIN frames THEN Hand(frames[k]) ELSE {}
Queued(h) == ToSet(ready[h]) \cup ToSet(waiting[h])

Proper(f) ==
    f.at = "simple" =>
        /\ Distinct(f.items) /\ Distinct(f.deferred) /\ ToSet(f.items) \cap ToSet(f.deferred) = {}
        /\ \A a \in Hand(f) : action[a].method = f.hook

NoRepeats ==
    /\ \A h \in Methods : /\ Distinct(ready[h]) /\ Distinct(waiting[h])
                          /\ ToSet(ready[h]) \cap ToSet(waiting[h]) = {}
    /\ \A k \in DOMAIN frames : Proper(frames[k])

OfTheMethod == \A h \in Methods : \A a \in Queued(h) : action[a].method = h

Apart ==
    /\ \A k, l \in Nat : k # l => Held(k) \cap Held(l) = {}
    /\ \A k \in Nat, h \in Methods : Held(k) \cap Queued(h) = {}
    /\ finished \cap dropped = {}
    /\ \A a \in finished \cup dropped :
          (\A h \in Methods : a \notin Queued(h)) /\ (\A k \in Nat : a \notin Held(k))

Somewhere ==
    \A a \in DOMAIN action :
        \/ a \in finished \cup dropped
        \/ \E h \in Methods : a \in Queued(h)
        \/ \E k \in Nat : a \in Held(k)

Single == NoRepeats /\ OfTheMethod /\ Apart /\ Somewhere

LEMMA OnlyKnown ==
  ASSUME Types
  PROVE  /\ \A h \in Methods : Queued(h) \subseteq DOMAIN action
         /\ \A k \in Nat : Held(k) \subseteq DOMAIN action
  <1>1. \A h \in Methods : Queued(h) \subseteq DOMAIN action
    BY DEF Types, ActionsOK, Queued
  <1>2. ASSUME NEW k \in DOMAIN frames PROVE Hand(frames[k]) \subseteq DOMAIN action
    <2>1. FrameOK(frames[k])
      BY DEF Types, FramesOK
    <2> QED BY <2>1 DEF FrameOK, Hand
  <1> QED BY <1>1, <1>2 DEF Held

LEMMA ProperStays ==
  ASSUME Grows, NEW f, FrameOK(f), Proper(f)
  PROVE  Proper(f)'
  BY DEF Grows, FrameOK, Proper, Hand

\* A step that changes the frame on top changes what that frame has in hand.
LEMMA TopHand ==
  ASSUME Types, Grows, frames # <<>>, NEW f \in FrameRecord, FrameOK(f)', SetTop(f)
  PROVE  /\ Len(frames) \in Nat /\ Held(Len(frames)) = Hand(Top)
         /\ \A k \in Nat : Held(k)' = IF k = Len(frames) THEN Hand(f) ELSE Held(k)
         /\ (\A k \in DOMAIN frames : Proper(frames[k])) /\ Proper(f)'
               => (\A k \in DOMAIN frames : Proper(frames[k]))'
  <1> DEFINE n == Len(frames)
  <1>1. FramesOK
    BY DEF Types
  <1>2. /\ n \in Nat /\ n \in DOMAIN frames /\ Top = frames[n]
    BY <1>1, TopIsFrame
  <1>3. /\ DOMAIN frames' = DOMAIN frames /\ frames'[n] = f
        /\ \A k \in DOMAIN frames : k # n => frames'[k] = frames[k]
    BY <1>1, TopChanged
  <1> HIDE DEF n
  <1>4. \A k \in Nat : Held(k)' = IF k = n THEN Hand(f) ELSE Held(k)
    BY <1>2, <1>3 DEF Held
  <1>5. ASSUME \A k \in DOMAIN frames : Proper(frames[k]), Proper(f)'
        PROVE  (\A k \in DOMAIN frames : Proper(frames[k]))'
    <2> SUFFICES ASSUME NEW k \in DOMAIN frames PROVE Proper(frames[k])'
      BY <1>3
    <2>1. PICK g : g = frames'[k]
      OBVIOUS
    <2>2. CASE k = n
      <3>1. g = f
        BY <1>3, <2>1, <2>2
      <3>2. Proper(g)'
        BY <1>5, <3>1
      <3> QED BY <2>1, <3>2
    <2>3. CASE k # n
      <3>1. g = frames[k]
        BY <1>3, <2>1, <2>3
      <3>2. Proper(g)'
        BY <1>1, <1>5, <3>1, ProperStays DEF FramesOK
      <3> QED BY <2>1, <3>2
    <2> QED BY <2>2, <2>3
  <1> QED BY <1>2, <1>4, <1>5 DEF Held, n

\* A call that begins has no action in hand yet.
LEMMA PushHand ==
  ASSUME Types, Grows, GameIsFree, NEW f \in FrameRecord, FrameOK(f)', Push(f), f.at # "simple"
  PROVE  /\ \A k \in Nat : Held(k)' = Held(k)
         /\ (\A k \in DOMAIN frames : Proper(frames[k])) => (\A k \in DOMAIN frames : Proper(frames[k]))'
  <1> DEFINE n == Len(frames)
  <1>1. FramesOK
    BY DEF Types
  <1>2. /\ n \in Nat /\ DOMAIN frames = 1 .. n /\ DOMAIN frames' = 1 .. n + 1 /\ frames'[n + 1] = f
        /\ \A k \in DOMAIN frames : frames'[k] = frames[k]
    BY <1>1, TopPushed
  <1> HIDE DEF n
  <1>3. \A k \in Nat : k \in DOMAIN frames' <=> k \in DOMAIN frames \/ k = n + 1
    BY <1>2
  <1>4. n + 1 \in Nat /\ n + 1 \notin DOMAIN frames
    BY <1>2
  <1>5. \A k \in Nat : Held(k)' = Held(k)
    BY <1>2, <1>3, <1>4 DEF Held, Hand
  <1>6. ASSUME \A k \in DOMAIN frames : Proper(frames[k])
        PROVE  (\A k \in DOMAIN frames : Proper(frames[k]))'
    <2> SUFFICES ASSUME NEW k \in DOMAIN frames' PROVE Proper(frames[k])'
      OBVIOUS
    <2>1. PICK g : g = frames'[k]
      OBVIOUS
    <2>2. k \in Nat
      BY <1>2
    <2>3. CASE k = n + 1
      <3>1. Proper(g)'
        BY <1>2, <2>1, <2>3 DEF Proper
      <3> QED BY <2>1, <3>1
    <2>4. CASE k # n + 1
      <3>1. k \in DOMAIN frames /\ g = frames[k]
        BY <1>2, <1>3, <2>1, <2>2, <2>4
      <3>2. Proper(g)'
        BY <1>1, <1>6, <3>1, ProperStays DEF FramesOK
      <3> QED BY <2>1, <3>2
    <2> QED BY <2>3, <2>4
  <1> QED BY <1>5, <1>6

\* A call returns when it has no action in hand any more.
LEMMA PopHand ==
  ASSUME Types, Grows, frames # <<>>, Pop, Top.at # "simple"
  PROVE  /\ \A k \in Nat : Held(k)' = Held(k)
         /\ (\A k \in DOMAIN frames : Proper(frames[k])) => (\A k \in DOMAIN frames : Proper(frames[k]))'
  <1> DEFINE n == Len(frames)
  <1>1. FramesOK
    BY DEF Types
  <1>2. Top = frames[n]
    BY DEF Top
  <1>3. /\ \A k \in DOMAIN frames' : k \in DOMAIN frames /\ frames'[k] = frames[k]
        /\ \A k \in DOMAIN frames : k # n => k \in DOMAIN frames'
    BY <1>1, TopPopped
  <1>4. n \notin DOMAIN frames'
    BY <1>1, TopIsFrame, TopPopped
  <1> HIDE DEF n
  <1>5. \A k \in Nat : Held(k)' = Held(k)
    BY <1>2, <1>3, <1>4 DEF Held, Hand
  <1>6. ASSUME \A k \in DOMAIN frames : Proper(frames[k])
        PROVE  (\A k \in DOMAIN frames : Proper(frames[k]))'
    <2> SUFFICES ASSUME NEW k \in DOMAIN frames' PROVE Proper(frames[k])'
      OBVIOUS
    <2>1. PICK g : g = frames'[k]
      OBVIOUS
    <2>2. k \in DOMAIN frames /\ g = frames[k]
      BY <1>3, <2>1
    <2>3. Proper(g)'
      BY <1>1, <1>6, <2>2, ProperStays DEF FramesOK
    <2> QED BY <2>1, <2>3
  <1> QED BY <1>5, <1>6

\* Hands that no step touches: frames that stay.
LEMMA SameHands ==
  ASSUME Types, Grows, UNCHANGED frames
  PROVE  /\ \A k \in Nat : Held(k)' = Held(k)
         /\ (\A k \in DOMAIN frames : Proper(frames[k])) => (\A k \in DOMAIN frames : Proper(frames[k]))'
  <1>1. \A k \in Nat : Held(k)' = Held(k)
    BY DEF Held
  <1>2. ASSUME \A k \in DOMAIN frames : Proper(frames[k])
        PROVE  (\A k \in DOMAIN frames : Proper(frames[k]))'
    <2> SUFFICES ASSUME NEW k \in DOMAIN frames PROVE Proper(frames[k])'
      OBVIOUS
    <2>1. PICK g : g = frames'[k]
      OBVIOUS
    <2>2. Proper(g)'
      BY <1>2, <2>1, ProperStays DEF Types, FramesOK
    <2> QED BY <2>1, <2>2
  <1> QED BY <1>1, <1>2
\* The steps that move no action.
Quiet ==
    \/ \E m \in Mods : NotifyOnNewObject(m)
    \/ \E h \in Methods : BeginPass(h)
    \/ BeginDelayed \/ EndDelayed \/ CollectNotifications \/ BeginNotification
    \/ (\E c \in BOOLEAN : EndNotification(c)) \/ EndNotifications
    \/ Construct \/ Construction \/ ConstructElsewhere \/ QueueNotifications
    \/ ConstructUnheard \/ AllocateSerial \/ Destroy

LEMMA QuietHands ==
  ASSUME Types, Next, Quiet
  PROVE  /\ UNCHANGED <<open, action, ready, waiting, finished, dropped, late, deferred, escaped>>
         /\ \A k \in Nat : Held(k)' = Held(k)
         /\ (\A k \in DOMAIN frames : Proper(frames[k])) => (\A k \in DOMAIN frames : Proper(frames[k]))'
  <1>1. Grows
    BY StepsGrow
  <1>2. UNCHANGED <<open, action, ready, waiting, finished, dropped, late, deferred, escaped>>
    <2>1. UNCHANGED <<open, actionVars, history>>
      BY DEF Quiet, NotifyOnNewObject, BeginPass, BeginDelayed, EndDelayed, CollectNotifications,
             BeginNotification, EndNotification, EndNotifications, Construct, Construction,
             BeginListener, EndListener, ListenerThrows, EndConstruct, ConstructElsewhere,
             QueueNotifications, ConstructUnheard, AllocateSerial, Destroy
    <2> QED BY <2>1 DEF actionVars, history
  <1> DEFINE Same ==
          /\ \A k \in Nat : Held(k)' = Held(k)
          /\ (\A k \in DOMAIN frames : Proper(frames[k])) => (\A k \in DOMAIN frames : Proper(frames[k]))'
  <1>3. ASSUME NEW f \in FrameRecord, SetTop(f), FrameOK(f)', frames # <<>>,
               f.at # "simple", Top.at # "simple"
        PROVE  Same
    <2>1. Proper(f)'
      BY <1>3 DEF Proper
    <2>2. Hand(f) = {} /\ Hand(Top) = {}
      BY <1>3 DEF Hand
    <2> QED BY <1>1, <1>3, <2>1, <2>2, TopHand
  <1>4. ASSUME UNCHANGED frames PROVE Same
    BY <1>1, <1>4, SameHands
  <1>5. ASSUME NEW h \in Methods, BeginPass(h) PROVE Same
    <2>1. PICK f \in FrameRecord : Push(f) /\ FrameOK(f)' /\ GameIsFree /\ f.at = "take"
      BY <1>5, PassPushed
    <2> QED BY <1>1, <2>1, PushHand
  <1>6. ASSUME Construct PROVE Same
    <2>1. PICK f \in FrameRecord : Push(f) /\ FrameOK(f)' /\ GameIsFree /\ f.at = "construct"
      BY <1>6, ConstructionPushed
    <2> QED BY <1>1, <2>1, PushHand
  <1>7. ASSUME ListenerThrows \/ EndConstruct PROVE Same
    <2>1. frames # <<>> /\ Pop /\ Top.at # "simple"
      BY <1>7 DEF ListenerThrows, EndConstruct, At
    <2> QED BY <1>1, <2>1, PopHand
  <1> HIDE DEF Same
  <1>8. ASSUME BeginDelayed PROVE Same
    <2>1. Top.at # "simple"
      BY <1>8 DEF BeginDelayed, At
    <2> QED BY <1>3, <1>8, <2>1, BeginDelayedTop
  <1>9. ASSUME EndDelayed \/ EndNotifications PROVE Same
    <2>1. Top.at # "simple"
      BY <1>9 DEF EndDelayed, EndNotifications, At
    <2>2. PICK f \in FrameRecord :
             SetTop(f) /\ FrameOK(f)' /\ frames # <<>> /\ f.at \in {"delayed", "collect", "finish"}
      BY <1>9, StageEnds
    <2> QED BY <1>3, <2>1, <2>2
  <1>10. ASSUME CollectNotifications PROVE Same
    <2>1. Top.at # "simple"
      BY <1>10 DEF CollectNotifications, At
    <2>2. PICK f \in FrameRecord :
             SetTop(f) /\ FrameOK(f)' /\ frames # <<>> /\ f.at \in {"notify", "finish"}
      BY <1>10, CollectTop
    <2> QED BY <1>3, <2>1, <2>2
  <1>11. ASSUME \/ BeginNotification \/ BeginListener
                \/ \E c \in BOOLEAN : EndNotification(c) \/ EndListener(c)
         PROVE  Same
    <2>1. PICK f \in FrameRecord :
             SetTop(f) /\ FrameOK(f)' /\ frames # <<>> /\ f.at = Top.at /\ f.at \in {"notify", "construct"}
      BY <1>11, ListenerTop
    <2>2. f.at # "simple" /\ Top.at # "simple"
      BY <2>1
    <2> QED BY <1>3, <2>1, <2>2
  <1>12. ASSUME \/ \E m \in Mods : NotifyOnNewObject(m)
                \/ ConstructElsewhere \/ QueueNotifications
                \/ ConstructUnheard \/ AllocateSerial \/ Destroy
         PROVE  Same
    BY <1>4, <1>12 DEF NotifyOnNewObject, ConstructElsewhere, QueueNotifications, ConstructUnheard,
                       AllocateSerial, Destroy
  <1>13. Same
    BY <1>5, <1>6, <1>7, <1>8, <1>9, <1>10, <1>11, <1>12 DEF Quiet, Construction
  <1> QED BY <1>2, <1>13 DEF Same

\* The steps that move actions, and how.
LEMMA TakeMoves ==
  ASSUME Types, Next, TakeActions, Top.hook \in Methods
  PROVE  /\ UNCHANGED <<open, action, waiting, finished, dropped, late, deferred, escaped, executing>>
         /\ Len(frames) \in Nat /\ Held(Len(frames)) = {}
         /\ \A h \in Methods : ready'[h] = IF h = Top.hook THEN <<>> ELSE ready[h]
         /\ \A k \in Nat : Held(k)' = IF k = Len(frames) THEN ToSet(ready[Top.hook]) ELSE Held(k)
         /\ NoRepeats /\ OfTheMethod => (\A k \in DOMAIN frames : Proper(frames[k]))'
  <1>1. Grows /\ At("take")
    BY StepsGrow DEF TakeActions
  <1>2. PICK f \in FrameRecord :
           /\ SetTop(f) /\ FrameOK(f)' /\ frames # <<>>
           /\ f.hook = Top.hook /\ f.deferred = <<>>
           /\ IF ready[Top.hook] = <<>> THEN f.at = "delayed" /\ ready' = ready
              ELSE /\ f.at = "simple" /\ f.items = ready[Top.hook]
                   /\ ready' = [ready EXCEPT ![Top.hook] = <<>>]
    BY TakeTop
  <1>3. Hand(Top) = {}
    BY <1>1, AtTop DEF Hand
  <1>4. Hand(f) = ToSet(ready[Top.hook])
    BY <1>2, EmptyElements DEF Hand
  <1>5. \A h \in Methods : ready'[h] = IF h = Top.hook THEN <<>> ELSE ready[h]
    <2>1. ready \in [Methods -> Seq(Nat)]
      BY DEF Types, ActionsOK
    <2> QED BY <1>2, <2>1
  <1>6. UNCHANGED <<open, action, waiting, finished, dropped, late, deferred, escaped, executing>>
    BY DEF TakeActions, history
  <1>7. ASSUME NoRepeats, OfTheMethod PROVE Proper(f)'
    <2>1. CASE ready[Top.hook] = <<>>
      BY <1>2, <2>1 DEF Proper
    <2>2. CASE ready[Top.hook] # <<>>
      <3>1. Distinct(f.items) /\ Distinct(f.deferred) /\ ToSet(f.items) \cap ToSet(f.deferred) = {}
        BY <1>2, <1>7, <2>2, EmptyElements DEF NoRepeats
      <3>2. \A a \in Hand(f) : action[a].method = Top.hook
        BY <1>4, <1>7 DEF OfTheMethod, Queued
      <3> QED BY <1>2, <1>6, <3>1, <3>2 DEF Proper
    <2> QED BY <2>1, <2>2
  <1> QED BY <1>1, <1>2, <1>3, <1>4, <1>5, <1>6, <1>7, TopHand DEF NoRepeats

LEMMA DeferMoves ==
  ASSUME Types, Next, BeginAction
  PROVE  /\ UNCHANGED <<open, action, ready, waiting, finished, dropped, late, escaped>>
         /\ \A k \in Nat : Held(k)' = Held(k)
         /\ NoRepeats => (\A k \in DOMAIN frames : Proper(frames[k]))'
  <1>1. Grows /\ At("simple") /\ Top.items # <<>>
    BY StepsGrow DEF BeginAction
  <1>2. PICK f \in FrameRecord :
           /\ SetTop(f) /\ FrameOK(f)' /\ frames # <<>> /\ f.hook = Top.hook /\ f.at = "simple"
           /\ \/ /\ f.items = Tail(Top.items) /\ f.deferred = Append(Top.deferred, Head(Top.items))
              \/ f.items = Top.items /\ f.deferred = Top.deferred
    BY BeginActionTop
  <1>3. UNCHANGED <<open, action, ready, waiting, finished, dropped, late, escaped>>
    BY DEF BeginAction, actionVars
  <1>4. /\ Top.items \in Seq(Item) /\ Top.deferred \in Seq(Nat) /\ Head(Top.items) \in Nat
        /\ Top.at = "simple"
    BY <1>1, AtTop, FirstAction
  <1>5. /\ ToSet(Top.items) = ToSet(Tail(Top.items)) \cup {Head(Top.items)}
        /\ Distinct(Top.items) => Distinct(Tail(Top.items)) /\ Head(Top.items) \notin ToSet(Tail(Top.items))
    BY <1>1, <1>4, TailElements
  <1>6. /\ ToSet(Append(Top.deferred, Head(Top.items))) = ToSet(Top.deferred) \cup {Head(Top.items)}
        /\ Distinct(Top.deferred) /\ Head(Top.items) \notin ToSet(Top.deferred)
              => Distinct(Append(Top.deferred, Head(Top.items)))
    BY <1>4, Appended
  <1>7. Hand(f) = Hand(Top)
    BY <1>2, <1>4, <1>5, <1>6 DEF Hand
  <1>8. ASSUME NoRepeats PROVE Proper(f)'
    <2>1. Proper(Top)
      BY <1>2, <1>8, TopIsFrame DEF NoRepeats, Types
    <2>2. Distinct(f.items) /\ Distinct(f.deferred) /\ ToSet(f.items) \cap ToSet(f.deferred) = {}
      BY <1>2, <1>4, <1>5, <1>6, <2>1 DEF Proper
    <2>3. \A a \in Hand(f) : action[a].method = f.hook
      BY <1>2, <1>4, <1>7, <2>1 DEF Proper
    <2> QED BY <1>3, <2>2, <2>3 DEF Proper
  <1> QED BY <1>1, <1>2, <1>3, <1>7, <1>8, TopHand DEF NoRepeats

LEMMA FinishMoves ==
  ASSUME Types, Next, EndAction
  PROVE  /\ UNCHANGED <<open, action, ready, waiting, dropped, late, deferred, escaped>>
         /\ Len(frames) \in Nat /\ Head(Top.items) \in Held(Len(frames))
         /\ finished' = finished \cup {Head(Top.items)}
         /\ NoRepeats =>
               /\ \A k \in Nat : Held(k)' = IF k = Len(frames) THEN Held(k) \ {Head(Top.items)} ELSE Held(k)
               /\ (\A k \in DOMAIN frames : Proper(frames[k]))'
  <1>1. Grows /\ At("simple")
    BY StepsGrow DEF EndAction
  <1>2. PICK f \in FrameRecord :
           /\ SetTop(f) /\ FrameOK(f)' /\ frames # <<>> /\ Top.items # <<>>
           /\ f.hook = Top.hook /\ f.at = "simple"
           /\ f.items = Tail(Top.items) /\ f.deferred = Top.deferred
    BY EndActionTop
  <1>3. /\ UNCHANGED <<open, action, ready, waiting, dropped, late, deferred, escaped>>
        /\ finished' = finished \cup {Head(Top.items)}
    BY DEF EndAction, actionVars
  <1>4. Top.items \in Seq(Item) /\ Top.at = "simple"
    BY <1>1, AtTop
  <1>5. /\ ToSet(Top.items) = ToSet(Tail(Top.items)) \cup {Head(Top.items)}
        /\ Distinct(Top.items) => Distinct(Tail(Top.items)) /\ Head(Top.items) \notin ToSet(Tail(Top.items))
    BY <1>2, <1>4, TailElements
  <1>6. Head(Top.items) \in Hand(Top)
    BY <1>4, <1>5 DEF Hand
  <1>7. ASSUME NoRepeats PROVE Proper(f)' /\ Hand(f) = Hand(Top) \ {Head(Top.items)}
    <2>1. Proper(Top)
      BY <1>2, <1>7, TopIsFrame DEF NoRepeats, Types
    <2>2. Distinct(f.items) /\ Distinct(f.deferred) /\ ToSet(f.items) \cap ToSet(f.deferred) = {}
      BY <1>2, <1>4, <1>5, <2>1 DEF Proper
    <2>3. Hand(f) = Hand(Top) \ {Head(Top.items)}
      BY <1>2, <1>4, <1>5, <2>1 DEF Proper, Hand
    <2>4. \A a \in Hand(f) : action[a].method = f.hook
      BY <1>2, <1>4, <2>1, <2>3 DEF Proper
    <2> QED BY <1>3, <2>2, <2>3, <2>4 DEF Proper
  <1> QED BY <1>1, <1>2, <1>3, <1>6, <1>7, TopHand DEF NoRepeats

LEMMA ReturnMoves ==
  ASSUME Types, Next, EndActions, Top.hook \in Methods
  PROVE  /\ UNCHANGED <<open, action, waiting, finished, dropped, late, deferred, escaped, executing>>
         /\ Len(frames) \in Nat /\ Held(Len(frames)) = ToSet(Top.deferred)
         /\ \A h \in Methods : ready'[h] = IF h = Top.hook THEN ready[h] \o Top.deferred ELSE ready[h]
         /\ \A k \in Nat : Held(k)' = IF k = Len(frames) THEN {} ELSE Held(k)
         /\ NoRepeats => /\ (\A k \in DOMAIN frames : Proper(frames[k]))'
                         /\ Distinct(Top.deferred)
                         /\ \A a \in ToSet(Top.deferred) : action[a].method = Top.hook
  <1>1. Grows /\ At("simple") /\ Top.items = <<>>
    BY StepsGrow DEF EndActions
  <1>2. PICK f \in FrameRecord :
           /\ SetTop(f) /\ FrameOK(f)' /\ frames # <<>> /\ f.at \in {"delayed", "collect", "finish"}
    BY StageEnds
  <1>3. Hand(f) = {} /\ Proper(f)'
    BY <1>2 DEF Hand, Proper
  <1>4. Hand(Top) = ToSet(Top.deferred) /\ Top.at = "simple"
    BY <1>1, AtTop, EmptyElements DEF Hand
  <1>5. \A h \in Methods : ready'[h] = IF h = Top.hook THEN ready[h] \o Top.deferred ELSE ready[h]
    <2>1. ready \in [Methods -> Seq(Nat)]
      BY DEF Types, ActionsOK
    <2>2. ready' = [ready EXCEPT ![Top.hook] = ready[Top.hook] \o Top.deferred]
      BY DEF EndActions
    <2> QED BY <2>1, <2>2
  <1>6. UNCHANGED <<open, action, waiting, finished, dropped, late, deferred, escaped, executing>>
    BY DEF EndActions, history
  <1>7. ASSUME NoRepeats
        PROVE  Distinct(Top.deferred) /\ \A a \in ToSet(Top.deferred) : action[a].method = Top.hook
    <2>1. Proper(Top)
      BY <1>2, <1>7, TopIsFrame DEF NoRepeats, Types
    <2> QED BY <1>4, <2>1 DEF Proper
  <1> QED BY <1>1, <1>2, <1>3, <1>4, <1>5, <1>6, <1>7, TopHand DEF NoRepeats

LEMMA PassMoves ==
  ASSUME Types, Next, EndPass, Top.hook \in Methods
  PROVE  /\ UNCHANGED <<open, action, finished, dropped, late, deferred, escaped, executing>>
         /\ \A h \in Methods : ready'[h] = IF h = Top.hook THEN ready[h] \o waiting[h] ELSE ready[h]
         /\ \A h \in Methods : waiting'[h] = IF h = Top.hook THEN <<>> ELSE waiting[h]
         /\ \A k \in Nat : Held(k)' = Held(k)
         /\ NoRepeats => (\A k \in DOMAIN frames : Proper(frames[k]))'
  <1>1. Grows /\ At("finish") /\ Pop
    BY StepsGrow DEF EndPass
  <1>2. frames # <<>> /\ Top.at # "simple"
    BY <1>1 DEF At
  <1>3. ready \in [Methods -> Seq(Nat)] /\ waiting \in [Methods -> Seq(Nat)]
    BY DEF Types, ActionsOK
  <1>4. /\ \A h \in Methods : ready'[h] = IF h = Top.hook THEN ready[h] \o waiting[h] ELSE ready[h]
        /\ \A h \in Methods : waiting'[h] = IF h = Top.hook THEN <<>> ELSE waiting[h]
    <2>1. /\ ready' = [ready EXCEPT ![Top.hook] = ready[Top.hook] \o waiting[Top.hook]]
          /\ waiting' = [waiting EXCEPT ![Top.hook] = <<>>]
      BY DEF EndPass
    <2> QED BY <1>3, <2>1
  <1>5. UNCHANGED <<open, action, finished, dropped, late, deferred, escaped, executing>>
    BY DEF EndPass, history
  <1> QED BY <1>1, <1>2, <1>4, <1>5, PopHand DEF NoRepeats

LEMMA QueueMoves ==
  ASSUME Types, Next, NEW m \in Mods, NEW h \in Methods, ExecuteInGameThread(m, h)
  PROVE  \E new \in Nat :
           /\ UNCHANGED <<open, finished, dropped, deferred, escaped, executing>>
           /\ new \notin DOMAIN action /\ DOMAIN action' = DOMAIN action \cup {new}
           /\ action'[new].method = h /\ action'[new].mod = m /\ m \in open
           /\ \A a \in DOMAIN action : a < new /\ a \in Nat /\ action'[a] = action[a]
           /\ \/ /\ \A g \in Methods : ready'[g] = IF g = h THEN Append(ready[g], new) ELSE ready[g]
                 /\ waiting' = waiting /\ late' = late
              \/ /\ \A g \in Methods : waiting'[g] = IF g = h THEN Append(waiting[g], new) ELSE waiting[g]
                 /\ ready' = ready /\ late' = late \cup {new}
           /\ \A k \in Nat : Held(k)' = Held(k)
           /\ NoRepeats => (\A k \in DOMAIN frames : Proper(frames[k]))'
  <1>1. Grows /\ UNCHANGED frames
    BY StepsGrow DEF ExecuteInGameThread
  <1>2. PICK new \in Nat : new = Len(action) + 1
    BY QueuedAction
  <1>3. /\ DOMAIN action' = DOMAIN action \cup {new}
        /\ \A a \in DOMAIN action : a < new /\ a \in Nat /\ action'[a] = action[a]
        /\ action'[new].method = h /\ action'[new].mod = m /\ m \in open
    BY <1>2, QueuedAction
  <1>4. new \notin DOMAIN action
    BY <1>3
  <1>5. \/ /\ \A g \in Methods : ready'[g] = IF g = h THEN Append(ready[g], new) ELSE ready[g]
           /\ waiting' = waiting /\ late' = late
        \/ /\ \A g \in Methods : waiting'[g] = IF g = h THEN Append(waiting[g], new) ELSE waiting[g]
           /\ ready' = ready /\ late' = late \cup {new}
    <2>1. ready \in [Methods -> Seq(Nat)] /\ waiting \in [Methods -> Seq(Nat)]
      BY DEF Types, ActionsOK
    <2>2. \/ ready' = [ready EXCEPT ![h] = Append(ready[h], new)] /\ waiting' = waiting /\ late' = late
          \/ /\ waiting' = [waiting EXCEPT ![h] = Append(waiting[h], new)]
             /\ ready' = ready /\ late' = late \cup {new}
      BY <1>2 DEF ExecuteInGameThread
    <2> QED BY <2>1, <2>2
  <1>6. UNCHANGED <<open, finished, dropped, deferred, escaped, executing>>
    BY DEF ExecuteInGameThread
  <1>7. /\ \A k \in Nat : Held(k)' = Held(k)
        /\ NoRepeats => (\A k \in DOMAIN frames : Proper(frames[k]))'
    BY <1>1, SameHands DEF NoRepeats
  <1> QED BY <1>3, <1>4, <1>5, <1>6, <1>7

LEMMA UninstallMoves ==
  ASSUME Types, Next, NEW m \in Mods, Uninstall(m), NEW keep, keep = DOMAIN action \ ActionsOf(m)
  PROVE  /\ UNCHANGED <<action, finished, late, deferred, executing>>
         /\ \A h \in Methods :
               /\ ToSet(ready'[h]) = ToSet(ready[h]) \cap keep
               /\ Distinct(ready[h]) => Distinct(ready'[h])
               /\ \A order : InOrder(ready[h], order) => InOrder(ready'[h], order)
               /\ ToSet(waiting'[h]) = ToSet(waiting[h]) \cap keep
               /\ Distinct(waiting[h]) => Distinct(waiting'[h])
               /\ \A order : InOrder(waiting[h], order) => InOrder(waiting'[h], order)
         /\ dropped' = dropped \cup {a \in ActionsOf(m) : \E h \in Methods : a \in Queued(h)}
         /\ escaped' = escaped \cup (ActionsOf(m) \cap OnStack)
         /\ open' = open \ {m}
         /\ \A k \in Nat : Held(k)' = Held(k)
         /\ NoRepeats => (\A k \in DOMAIN frames : Proper(frames[k]))'
  <1>1. Grows /\ UNCHANGED frames
    BY StepsGrow DEF Uninstall
  <1>2. /\ ready' \in KeptOfBoth(ready, keep) /\ waiting' \in KeptOfBoth(waiting, keep)
        /\ UNCHANGED <<action, finished, late, deferred, executing>>
        /\ escaped' = escaped \cup (ActionsOf(m) \cap OnStack)
        /\ open' = open \ {m}
    BY DEF Uninstall
  <1>3. dropped' = dropped \cup {a \in ActionsOf(m) : \E h \in Methods : a \in Queued(h)}
    BY DEF Uninstall, Queued
  <1>4. ready \in [Methods -> Seq(Nat)] /\ waiting \in [Methods -> Seq(Nat)]
    BY DEF Types, ActionsOK
  <1>5. \A h \in Methods :
           /\ ToSet(ready'[h]) = ToSet(ready[h]) \cap keep
           /\ Distinct(ready[h]) => Distinct(ready'[h])
           /\ \A order : InOrder(ready[h], order) => InOrder(ready'[h], order)
    <2>1. PICK v, w : v = ready /\ w = ready'
      OBVIOUS
    <2>2. v \in [Methods -> Seq(Nat)] /\ w \in KeptOfBoth(v, keep)
      BY <1>2, <1>4, <2>1
    <2>3. \A h \in Methods :
             /\ ToSet(w[h]) = ToSet(v[h]) \cap keep
             /\ Distinct(v[h]) => Distinct(w[h])
             /\ \A order : InOrder(v[h], order) => InOrder(w[h], order)
      BY <2>2, KeptVectors
    <2> QED BY <2>1, <2>3
  <1>6. \A h \in Methods :
           /\ ToSet(waiting'[h]) = ToSet(waiting[h]) \cap keep
           /\ Distinct(waiting[h]) => Distinct(waiting'[h])
           /\ \A order : InOrder(waiting[h], order) => InOrder(waiting'[h], order)
    BY <1>2, <1>4, KeptVectors
  <1>7. /\ \A k \in Nat : Held(k)' = Held(k)
        /\ NoRepeats => (\A k \in DOMAIN frames : Proper(frames[k]))'
    BY <1>1, SameHands DEF NoRepeats
  <1> QED BY <1>2, <1>3, <1>5, <1>6, <1>7

LEMMA SingleStep ==
  ASSUME Types, Next, Single
  PROVE  Single'
  <1> USE DEF Single
  <1>1. /\ \A h \in Methods : Queued(h) \subseteq DOMAIN action
        /\ \A k \in Nat : Held(k) \subseteq DOMAIN action
        /\ finished \cup dropped \subseteq DOMAIN action
    BY OnlyKnown DEF Types, ActionsOK
  <1>2. \A h \in Methods : ready[h] \in Seq(Nat) /\ waiting[h] \in Seq(Nat)
    BY MethodVector
  <1>3. ASSUME NEW m \in Mods, NEW h \in Methods, ExecuteInGameThread(m, h) PROVE Single'
    <2>1. PICK new \in Nat :
             /\ UNCHANGED <<open, finished, dropped, deferred, escaped, executing>>
             /\ new \notin DOMAIN action /\ DOMAIN action' = DOMAIN action \cup {new}
             /\ action'[new].method = h /\ action'[new].mod = m /\ m \in open
             /\ \A a \in DOMAIN action : a < new /\ a \in Nat /\ action'[a] = action[a]
             /\ \/ /\ \A g \in Methods : ready'[g] = IF g = h THEN Append(ready[g], new) ELSE ready[g]
                   /\ waiting' = waiting /\ late' = late
                \/ /\ \A g \in Methods : waiting'[g] = IF g = h THEN Append(waiting[g], new) ELSE waiting[g]
                   /\ ready' = ready /\ late' = late \cup {new}
             /\ \A k \in Nat : Held(k)' = Held(k)
             /\ NoRepeats => (\A k \in DOMAIN frames : Proper(frames[k]))'
      BY <1>3, QueueMoves, ZenonT(60)
    <2>2. \A g \in Methods :
             /\ ToSet(Append(ready[g], new)) = ToSet(ready[g]) \cup {new}
             /\ ToSet(Append(waiting[g], new)) = ToSet(waiting[g]) \cup {new}
      BY <1>2, <2>1, Appended
    <2>3. \A g \in Methods : Distinct(Append(ready[g], new)) /\ Distinct(Append(waiting[g], new))
      BY <1>1, <1>2, <2>1, Appended DEF NoRepeats, Queued
    <2>4. NoRepeats'
      BY <1>1, <2>1, <2>2, <2>3 DEF NoRepeats, Queued
    <2>5. \A g \in Methods : Queued(g)' = IF g = h THEN Queued(g) \cup {new} ELSE Queued(g)
      BY <2>1, <2>2 DEF Queued
    <2>6. OfTheMethod'
      BY <1>1, <2>1, <2>5 DEF OfTheMethod
    <2>7. Apart'
      BY <1>1, <2>1, <2>5 DEF Apart
    <2>8. Somewhere'
      BY <2>1, <2>5 DEF Somewhere
    <2> QED BY <2>4, <2>6, <2>7, <2>8
  <1>4. ASSUME NEW m \in Mods, Uninstall(m) PROVE Single'
    <2>1. PICK keep : keep = DOMAIN action \ ActionsOf(m)
      OBVIOUS
    <2>2. /\ UNCHANGED <<action, finished>>
          /\ \A h \in Methods : /\ ToSet(ready'[h]) = ToSet(ready[h]) \cap keep
                                /\ Distinct(ready[h]) => Distinct(ready'[h])
                                /\ ToSet(waiting'[h]) = ToSet(waiting[h]) \cap keep
                                /\ Distinct(waiting[h]) => Distinct(waiting'[h])
          /\ dropped' = dropped \cup {a \in ActionsOf(m) : \E h \in Methods : a \in Queued(h)}
          /\ \A k \in Nat : Held(k)' = Held(k)
          /\ (\A k \in DOMAIN frames : Proper(frames[k]))'
      BY <1>4, <2>1, UninstallMoves
    <2>3. NoRepeats'
      BY <2>2 DEF NoRepeats
    <2>4. \A h \in Methods : Queued(h)' = Queued(h) \cap keep
      BY <2>2 DEF Queued
    <2>5. OfTheMethod'
      BY <2>2, <2>4 DEF OfTheMethod
    <2>6. Apart'
      BY <1>1, <2>1, <2>2, <2>4 DEF Apart
    <2>7. Somewhere'
      BY <1>1, <2>1, <2>2, <2>4 DEF Somewhere
    <2> QED BY <2>3, <2>5, <2>6, <2>7
  <1>5. CASE TakeActions
    <2>1. Top.hook \in Methods
      BY <1>5, AtTop DEF TakeActions
    <2>2. PICK hook \in Methods, n \in Nat : hook = Top.hook /\ n = Len(frames)
      BY <1>5, <2>1, TakeMoves
    <2>3. /\ UNCHANGED <<action, waiting, finished, dropped>>
          /\ Held(n) = {}
          /\ \A h \in Methods : ready'[h] = IF h = hook THEN <<>> ELSE ready[h]
          /\ \A k \in Nat : Held(k)' = IF k = n THEN ToSet(ready[hook]) ELSE Held(k)
          /\ (\A k \in DOMAIN frames : Proper(frames[k]))'
      BY <1>5, <2>1, <2>2, TakeMoves
    <2>4. NoRepeats'
      BY <2>3, EmptyElements DEF NoRepeats
    <2>5. \A h \in Methods : Queued(h)' = IF h = hook THEN ToSet(waiting[h]) ELSE Queued(h)
      BY <2>3, EmptyElements DEF Queued
    <2>6. OfTheMethod'
      BY <2>3, <2>5 DEF OfTheMethod, Queued
    <2>7. /\ ToSet(ready[hook]) \subseteq Queued(hook) /\ ToSet(ready[hook]) \cap ToSet(waiting[hook]) = {}
          /\ Queued(hook) = ToSet(ready[hook]) \cup ToSet(waiting[hook])
          /\ \A h \in Methods : h # hook => ToSet(ready[hook]) \cap Queued(h) = {}
      BY DEF Queued, NoRepeats, OfTheMethod
    <2>8. Apart'
      <3>1. \A k, l \in Nat : k # l => Held(k)' \cap Held(l)' = {}
        BY <2>3, <2>7 DEF Apart
      <3>2. \A k \in Nat, h \in Methods : Held(k)' \cap Queued(h)' = {}
        BY <2>3, <2>5, <2>7 DEF Apart
      <3>3. \A a \in finished \cup dropped :
               (\A h \in Methods : a \notin Queued(h)') /\ (\A k \in Nat : a \notin Held(k)')
        BY <2>3, <2>5, <2>7 DEF Apart
      <3> QED BY <2>3, <3>1, <3>2, <3>3 DEF Apart
    <2>9. Somewhere'
      BY <2>3, <2>5, <2>7 DEF Somewhere
    <2> QED BY <2>4, <2>6, <2>8, <2>9
  <1>6. ASSUME UNCHANGED <<action, ready, waiting, finished, dropped>>,
               \A k \in Nat : Held(k)' = Held(k), (\A k \in DOMAIN frames : Proper(frames[k]))'
        PROVE  Single'
    <2>1. \A h \in Methods : Queued(h)' = Queued(h)
      BY <1>6 DEF Queued
    <2>2. NoRepeats' /\ OfTheMethod' /\ Apart' /\ Somewhere'
      BY <1>6, <2>1 DEF NoRepeats, OfTheMethod, Apart, Somewhere
    <2> QED BY <2>2
  <1>7. CASE BeginAction
    BY <1>6, <1>7, DeferMoves
  <1>8. CASE EndAction
    <2>1. PICK n \in Nat, done \in DOMAIN action : n = Len(frames) /\ done = Head(Top.items)
      BY <1>8, FinishMoves, OnlyKnown
    <2>2. /\ UNCHANGED <<action, ready, waiting, dropped>> /\ done \in Held(n)
          /\ finished' = finished \cup {done}
          /\ \A k \in Nat : Held(k)' = IF k = n THEN Held(k) \ {done} ELSE Held(k)
          /\ (\A k \in DOMAIN frames : Proper(frames[k]))'
      BY <1>8, <2>1, FinishMoves
    <2>3. \A h \in Methods : Queued(h)' = Queued(h)
      BY <2>2 DEF Queued
    <2>4. NoRepeats' /\ OfTheMethod'
      BY <2>2, <2>3 DEF NoRepeats, OfTheMethod
    <2>5. Apart'
      BY <2>2, <2>3 DEF Apart
    <2>6. Somewhere'
      BY <2>2, <2>3 DEF Somewhere
    <2> QED BY <2>4, <2>5, <2>6
  <1>9. CASE EndActions
    <2>1. Top.hook \in Methods
      BY <1>9, AtTop DEF EndActions
    <2>2. PICK hook \in Methods, n \in Nat, back \in Seq(Nat) :
             hook = Top.hook /\ n = Len(frames) /\ back = Top.deferred
      BY <1>9, <2>1, ReturnMoves, AtTop DEF EndActions
    <2>3. /\ UNCHANGED <<action, waiting, finished, dropped>>
          /\ Held(n) = ToSet(back)
          /\ \A h \in Methods : ready'[h] = IF h = hook THEN ready[h] \o back ELSE ready[h]
          /\ \A k \in Nat : Held(k)' = IF k = n THEN {} ELSE Held(k)
          /\ (\A k \in DOMAIN frames : Proper(frames[k]))' /\ Distinct(back)
          /\ \A a \in ToSet(back) : action[a].method = hook
      BY <1>9, <2>1, <2>2, ReturnMoves
    <2>4. back \in Seq(Nat)
      BY <1>9, <2>2, AtTop DEF EndActions
    <2>5. \A h \in Methods : ToSet(back) \cap Queued(h) = {}
      BY <2>3 DEF Apart
    <2>6. /\ ToSet(ready[hook] \o back) = ToSet(ready[hook]) \cup ToSet(back)
          /\ Distinct(ready[hook] \o back)
      BY <1>2, <2>3, <2>4, <2>5, Concatenated DEF NoRepeats, Queued
    <2>7. NoRepeats'
      BY <2>3, <2>5, <2>6 DEF NoRepeats, Queued
    <2>8. \A h \in Methods : Queued(h)' = IF h = hook THEN Queued(h) \cup ToSet(back) ELSE Queued(h)
      BY <2>3, <2>6 DEF Queued
    <2>9. OfTheMethod'
      BY <2>3, <2>8 DEF OfTheMethod
    <2>10. Apart'
      BY <2>3, <2>8 DEF Apart
    <2>11. Somewhere'
      BY <2>3, <2>8 DEF Somewhere
    <2> QED BY <2>7, <2>9, <2>10, <2>11
  <1>10. CASE EndPass
    <2>1. Top.hook \in Methods
      BY <1>10, AtTop DEF EndPass
    <2>2. PICK hook \in Methods : hook = Top.hook
      BY <2>1
    <2>3. /\ UNCHANGED <<action, finished, dropped>>
          /\ \A h \in Methods : ready'[h] = IF h = hook THEN ready[h] \o waiting[h] ELSE ready[h]
          /\ \A h \in Methods : waiting'[h] = IF h = hook THEN <<>> ELSE waiting[h]
          /\ \A k \in Nat : Held(k)' = Held(k)
          /\ (\A k \in DOMAIN frames : Proper(frames[k]))'
      BY <1>10, <2>1, <2>2, PassMoves
    <2>4. /\ ToSet(ready[hook] \o waiting[hook]) = ToSet(ready[hook]) \cup ToSet(waiting[hook])
          /\ Distinct(ready[hook] \o waiting[hook])
      BY <1>2, Concatenated DEF NoRepeats
    <2>5. NoRepeats'
      BY <2>3, <2>4, EmptyElements DEF NoRepeats
    <2>6. \A h \in Methods : Queued(h)' = Queued(h)
      BY <2>3, <2>4, EmptyElements DEF Queued
    <2>7. OfTheMethod' /\ Apart' /\ Somewhere'
      BY <2>3, <2>6 DEF OfTheMethod, Apart, Somewhere
    <2> QED BY <2>5, <2>7
  <1>11. CASE Quiet
    BY <1>6, <1>11, QuietHands DEF NoRepeats
  <1> QED BY <1>3, <1>4, <1>5, <1>7, <1>8, <1>9, <1>10, <1>11 DEF Next, Pass, Quiet

LEMMA SingleInitially == Init => Single
  <1> SUFFICES ASSUME Init PROVE Single
    OBVIOUS
  <1>1. /\ ToSet(<<>>) = {} /\ DOMAIN <<>> = {} /\ Distinct(<<>>)
    BY EmptyElements
  <1>2. \A k \in Nat : Held(k) = {}
    BY <1>1 DEF Init, Held
  <1>3. \A h \in Methods : ready[h] = <<>> /\ waiting[h] = <<>> /\ Queued(h) = {}
    BY <1>1 DEF Init, Queued
  <1>4. frames = <<>> /\ action = <<>> /\ finished = {} /\ dropped = {}
    BY DEF Init
  <1>5. NoRepeats
    BY <1>1, <1>3, <1>4 DEF NoRepeats
  <1>6. OfTheMethod /\ Apart /\ Somewhere
    BY <1>1, <1>2, <1>3, <1>4 DEF OfTheMethod, Apart, Somewhere
  <1> QED BY <1>5, <1>6 DEF Single

LEMMA AlwaysSingle == Spec => [](Types /\ Single)
  <1>1. Types /\ Single /\ [Next]_vars => Single'
    <2> SUFFICES ASSUME Types, Single, [Next]_vars PROVE Single'
      OBVIOUS
    <2>1. CASE UNCHANGED vars
      <3>1. UNCHANGED <<action, ready, waiting, frames, finished, dropped>>
        BY <2>1 DEF vars, actionVars, history
      <3>2. NoRepeats'
        BY <3>1 DEF Single, NoRepeats, Proper, Hand
      <3>3. OfTheMethod' /\ Apart' /\ Somewhere'
        BY <3>1 DEF Single, OfTheMethod, Apart, Somewhere, Held, Queued
      <3> QED BY <3>2, <3>3 DEF Single
    <2> QED BY <2>1, SingleStep
  <1> QED BY <1>1, AlwaysTypes, SingleInitially, PTL DEF Spec

\* Counting: a set that has at most one member, and has one if p.
LEMMA CountsOne ==
  ASSUME NEW T, \A i, j \in T : i = j
  PROVE  Cardinality(T) = IF T = {} THEN 0 ELSE 1
  <1>1. CASE T = {}
    BY <1>1, FS_EmptySet
  <1>2. CASE T # {}
    <2>1. PICK i : i \in T
      BY <1>2
    <2>2. T = {i}
      BY <2>1
    <2>3. Cardinality({i}) = 1
      BY FS_Singleton
    <2> QED BY <1>2, <2>2, <2>3
  <1> QED BY <1>1, <1>2

LEMMA OccursOnce ==
  ASSUME NEW s, Distinct(s), NEW a
  PROVE  Occurrences(a, s) = IF a \in ToSet(s) THEN 1 ELSE 0
  <1> DEFINE T == {k \in DOMAIN s : s[k] = a}
  <1>1. \A i, j \in T : i = j
    BY DEF Distinct
  <1>2. T = {} <=> a \notin ToSet(s)
    BY DEF ToSet
  <1>3. Occurrences(a, s) = Cardinality(T)
    BY DEF Occurrences
  <1> HIDE DEF T
  <1> QED BY <1>1, <1>2, <1>3, CountsOne

LEMMA SinglePlace ==
  ASSUME Types, Single, NEW a \in DOMAIN action
  PROVE  Places(a) = 1
  <1> DEFINE h == action[a].method
             held == {k \in DOMAIN frames : frames[k].at = "simple"}
             running == {k \in held : a \in ToSet(frames[k].items)}
             put == {k \in held : a \in ToSet(frames[k].deferred)}
  <1>1. h \in Methods /\ NoRepeats /\ OfTheMethod /\ Apart /\ Somewhere
    <2>1. action \in Seq([mod : Mods, method : Methods])
      BY DEF Types, ActionsOK
    <2>2. action[a] \in [mod : Mods, method : Methods]
      BY <2>1, Elements
    <2> QED BY <2>2 DEF Single
  <1>2. Places(a) = Occurrences(a, ready[h]) + Occurrences(a, waiting[h]) + Cardinality(running)
                    + Cardinality(put) + Cardinality({a} \cap finished) + Cardinality({a} \cap dropped)
    BY DEF Places
  <1>3. \A k \in DOMAIN frames : k \in Nat
    BY Elements DEF Types, FramesOK
  <1>4. \A k \in held : a \in Held(k) <=> k \in running \cup put
    BY <1>3 DEF Held, Hand
  <1>5. \A k \in Nat : a \in Held(k) => k \in held
    BY DEF Held, Hand
  <1>6. running \cup put \subseteq held /\ held \subseteq Nat /\ running \cap put = {}
    <2>1. \A k \in held : ToSet(frames[k].items) \cap ToSet(frames[k].deferred) = {}
      BY <1>1 DEF NoRepeats, Proper
    <2> QED BY <1>3, <2>1
  <1>7. Distinct(ready[h]) /\ Distinct(waiting[h]) /\ ToSet(ready[h]) \cap ToSet(waiting[h]) = {}
        /\ Queued(h) = ToSet(ready[h]) \cup ToSet(waiting[h])
    BY <1>1 DEF NoRepeats, Queued
  <1>8. \A g \in Methods : a \in Queued(g) => g = h
    BY <1>1 DEF OfTheMethod
  <1> HIDE DEF h, held, running, put
  <1>9. \A i, j \in running \cup put : i = j
    BY <1>1, <1>4, <1>6 DEF Apart
  <1>10. /\ Occurrences(a, ready[h]) = IF a \in ToSet(ready[h]) THEN 1 ELSE 0
         /\ Occurrences(a, waiting[h]) = IF a \in ToSet(waiting[h]) THEN 1 ELSE 0
    BY <1>7, OccursOnce
  <1>11. /\ Cardinality(running) = IF running = {} THEN 0 ELSE 1
         /\ Cardinality(put) = IF put = {} THEN 0 ELSE 1
    BY <1>9, CountsOne
  <1>12. /\ Cardinality({a} \cap finished) = IF a \in finished THEN 1 ELSE 0
         /\ Cardinality({a} \cap dropped) = IF a \in dropped THEN 1 ELSE 0
    BY CountsOne
  <1>13. \/ /\ a \in finished \cup dropped /\ a \notin Queued(h) /\ running = {} /\ put = {}
         \/ /\ a \notin finished \cup dropped /\ a \in Queued(h) /\ running = {} /\ put = {}
         \/ /\ a \notin finished \cup dropped /\ a \notin Queued(h) /\ running \cup put # {}
    <2>1. CASE a \in finished \cup dropped
      BY <1>1, <1>4, <1>6, <2>1 DEF Apart
    <2>2. CASE a \notin finished \cup dropped /\ a \in Queued(h)
      BY <1>1, <1>4, <1>6, <2>2 DEF Apart
    <2>3. CASE a \notin finished \cup dropped /\ a \notin Queued(h)
      BY <1>1, <1>4, <1>5, <1>8, <2>3 DEF Somewhere
    <2> QED BY <2>1, <2>2, <2>3
  <1>14. running # {} /\ put # {} => FALSE
    BY <1>6, <1>9
  <1>15. ~(a \in finished /\ a \in dropped)
    BY <1>1 DEF Apart
  <1>16. CASE a \in finished \cup dropped
    BY <1>2, <1>7, <1>10, <1>11, <1>12, <1>13, <1>15, <1>16
  <1>17. CASE a \in Queued(h) /\ a \notin finished \cup dropped
    BY <1>2, <1>7, <1>10, <1>11, <1>12, <1>13, <1>17
  <1>18. CASE running \cup put # {} /\ a \notin finished \cup dropped
    BY <1>2, <1>7, <1>10, <1>11, <1>12, <1>13, <1>14, <1>18
  <1> QED BY <1>13, <1>16, <1>17, <1>18

\* No action of ExecuteInGameThread is lost or doubled, whatever passes nest,
\* take, defer and return it: it is queued, in the hands of one pass, done, or
\* dropped with its mod.
THEOREM ActionsKept == Spec => []ActionsConserved
  <1>1. Types /\ Single => ActionsConserved
    BY SinglePlace DEF ActionsConserved
  <1> QED BY <1>1, AlwaysSingle, PTL

LEMMA ClosedStep ==
  ASSUME Types, Single, Next, ClosedOnlyIfTaken
  PROVE  ClosedOnlyIfTaken'
  <1>1. ASSUME UNCHANGED <<open, action, escaped>>, finished \subseteq finished', dropped \subseteq dropped'
        PROVE  ClosedOnlyIfTaken'
    BY <1>1 DEF ClosedOnlyIfTaken
  <1>2. ASSUME NEW m \in Mods, NEW h \in Methods, ExecuteInGameThread(m, h) PROVE ClosedOnlyIfTaken'
    <2>1. PICK new \in Nat :
             /\ UNCHANGED <<open, finished, dropped, escaped>>
             /\ DOMAIN action' = DOMAIN action \cup {new} /\ action'[new].mod = m /\ m \in open
             /\ \A a \in DOMAIN action : action'[a] = action[a]
      BY <1>2, QueueMoves, ZenonT(60)
    <2> QED BY <2>1 DEF ClosedOnlyIfTaken
  <1>3. ASSUME NEW m \in Mods, Uninstall(m) PROVE ClosedOnlyIfTaken'
    <2>1. PICK keep : keep = DOMAIN action \ ActionsOf(m)
      OBVIOUS
    <2>2. /\ UNCHANGED <<action, finished>>
          /\ dropped' = dropped \cup {a \in ActionsOf(m) : \E h \in Methods : a \in Queued(h)}
          /\ escaped' = escaped \cup (ActionsOf(m) \cap OnStack)
          /\ open' = open \ {m}
      BY <1>3, <2>1, UninstallMoves
    <2>3. ASSUME NEW a \in DOMAIN action, a \notin finished' \cup dropped' \cup escaped'
          PROVE  action[a].mod \in open'
      <3>1. a \notin finished \cup dropped \cup escaped
        BY <2>2, <2>3
      <3>2. action[a].mod \in open
        BY <3>1 DEF ClosedOnlyIfTaken
      <3>3. ASSUME action[a].mod = m PROVE FALSE
        <4>1. a \in ActionsOf(m)
          BY <3>3 DEF ActionsOf
        <4>2. \A h \in Methods : a \notin Queued(h)
          BY <2>2, <2>3, <4>1
        <4>3. PICK k \in Nat : a \in Held(k)
          BY <3>1, <4>2 DEF Single, Somewhere
        <4>4. a \in OnStack
          BY <4>3 DEF Held, Hand, OnStack
        <4> QED BY <2>2, <2>3, <4>1, <4>4
      <3> QED BY <2>2, <3>2, <3>3
    <2> QED BY <2>2, <2>3 DEF ClosedOnlyIfTaken
  <1>4. CASE TakeActions
    <2>1. Top.hook \in Methods
      BY <1>4, AtTop DEF TakeActions
    <2> QED BY <1>1, <1>4, <2>1, TakeMoves
  <1>5. CASE BeginAction
    BY <1>1, <1>5, DeferMoves
  <1>6. CASE EndAction
    <2>1. UNCHANGED <<open, action, dropped, escaped>> /\ finished \subseteq finished'
      BY <1>6, FinishMoves
    <2> QED BY <1>1, <2>1
  <1>7. CASE EndActions
    <2>1. Top.hook \in Methods
      BY <1>7, AtTop DEF EndActions
    <2> QED BY <1>1, <1>7, <2>1, ReturnMoves
  <1>8. CASE EndPass
    <2>1. Top.hook \in Methods
      BY <1>8, AtTop DEF EndPass
    <2> QED BY <1>1, <1>8, <2>1, PassMoves
  <1>9. CASE Quiet
    BY <1>1, <1>9, QuietHands
  <1> QED BY <1>2, <1>3, <1>4, <1>5, <1>6, <1>7, <1>8, <1>9 DEF Next, Pass, Quiet

\* An action whose Lua state was closed still waits to run only if a pass had
\* taken it out of the vectors when its mod was uninstalled.
THEOREM ClosedOnlyTaken == Spec => []ClosedOnlyIfTaken
  <1>1. Init => ClosedOnlyIfTaken
    BY EmptyElements DEF Init, ClosedOnlyIfTaken
  <1>2. Types /\ Single /\ ClosedOnlyIfTaken /\ [Next]_vars => ClosedOnlyIfTaken'
    <2> SUFFICES ASSUME Types, Single, ClosedOnlyIfTaken, [Next]_vars PROVE ClosedOnlyIfTaken'
      OBVIOUS
    <2>1. CASE UNCHANGED vars
      BY <2>1 DEF ClosedOnlyIfTaken, vars, actionVars, history
    <2> QED BY <2>1, ClosedStep
  <1> QED BY <1>1, <1>2, AlwaysSingle, PTL DEF Spec-----------------------------------------------------------------------------
(* The order of the actions of a method.                                     *)

\* a must have run or be dropped when b has run.
Before(a, b) ==
    /\ a \in DOMAIN action /\ b \in DOMAIN action
    /\ a < b /\ action[a].method = action[b].method
    /\ a \notin deferred /\ b \notin deferred /\ (a \in late => b \in late)

Order == {p \in (DOMAIN action) \X (DOMAIN action) : Before(p[1], p[2])}

Ranked(f) == f.at = "simple" => InOrder(f.items, Order) /\ ToSet(f.deferred) \subseteq deferred

\* A frame that runs an action, simple or delayed.
Acting(f) == f.busy /\ f.at \in {"simple", "delayed"}
Acts(k) == k \in DOMAIN frames /\ Acting(frames[k])

OneActs ==
    /\ \A k, l \in Nat : Acts(k) /\ Acts(l) => k = l
    /\ \A k \in Nat : Acts(k) => executing

AllRanked == \A k \in DOMAIN frames : Ranked(frames[k])

VectorsOrdered ==
    \A h \in Methods :
        /\ InOrder(ready[h], Order) /\ InOrder(waiting[h], Order)
        /\ \A a \in ToSet(waiting[h]) : a \in late /\ \A b \in ToSet(ready[h]) : ~Before(a, b)

\* Nothing that still waits in a vector is before what a pass has taken, and
\* nothing that a nested pass has taken is before what a pass below it has.
HandsOrdered ==
    /\ \A k \in Nat, h \in Methods : \A a \in Queued(h), b \in Held(k) : ~Before(a, b)
    /\ \A k, l \in Nat : k < l => \A a \in Held(l), b \in Held(k) : ~Before(a, b)

DoneOrdered == \A a \in DOMAIN action, b \in finished : Before(a, b) => a \in finished \cup dropped

Ordered == OneActs /\ AllRanked /\ VectorsOrdered /\ HandsOrdered /\ DoneOrdered

\* No step puts two actions that exist in an order they were not in.
Fades ==
    /\ \A a, b \in DOMAIN action : Before(a, b)' => Before(a, b)
    /\ deferred \subseteq deferred'

LEMMA OrderFades ==
  ASSUME Types, Next
  PROVE  Fades
  <1>1. Grows /\ late \subseteq DOMAIN action
    BY StepsGrow DEF Types, ActionsOK
  <1>2. ASSUME deferred \subseteq deferred', \A a \in DOMAIN action : a \in late' <=> a \in late
        PROVE  Fades
    BY <1>1, <1>2 DEF Fades, Before, Grows
  <1>3. ASSUME NEW m \in Mods, NEW h \in Methods, ExecuteInGameThread(m, h) PROVE Fades
    <2>1. PICK new \in Nat :
             /\ deferred' = deferred
             /\ new \notin DOMAIN action /\ (late' = late \/ late' = late \cup {new})
      BY <1>3, QueueMoves, ZenonT(60)
    <2> QED BY <1>2, <2>1
  <1>4. CASE Quiet
    BY <1>2, <1>4, QuietHands
  <1>5. CASE TakeActions \/ EndActions \/ EndPass \/ EndAction \/ \E m \in Mods : Uninstall(m)
    <2>1. UNCHANGED <<deferred, late>>
      BY <1>5 DEF TakeActions, EndActions, EndPass, EndAction, Uninstall, history
    <2> QED BY <1>2, <2>1
  <1>6. CASE BeginAction
    BY <1>2, <1>6 DEF BeginAction
  <1> QED BY <1>3, <1>4, <1>5, <1>6 DEF Next, Pass, Quiet

LEMMA StaysInOrder ==
  ASSUME Fades, NEW s, ToSet(s) \subseteq DOMAIN action, InOrder(s, Order)
  PROVE  InOrder(s, Order')
  <1>1. PICK less : less = Order'
    OBVIOUS
  <1>2. \A a, b \in ToSet(s) : <<a, b>> \in less => <<a, b>> \in Order
    <2> SUFFICES ASSUME NEW a \in ToSet(s), NEW b \in ToSet(s), <<a, b>> \in Order'
                 PROVE  <<a, b>> \in Order
      BY <1>1
    <2>1. Before(a, b)'
      BY DEF Order
    <2>2. Before(a, b)
      BY <2>1 DEF Fades
    <2> QED BY <2>2 DEF Order
  <1>3. InOrder(s, less)
    BY <1>2, OrderShrinks
  <1> QED BY <1>1, <1>3

LEMMA RankedStays ==
  ASSUME Fades, NEW f, FrameOK(f), Ranked(f)
  PROVE  Ranked(f)'
  <1>1. CASE f.at = "simple"
    <2>1. ToSet(f.items) \subseteq DOMAIN action /\ InOrder(f.items, Order)
      BY <1>1 DEF FrameOK, Ranked
    <2>2. InOrder(f.items, Order')
      BY <2>1, StaysInOrder
    <2> QED BY <1>1, <2>2 DEF Ranked, Fades
  <1>2. CASE f.at # "simple"
    BY <1>2 DEF Ranked
  <1> QED BY <1>1, <1>2

LEMMA TopRanked ==
  ASSUME Types, Grows, Fades, frames # <<>>, NEW f \in FrameRecord, FrameOK(f)', SetTop(f)
  PROVE  /\ Acts(Len(frames)) <=> Acting(Top)
         /\ \A k \in Nat : Acts(k)' => IF k = Len(frames) THEN Acting(f) ELSE Acts(k)
         /\ AllRanked /\ Ranked(f)' => AllRanked'
  <1> DEFINE n == Len(frames)
  <1>1. FramesOK
    BY DEF Types
  <1>2. n \in Nat /\ n \in DOMAIN frames /\ Top = frames[n]
    BY <1>1, TopIsFrame
  <1>3. /\ DOMAIN frames' = DOMAIN frames /\ frames'[n] = f
        /\ \A k \in DOMAIN frames : k # n => frames'[k] = frames[k]
    BY <1>1, TopChanged
  <1> HIDE DEF n
  <1>4. \A k \in Nat : Acts(k)' => IF k = n THEN Acting(f) ELSE Acts(k)
    BY <1>2, <1>3 DEF Acts
  <1>5. ASSUME AllRanked, Ranked(f)' PROVE AllRanked'
    <2> SUFFICES ASSUME NEW k \in DOMAIN frames PROVE Ranked(frames[k])'
      BY <1>3 DEF AllRanked
    <2>1. PICK g : g = frames'[k]
      OBVIOUS
    <2>2. CASE k = n
      <3>1. g = f
        BY <1>3, <2>1, <2>2
      <3>2. Ranked(g)'
        BY <1>5, <3>1
      <3> QED BY <2>1, <3>2
    <2>3. CASE k # n
      <3>1. g = frames[k]
        BY <1>3, <2>1, <2>3
      <3>2. Ranked(g)'
        BY <1>1, <1>5, <3>1, RankedStays DEF FramesOK, AllRanked
      <3> QED BY <2>1, <3>2
    <2> QED BY <2>2, <2>3
  <1>6. Acts(n) <=> Acting(Top)
    BY <1>2 DEF Acts
  <1> QED BY <1>4, <1>5, <1>6 DEF n

LEMMA PushRanked ==
  ASSUME Types, Grows, Fades, GameIsFree, NEW f \in FrameRecord, FrameOK(f)', Push(f),
         f.at # "simple", ~f.busy
  PROVE  /\ \A k \in Nat : Acts(k)' => Acts(k)
         /\ AllRanked => AllRanked'
  <1> DEFINE n == Len(frames)
  <1>1. FramesOK
    BY DEF Types
  <1>2. /\ n \in Nat /\ DOMAIN frames = 1 .. n /\ DOMAIN frames' = 1 .. n + 1 /\ frames'[n + 1] = f
        /\ \A k \in DOMAIN frames : frames'[k] = frames[k]
    BY <1>1, TopPushed
  <1> HIDE DEF n
  <1>3. \A k \in Nat : k \in DOMAIN frames' <=> k \in DOMAIN frames \/ k = n + 1
    BY <1>2
  <1>4. \A k \in Nat : Acts(k)' => Acts(k)
    BY <1>2, <1>3 DEF Acts, Acting
  <1>5. ASSUME AllRanked PROVE AllRanked'
    <2> SUFFICES ASSUME NEW k \in DOMAIN frames' PROVE Ranked(frames[k])'
      BY DEF AllRanked
    <2>1. PICK g : g = frames'[k]
      OBVIOUS
    <2>2. k \in Nat
      BY <1>2
    <2>3. CASE k = n + 1
      <3>1. Ranked(g)'
        BY <1>2, <2>1, <2>3 DEF Ranked
      <3> QED BY <2>1, <3>1
    <2>4. CASE k # n + 1
      <3>1. k \in DOMAIN frames /\ g = frames[k]
        BY <1>2, <1>3, <2>1, <2>2, <2>4
      <3>2. Ranked(g)'
        BY <1>1, <1>5, <3>1, RankedStays DEF FramesOK, AllRanked
      <3> QED BY <2>1, <3>2
    <2> QED BY <2>3, <2>4
  <1> QED BY <1>4, <1>5

LEMMA PopRanked ==
  ASSUME Types, Grows, Fades, frames # <<>>, Pop
  PROVE  /\ \A k \in Nat : Acts(k)' => Acts(k)
         /\ AllRanked => AllRanked'
  <1>1. FramesOK
    BY DEF Types
  <1>2. \A k \in DOMAIN frames' : k \in DOMAIN frames /\ frames'[k] = frames[k]
    BY <1>1, TopPopped
  <1>3. \A k \in Nat : Acts(k)' => Acts(k)
    BY <1>2 DEF Acts
  <1>4. ASSUME AllRanked PROVE AllRanked'
    <2> SUFFICES ASSUME NEW k \in DOMAIN frames' PROVE Ranked(frames[k])'
      BY DEF AllRanked
    <2>1. PICK g : g = frames'[k]
      OBVIOUS
    <2>2. k \in DOMAIN frames /\ g = frames[k]
      BY <1>2, <2>1
    <2>3. Ranked(g)'
      BY <1>1, <1>4, <2>2, RankedStays DEF FramesOK, AllRanked
    <2> QED BY <2>1, <2>3
  <1> QED BY <1>3, <1>4

LEMMA SameRanked ==
  ASSUME Types, Grows, Fades, UNCHANGED frames
  PROVE  /\ \A k \in Nat : Acts(k)' => Acts(k)
         /\ AllRanked => AllRanked'
  <1>1. \A k \in Nat : Acts(k)' => Acts(k)
    BY DEF Acts
  <1>2. ASSUME AllRanked PROVE AllRanked'
    <2> SUFFICES ASSUME NEW k \in DOMAIN frames PROVE Ranked(frames[k])'
      BY DEF AllRanked
    <2>1. PICK g : g = frames'[k]
      OBVIOUS
    <2>2. Ranked(g)'
      BY <1>2, <2>1, RankedStays DEF Types, FramesOK, AllRanked
    <2> QED BY <2>1, <2>2
  <1> QED BY <1>1, <1>2
\* One action runs at a time: the flag is set when one begins, and cleared only
\* by the pass that set it.
LEMMA OneActsStep ==
  ASSUME Types, Next, OneActs
  PROVE  OneActs'
  <1>1. Grows /\ Fades
    BY StepsGrow, OrderFades
  <1>2. ASSUME \A k \in Nat : Acts(k)' => Acts(k), executing' = executing
        PROVE  OneActs'
    BY <1>2 DEF OneActs
  <1>3. ASSUME NEW f \in FrameRecord, SetTop(f), FrameOK(f)', frames # <<>>, ~Acting(f),
               executing' = executing
        PROVE  OneActs'
    <2>1. \A k \in Nat : Acts(k)' => Acts(k)
      BY <1>1, <1>3, TopRanked
    <2> QED BY <1>2, <1>3, <2>1
  <1>4. ASSUME NEW f \in FrameRecord, SetTop(f), FrameOK(f)', frames # <<>>, ~executing, executing'
        PROVE  OneActs'
    <2>1. \A k \in Nat : ~Acts(k)
      BY <1>4 DEF OneActs
    <2>2. PICK n : n = Len(frames)
      OBVIOUS
    <2>3. \A k \in Nat : Acts(k)' => k = n
      BY <1>1, <1>4, <2>1, <2>2, TopRanked
    <2> QED BY <1>4, <2>3 DEF OneActs
  <1>5. ASSUME NEW f \in FrameRecord, SetTop(f), FrameOK(f)', frames # <<>>, ~Acting(f), Acting(Top)
        PROVE  OneActs'
    <2>1. Len(frames) \in Nat
      BY <1>5, TopIsFrame DEF Types
    <2>2. PICK n \in Nat : n = Len(frames)
      BY <2>1
    <2>3. Acts(n)
      BY <1>1, <1>5, <2>2, TopRanked
    <2>4. \A k \in Nat : Acts(k)' => Acts(k) /\ k # n
      BY <1>1, <1>5, <2>2, TopRanked
    <2>5. \A k \in Nat : ~Acts(k)'
      BY <2>3, <2>4 DEF OneActs
    <2> QED BY <2>5 DEF OneActs
  <1>6. CASE \/ \E m \in Mods, h \in Methods : ExecuteInGameThread(m, h)
             \/ \E m \in Mods : NotifyOnNewObject(m) \/ Uninstall(m)
             \/ ConstructElsewhere \/ QueueNotifications
             \/ ConstructUnheard \/ AllocateSerial \/ Destroy
    <2>1. UNCHANGED <<frames, executing>>
      BY <1>6 DEF ExecuteInGameThread, NotifyOnNewObject, Uninstall, ConstructElsewhere,
                  QueueNotifications, ConstructUnheard, AllocateSerial, Destroy
    <2> QED BY <1>1, <1>2, <2>1, SameRanked
  <1>7. ASSUME NEW h \in Methods, BeginPass(h) PROVE OneActs'
    <2>1. PICK f \in FrameRecord : Push(f) /\ FrameOK(f)' /\ GameIsFree /\ f.at = "take" /\ ~f.busy
      BY <1>7, PassPushed
    <2>2. f.at # "simple" /\ executing' = executing
      BY <1>7, <2>1 DEF BeginPass
    <2> QED BY <1>1, <1>2, <2>1, <2>2, PushRanked
  <1>8. CASE Construct
    <2>1. PICK f \in FrameRecord :
             Push(f) /\ FrameOK(f)' /\ GameIsFree /\ f.at = "construct" /\ ~f.busy
      BY <1>8, ConstructionPushed
    <2>2. f.at # "simple" /\ executing' = executing
      BY <1>8, <2>1 DEF Construct
    <2> QED BY <1>1, <1>2, <2>1, <2>2, PushRanked
  <1>9. CASE EndPass \/ ListenerThrows \/ EndConstruct
    <2>1. frames # <<>> /\ Pop /\ executing' = executing
      BY <1>9 DEF EndPass, ListenerThrows, EndConstruct, At
    <2> QED BY <1>1, <1>2, <2>1, PopRanked
  <1>10. CASE TakeActions
    <2>1. PICK f \in FrameRecord : SetTop(f) /\ FrameOK(f)' /\ frames # <<>> /\ ~f.busy
      BY <1>10, TakeTop
    <2>2. ~Acting(f) /\ executing' = executing
      BY <1>10, <2>1 DEF TakeActions, Acting
    <2> QED BY <1>3, <2>1, <2>2
  <1>11. CASE BeginAction
    <2>1. PICK f \in FrameRecord :
             /\ SetTop(f) /\ FrameOK(f)' /\ frames # <<>>
             /\ IF executing THEN ~f.busy /\ executing' = executing ELSE executing' = TRUE
      BY <1>11, BeginActionTop
    <2>2. CASE executing
      <3>1. ~Acting(f)
        BY <2>1, <2>2 DEF Acting
      <3> QED BY <1>3, <2>1, <2>2, <3>1
    <2>3. CASE ~executing
      BY <1>4, <2>1, <2>3
    <2> QED BY <2>2, <2>3
  <1>12. CASE EndAction
    <2>1. PICK f \in FrameRecord : SetTop(f) /\ FrameOK(f)' /\ frames # <<>> /\ ~f.busy
      BY <1>12, EndActionTop
    <2>2. ~Acting(f) /\ Acting(Top)
      BY <1>12, <2>1 DEF EndAction, Acting, At
    <2> QED BY <1>5, <2>1, <2>2
  <1>13. CASE BeginDelayed
    <2>1. PICK f \in FrameRecord : SetTop(f) /\ FrameOK(f)' /\ frames # <<>>
      BY <1>13, BeginDelayedTop
    <2>2. ~executing /\ executing'
      BY <1>13 DEF BeginDelayed
    <2> QED BY <1>4, <2>1, <2>2
  <1>14. CASE EndActions \/ EndDelayed \/ EndNotifications
    <2>1. PICK f \in FrameRecord : SetTop(f) /\ FrameOK(f)' /\ frames # <<>> /\ ~f.busy
      BY <1>14, StageEnds
    <2>2. ~Acting(f)
      BY <2>1 DEF Acting
    <2>3. CASE EndActions \/ EndNotifications
      <3>1. executing' = executing
        BY <2>3 DEF EndActions, EndNotifications
      <3> QED BY <1>3, <2>1, <2>2, <3>1
    <2>4. CASE EndDelayed /\ Top.busy
      <3>1. Acting(Top)
        BY <2>4 DEF EndDelayed, Acting, At
      <3> QED BY <1>5, <2>1, <2>2, <3>1
    <2>5. CASE EndDelayed /\ ~Top.busy
      <3>1. executing \in BOOLEAN /\ executing' = (executing /\ ~Top.busy)
        BY <2>5 DEF EndDelayed, Types, FlagsOK
      <3>2. executing' = executing
        BY <2>5, <3>1, Zenon
      <3> QED BY <1>3, <2>1, <2>2, <3>2
    <2> QED BY <1>14, <2>3, <2>4, <2>5
  <1>15. CASE CollectNotifications
    <2>1. PICK f \in FrameRecord : SetTop(f) /\ FrameOK(f)' /\ frames # <<>> /\ ~f.busy
      BY <1>15, CollectTop
    <2>2. ~Acting(f) /\ executing' = executing
      BY <1>15, <2>1 DEF CollectNotifications, Acting
    <2> QED BY <1>3, <2>1, <2>2
  <1>16. CASE \/ BeginNotification \/ BeginListener
              \/ \E c \in BOOLEAN : EndNotification(c) \/ EndListener(c)
    <2>1. PICK f \in FrameRecord :
             SetTop(f) /\ FrameOK(f)' /\ frames # <<>> /\ f.at \in {"notify", "construct"}
      BY <1>16, ListenerTop
    <2>2. ~Acting(f)
      BY <2>1 DEF Acting
    <2>3. executing' = executing
      BY <1>16 DEF BeginNotification, BeginListener, EndNotification, EndListener
    <2> QED BY <1>3, <2>1, <2>2, <2>3
  <1> QED BY <1>6, <1>7, <1>8, <1>9, <1>10, <1>11, <1>12, <1>13, <1>14, <1>15, <1>16
          DEF Next, Pass, Construction

\* The vectors that passes have taken keep their order, and what they put aside
\* is known to be deferred.
LEMMA RankedStep ==
  ASSUME Types, Next, AllRanked, VectorsOrdered
  PROVE  AllRanked'
  <1>1. Grows /\ Fades
    BY StepsGrow, OrderFades
  <1>2. ASSUME NEW f \in FrameRecord, SetTop(f), FrameOK(f)', frames # <<>>, f.at # "simple"
        PROVE  AllRanked'
    <2>1. Ranked(f)'
      BY <1>2 DEF Ranked
    <2> QED BY <1>1, <1>2, <2>1, TopRanked
  <1>3. ASSUME NEW f \in FrameRecord, SetTop(f), FrameOK(f)', frames # <<>>,
               ToSet(f.items) \subseteq DOMAIN action, InOrder(f.items, Order),
               ToSet(f.deferred) \subseteq deferred'
        PROVE  AllRanked'
    <2>1. InOrder(f.items, Order')
      BY <1>1, <1>3, StaysInOrder
    <2>2. Ranked(f)'
      BY <1>3, <2>1 DEF Ranked
    <2> QED BY <1>1, <1>3, <2>2, TopRanked
  <1>4. CASE \/ \E m \in Mods, h \in Methods : ExecuteInGameThread(m, h)
             \/ \E m \in Mods : NotifyOnNewObject(m) \/ Uninstall(m)
             \/ ConstructElsewhere \/ QueueNotifications
             \/ ConstructUnheard \/ AllocateSerial \/ Destroy
    <2>1. UNCHANGED frames
      BY <1>4 DEF ExecuteInGameThread, NotifyOnNewObject, Uninstall, ConstructElsewhere,
                  QueueNotifications, ConstructUnheard, AllocateSerial, Destroy
    <2> QED BY <1>1, <2>1, SameRanked
  <1>5. ASSUME NEW h \in Methods, BeginPass(h) PROVE AllRanked'
    <2>1. PICK f \in FrameRecord : Push(f) /\ FrameOK(f)' /\ GameIsFree /\ f.at = "take" /\ ~f.busy
      BY <1>5, PassPushed
    <2> QED BY <1>1, <2>1, PushRanked
  <1>6. CASE Construct
    <2>1. PICK f \in FrameRecord :
             Push(f) /\ FrameOK(f)' /\ GameIsFree /\ f.at = "construct" /\ ~f.busy
      BY <1>6, ConstructionPushed
    <2> QED BY <1>1, <2>1, PushRanked
  <1>7. CASE EndPass \/ ListenerThrows \/ EndConstruct
    <2>1. frames # <<>> /\ Pop
      BY <1>7 DEF EndPass, ListenerThrows, EndConstruct, At
    <2> QED BY <1>1, <2>1, PopRanked
  <1>8. CASE TakeActions
    <2>1. PICK f \in FrameRecord :
             /\ SetTop(f) /\ FrameOK(f)' /\ frames # <<>> /\ f.deferred = <<>>
             /\ f.at # "simple" \/ f.items = ready[Top.hook]
      BY <1>8, TakeTop
    <2>2. CASE f.at # "simple"
      BY <1>2, <2>1, <2>2
    <2>3. CASE f.items = ready[Top.hook]
      <3>1. Top.hook \in Methods
        BY <1>8, AtTop DEF TakeActions
      <3>2. ToSet(f.items) \subseteq DOMAIN action /\ InOrder(f.items, Order)
        BY <2>3, <3>1, MethodVector DEF VectorsOrdered
      <3> QED BY <1>3, <2>1, <3>2, EmptyElements
    <2> QED BY <2>1, <2>2, <2>3
  <1>9. CASE BeginAction
    <2>1. At("simple") /\ Top.items # <<>>
      BY <1>9 DEF BeginAction
    <2>2. /\ Top.items \in Seq(Item) /\ Top.deferred \in Seq(Nat) /\ Head(Top.items) \in Nat
          /\ ToSet(Top.items) \subseteq DOMAIN action
      BY <2>1, AtTop, FirstAction DEF FrameOK
    <2>3. Ranked(Top) /\ Top.at = "simple"
      BY <2>1, AtTop, TopIsFrame DEF AllRanked, Types
    <2>4. InOrder(Top.items, Order) /\ ToSet(Top.deferred) \subseteq deferred
      BY <2>3 DEF Ranked
    <2>5. /\ ToSet(Tail(Top.items)) \subseteq DOMAIN action /\ InOrder(Tail(Top.items), Order)
          /\ ToSet(Append(Top.deferred, Head(Top.items))) = ToSet(Top.deferred) \cup {Head(Top.items)}
      <3>1. ToSet(Tail(Top.items)) \subseteq DOMAIN action /\ InOrder(Tail(Top.items), Order)
        BY <2>1, <2>2, <2>4, TailElements
      <3>2. ToSet(Append(Top.deferred, Head(Top.items))) = ToSet(Top.deferred) \cup {Head(Top.items)}
        BY <2>2, Appended
      <3> QED BY <3>1, <3>2
    <2>6. PICK f \in FrameRecord :
             /\ SetTop(f) /\ FrameOK(f)' /\ frames # <<>>
             /\ \/ /\ f.items = Tail(Top.items) /\ f.deferred = Append(Top.deferred, Head(Top.items))
                   /\ deferred' = deferred \cup {Head(Top.items)}
                \/ f.items = Top.items /\ f.deferred = Top.deferred /\ deferred' = deferred
      BY <1>9, BeginActionTop
    <2>7. /\ ToSet(f.items) \subseteq DOMAIN action /\ InOrder(f.items, Order)
          /\ ToSet(f.deferred) \subseteq deferred'
      BY <2>2, <2>4, <2>5, <2>6
    <2> QED BY <1>3, <2>6, <2>7
  <1>10. CASE EndAction
    <2>1. At("simple")
      BY <1>10 DEF EndAction
    <2>2. /\ Top.items \in Seq(Item) /\ ToSet(Top.items) \subseteq DOMAIN action
      BY <2>1, AtTop DEF FrameOK
    <2>3. PICK f \in FrameRecord :
             /\ SetTop(f) /\ FrameOK(f)' /\ frames # <<>> /\ Top.items # <<>>
             /\ f.items = Tail(Top.items) /\ f.deferred = Top.deferred
      BY <1>10, EndActionTop
    <2>4. Ranked(Top) /\ Top.at = "simple"
      BY <2>1, AtTop, TopIsFrame DEF AllRanked, Types
    <2>5. InOrder(Top.items, Order) /\ ToSet(Top.deferred) \subseteq deferred
      BY <2>4 DEF Ranked
    <2>6. ToSet(Tail(Top.items)) \subseteq DOMAIN action /\ InOrder(Tail(Top.items), Order)
      BY <2>2, <2>3, <2>5, TailElements
    <2>7. deferred' = deferred
      BY <1>10 DEF EndAction
    <2> QED BY <1>3, <2>3, <2>5, <2>6, <2>7
  <1>11. CASE BeginDelayed
    <2>1. PICK f \in FrameRecord : SetTop(f) /\ FrameOK(f)' /\ frames # <<>> /\ f.at = "delayed"
      BY <1>11, BeginDelayedTop
    <2> QED BY <1>2, <2>1
  <1>12. CASE EndActions \/ EndDelayed \/ EndNotifications
    <2>1. PICK f \in FrameRecord :
             SetTop(f) /\ FrameOK(f)' /\ frames # <<>> /\ f.at \in {"delayed", "collect", "finish"}
      BY <1>12, StageEnds
    <2> QED BY <1>2, <2>1
  <1>13. CASE CollectNotifications
    <2>1. PICK f \in FrameRecord :
             SetTop(f) /\ FrameOK(f)' /\ frames # <<>> /\ f.at \in {"notify", "finish"}
      BY <1>13, CollectTop
    <2> QED BY <1>2, <2>1
  <1>14. CASE \/ BeginNotification \/ BeginListener
              \/ \E c \in BOOLEAN : EndNotification(c) \/ EndListener(c)
    <2>1. PICK f \in FrameRecord :
             SetTop(f) /\ FrameOK(f)' /\ frames # <<>> /\ f.at \in {"notify", "construct"}
      BY <1>14, ListenerTop
    <2> QED BY <1>2, <2>1
  <1> QED BY <1>4, <1>5, <1>6, <1>7, <1>8, <1>9, <1>10, <1>11, <1>12, <1>13, <1>14
          DEF Next, Pass, Construction

LEMMA AboveTop ==
  ASSUME Types, frames # <<>>
  PROVE  \A l \in Nat : l > Len(frames) => Held(l) = {}
  <1>1. Len(frames) \in Nat /\ DOMAIN frames = 1 .. Len(frames)
    BY TopIsFrame DEF Types
  <1> QED BY <1>1 DEF Held

\* A frame below the top that has actions in hand runs one of them.
LEMMA BelowActs ==
  ASSUME Types, NEW k \in Nat, NEW a \in Held(k), k < Len(frames)
  PROVE  Acts(k)
  <1>1. k \in DOMAIN frames /\ frames[k].at = "simple"
    BY DEF Held, Hand
  <1>2. frames[k].busy
    BY <1>1 DEF Types, FramesOK
  <1> QED BY <1>1, <1>2 DEF Acts, Acting

LEMMA OrderedStep ==
  ASSUME Types, Single, Next, Ordered
  PROVE  VectorsOrdered' /\ HandsOrdered' /\ DoneOrdered'
  <1>1. Grows /\ Fades
    BY StepsGrow, OrderFades
  <1>2. /\ OneActs /\ AllRanked /\ VectorsOrdered /\ HandsOrdered /\ DoneOrdered
        /\ NoRepeats /\ OfTheMethod /\ Apart /\ Somewhere
    BY DEF Ordered, Single
  <1>3. /\ \A h \in Methods : Queued(h) \subseteq DOMAIN action
        /\ \A k \in Nat : Held(k) \subseteq DOMAIN action
        /\ finished \cup dropped \subseteq DOMAIN action /\ late \subseteq DOMAIN action
    BY OnlyKnown DEF Types, ActionsOK
  <1>4. \A h \in Methods :
           /\ ready[h] \in Seq(Nat) /\ waiting[h] \in Seq(Nat)
           /\ ToSet(ready[h]) \subseteq DOMAIN action /\ ToSet(waiting[h]) \subseteq DOMAIN action
           /\ Queued(h) = ToSet(ready[h]) \cup ToSet(waiting[h])
    BY MethodVector DEF Queued
  <1>5. ASSUME action' = action, NEW a, NEW b, Before(a, b)' PROVE Before(a, b)
    <2>1. a \in DOMAIN action /\ b \in DOMAIN action
      BY <1>5 DEF Before
    <2> QED BY <1>1, <1>5, <2>1 DEF Fades
  <1>6. \A h \in Methods : InOrder(ready[h], Order') /\ InOrder(waiting[h], Order')
    BY <1>1, <1>2, <1>4, StaysInOrder DEF VectorsOrdered
  <1>7. ASSUME UNCHANGED <<action, late, finished>>, dropped \subseteq dropped',
               \A h \in Methods :
                  /\ ToSet(ready'[h]) \subseteq ToSet(ready[h])
                  /\ ToSet(waiting'[h]) \subseteq ToSet(waiting[h])
                  /\ InOrder(ready'[h], Order') /\ InOrder(waiting'[h], Order'),
               \A k \in Nat : Held(k)' = Held(k)
        PROVE  VectorsOrdered' /\ HandsOrdered' /\ DoneOrdered'
    <2>1. VectorsOrdered'
      BY <1>2, <1>5, <1>7 DEF VectorsOrdered
    <2>2. \A h \in Methods : Queued(h)' \subseteq Queued(h)
      BY <1>7 DEF Queued
    <2>3. HandsOrdered'
      BY <1>2, <1>5, <1>7, <2>2 DEF HandsOrdered
    <2>4. DoneOrdered'
      BY <1>2, <1>5, <1>7 DEF DoneOrdered
    <2> QED BY <2>1, <2>3, <2>4
  <1>8. ASSUME NEW m \in Mods, NEW h \in Methods, ExecuteInGameThread(m, h)
        PROVE  VectorsOrdered' /\ HandsOrdered' /\ DoneOrdered'
    <2>1. PICK new \in Nat :
             /\ UNCHANGED <<open, finished, dropped, deferred, escaped, executing>>
             /\ new \notin DOMAIN action /\ DOMAIN action' = DOMAIN action \cup {new}
             /\ action'[new].method = h /\ action'[new].mod = m /\ m \in open
             /\ \A a \in DOMAIN action : a < new /\ a \in Nat /\ action'[a] = action[a]
             /\ \/ /\ \A g \in Methods : ready'[g] = IF g = h THEN Append(ready[g], new) ELSE ready[g]
                   /\ waiting' = waiting /\ late' = late
                \/ /\ \A g \in Methods : waiting'[g] = IF g = h THEN Append(waiting[g], new) ELSE waiting[g]
                   /\ ready' = ready /\ late' = late \cup {new}
             /\ \A k \in Nat : Held(k)' = Held(k)
             /\ NoRepeats => (\A k \in DOMAIN frames : Proper(frames[k]))'
      BY <1>8, QueueMoves, ZenonT(60)
    <2>2. \A x : ~Before(new, x)'
      <3> SUFFICES ASSUME NEW x, Before(new, x)' PROVE FALSE
        OBVIOUS
      <3>1. x \in DOMAIN action' /\ new < x
        BY DEF Before
      <3> QED BY <2>1, <3>1
    <2>3. \A a \in DOMAIN action : Before(a, new)' => (a \in late' => new \in late')
      BY DEF Before
    <2>4. \A a, b \in DOMAIN action : Before(a, b)' => Before(a, b)
      BY <1>1 DEF Fades
    <2>5. \A g \in Methods :
             /\ ToSet(Append(ready[g], new)) = ToSet(ready[g]) \cup {new}
             /\ ToSet(Append(waiting[g], new)) = ToSet(waiting[g]) \cup {new}
      <3> TAKE g \in Methods
      <3>1. ready[g] \in Seq(Nat) /\ waiting[g] \in Seq(Nat)
        BY <1>4
      <3> QED BY <3>1, Appended
    <2>6. \A g \in Methods : InOrder(Append(ready[g], new), Order') /\ InOrder(Append(waiting[g], new), Order')
      <3>1. PICK less : less = Order'
        OBVIOUS
      <3>2. \A x : <<new, x>> \notin less
        BY <2>2, <3>1 DEF Order
      <3>3. ASSUME NEW g \in Methods
            PROVE  InOrder(Append(ready[g], new), less) /\ InOrder(Append(waiting[g], new), less)
        <4>1. InOrder(ready[g], less) /\ InOrder(waiting[g], less)
          BY <1>6, <3>1
        <4> QED BY <1>4, <2>1, <3>2, <4>1, Appended
      <3> QED BY <3>1, <3>3
    <2>7. VectorsOrdered'
      <3> SUFFICES ASSUME NEW g \in Methods
                   PROVE  /\ InOrder(ready'[g], Order') /\ InOrder(waiting'[g], Order')
                          /\ \A a \in ToSet(waiting'[g]) :
                                a \in late' /\ \A b \in ToSet(ready'[g]) : ~Before(a, b)'
        BY DEF VectorsOrdered
      <3>1. \A a \in ToSet(waiting[g]) : a \in late /\ \A b \in ToSet(ready[g]) : ~Before(a, b)
        BY <1>2 DEF VectorsOrdered
      <3>2. new \notin late
        BY <1>3, <2>1
      <3>3. CASE /\ ready'[g] = IF g = h THEN Append(ready[g], new) ELSE ready[g]
                 /\ waiting' = waiting /\ late' = late
        <4>1. ToSet(ready'[g]) \subseteq ToSet(ready[g]) \cup {new} /\ ToSet(waiting'[g]) = ToSet(waiting[g])
          BY <2>5, <3>3
        <4>2. InOrder(ready'[g], Order') /\ InOrder(waiting'[g], Order')
          BY <1>6, <2>6, <3>3
        <4>3. \A a \in ToSet(waiting[g]) : ~Before(a, new)'
          BY <1>4, <2>3, <3>1, <3>2, <3>3
        <4> QED BY <1>4, <2>4, <3>1, <3>3, <4>1, <4>2, <4>3
      <3>4. CASE /\ waiting'[g] = IF g = h THEN Append(waiting[g], new) ELSE waiting[g]
                 /\ ready' = ready /\ late' = late \cup {new}
        <4>1. ToSet(waiting'[g]) \subseteq ToSet(waiting[g]) \cup {new} /\ ToSet(ready'[g]) = ToSet(ready[g])
          BY <2>5, <3>4
        <4>2. InOrder(ready'[g], Order') /\ InOrder(waiting'[g], Order')
          BY <1>6, <2>6, <3>4
        <4>3. ASSUME NEW a \in ToSet(waiting'[g])
              PROVE  a \in late' /\ \A b \in ToSet(ready'[g]) : ~Before(a, b)'
          <5>1. CASE a = new
            BY <2>2, <3>4, <5>1
          <5>2. CASE a # new
            <6>1. a \in ToSet(waiting[g]) /\ a \in DOMAIN action
              BY <1>4, <4>1, <5>2
            <6>2. ToSet(ready'[g]) \subseteq DOMAIN action
              BY <1>4, <4>1
            <6> QED BY <2>4, <3>1, <3>4, <4>1, <6>1, <6>2
          <5> QED BY <5>1, <5>2
        <4> QED BY <4>2, <4>3
      <3> QED BY <2>1, <3>3, <3>4
    <2>8. \A g \in Methods : Queued(g)' \subseteq Queued(g) \cup {new}
      BY <2>1, <2>5 DEF Queued
    <2>9. HandsOrdered'
      BY <1>2, <1>3, <2>1, <2>2, <2>4, <2>8 DEF HandsOrdered
    <2>10. DoneOrdered'
      BY <1>2, <1>3, <2>1, <2>2, <2>4 DEF DoneOrdered
    <2> QED BY <2>7, <2>9, <2>10
  <1>9. ASSUME NEW m \in Mods, Uninstall(m) PROVE VectorsOrdered' /\ HandsOrdered' /\ DoneOrdered'
    <2>1. PICK keep, less : keep = DOMAIN action \ ActionsOf(m) /\ less = Order'
      OBVIOUS
    <2>2. /\ UNCHANGED <<action, finished, late>>
          /\ \A h \in Methods :
                /\ ToSet(ready'[h]) = ToSet(ready[h]) \cap keep
                /\ \A order : InOrder(ready[h], order) => InOrder(ready'[h], order)
                /\ ToSet(waiting'[h]) = ToSet(waiting[h]) \cap keep
                /\ \A order : InOrder(waiting[h], order) => InOrder(waiting'[h], order)
          /\ dropped \subseteq dropped'
          /\ \A k \in Nat : Held(k)' = Held(k)
      <3>1. keep = DOMAIN action \ ActionsOf(m)
        BY <2>1
      <3> QED BY <1>9, <3>1, UninstallMoves
    <2>3. \A h \in Methods : InOrder(ready[h], less) /\ InOrder(waiting[h], less)
      BY <1>6, <2>1
    <2>4. \A h \in Methods : InOrder(ready'[h], less) /\ InOrder(waiting'[h], less)
      BY <2>2, <2>3
    <2>5. \A h \in Methods : InOrder(ready'[h], Order') /\ InOrder(waiting'[h], Order')
      BY <2>1, <2>4
    <2> QED BY <1>7, <2>2, <2>5
  <1>10. CASE TakeActions
    <2>1. Top.hook \in Methods /\ frames # <<>>
      BY <1>10, AtTop DEF TakeActions
    <2>2. PICK hook \in Methods, n \in Nat : hook = Top.hook /\ n = Len(frames)
      BY <1>10, <2>1, TakeMoves
    <2>3. /\ UNCHANGED <<action, waiting, finished, dropped, late>>
          /\ Held(n) = {}
          /\ \A h \in Methods : ready'[h] = IF h = hook THEN <<>> ELSE ready[h]
          /\ \A k \in Nat : Held(k)' = IF k = n THEN ToSet(ready[hook]) ELSE Held(k)
      BY <1>10, <2>1, <2>2, TakeMoves
    <2>4. /\ \A h \in Methods : ToSet(ready'[h]) \subseteq ToSet(ready[h])
          /\ \A h \in Methods : h = hook => ToSet(ready'[h]) = {}
          /\ \A h \in Methods : InOrder(ready'[h], Order')
      BY <1>6, <2>3, EmptyElements
    <2>5. VectorsOrdered'
      BY <1>2, <1>5, <1>6, <2>3, <2>4 DEF VectorsOrdered
    <2>6. \A h \in Methods : Queued(h)' \subseteq Queued(h) /\ (h = hook => Queued(h)' = ToSet(waiting[h]))
      BY <2>3, <2>4 DEF Queued
    <2>7. ToSet(ready[hook]) \subseteq Queued(hook)
      BY <1>4
    <2>8. ASSUME NEW h \in Methods, NEW a \in Queued(h)', NEW b \in ToSet(ready[hook]) PROVE ~Before(a, b)
      <3>1. CASE h = hook
        BY <1>2, <2>6, <3>1 DEF VectorsOrdered
      <3>2. CASE h # hook
        <4>1. action[a].method = h /\ action[b].method = hook
          BY <1>2, <2>6, <2>7 DEF OfTheMethod
        <4> QED BY <3>2, <4>1 DEF Before
      <3> QED BY <3>1, <3>2
    <2>9. \A l \in Nat : l > n => Held(l) = {}
      BY <2>1, <2>2, AboveTop
    <2>10. ASSUME NEW k \in Nat, NEW h \in Methods, NEW a \in Queued(h)', NEW b \in Held(k)'
           PROVE  ~Before(a, b)
      BY <1>2, <2>3, <2>6, <2>8 DEF HandsOrdered
    <2>11. ASSUME NEW k \in Nat, NEW l \in Nat, k < l, NEW a \in Held(l)', NEW b \in Held(k)'
           PROVE  ~Before(a, b)
      <3>1. CASE l = n
        <4>1. k # n /\ a \in Queued(hook) /\ b \in Held(k)
          BY <2>3, <2>7, <2>11, <3>1
        <4> QED BY <1>2, <4>1 DEF HandsOrdered
      <3>2. CASE l # n
        <4>1. a \in Held(l)
          BY <2>3, <3>2
        <4>2. k # n
          BY <2>9, <2>11, <4>1
        <4> QED BY <1>2, <2>3, <2>11, <4>1, <4>2 DEF HandsOrdered
      <3> QED BY <3>1, <3>2
    <2>12. HandsOrdered'
      BY <1>5, <2>3, <2>10, <2>11 DEF HandsOrdered
    <2>13. DoneOrdered'
      BY <1>2, <1>5, <2>3 DEF DoneOrdered
    <2> QED BY <2>5, <2>12, <2>13
  <1>11. CASE BeginAction
    <2>1. /\ UNCHANGED <<action, ready, waiting, finished, dropped, late>>
          /\ \A k \in Nat : Held(k)' = Held(k)
      BY <1>11, DeferMoves
    <2> QED BY <1>6, <1>7, <2>1
  <1>12. CASE Quiet
    <2>1. /\ UNCHANGED <<action, ready, waiting, finished, dropped, late>>
          /\ \A k \in Nat : Held(k)' = Held(k)
      BY <1>12, QuietHands
    <2> QED BY <1>6, <1>7, <2>1
  <1>13. CASE EndAction
    <2>1. PICK n \in Nat, done \in DOMAIN action : n = Len(frames) /\ done = Head(Top.items)
      BY <1>13, FinishMoves, OnlyKnown
    <2>2. /\ UNCHANGED <<action, ready, waiting, dropped, late>> /\ done \in Held(n)
          /\ finished' = finished \cup {done}
          /\ \A k \in Nat : Held(k)' \subseteq Held(k)
      BY <1>2, <1>13, <2>1, FinishMoves
    <2>3. \A h \in Methods : Queued(h)' = Queued(h)
      BY <2>2 DEF Queued
    <2>4. VectorsOrdered'
      BY <1>2, <1>5, <1>6, <2>2 DEF VectorsOrdered
    <2>5. HandsOrdered'
      BY <1>2, <1>5, <2>2, <2>3 DEF HandsOrdered
    <2>6. /\ At("simple") /\ Top.busy /\ frames # <<>> /\ Top.items # <<>> /\ Top.items \in Seq(Item)
          /\ Top.at = "simple"
      BY <1>13, AtTop DEF EndAction, FrameOK
    <2>7. Ranked(Top) /\ Held(n) = Hand(Top)
      <3>1. n \in DOMAIN frames /\ Top = frames[n]
        BY <2>1, <2>6, TopIsFrame DEF Types
      <3> QED BY <1>2, <3>1 DEF AllRanked, Held
    <2>8. Acts(n)
      BY <2>1, <2>6, TopIsFrame DEF Types, Acts, Acting
    <2>9. ASSUME NEW a \in DOMAIN action, Before(a, done) PROVE a \in finished \cup dropped
      <3>1. ASSUME NEW h \in Methods, a \in Queued(h) PROVE FALSE
        BY <1>2, <2>2, <2>9, <3>1 DEF HandsOrdered
      <3>2. ASSUME NEW k \in Nat, a \in Held(k) PROVE FALSE
        <4>1. CASE k > n
          BY <2>1, <2>6, <3>2, <4>1, AboveTop
        <4>2. CASE k < n
          <5>1. Acts(k)
            BY <2>1, <3>2, <4>2, BelowActs
          <5>2. k = n
            BY <1>2, <2>8, <5>1 DEF OneActs
          <5> QED BY <4>2, <5>2
        <4>3. CASE k = n
          <5>1. a \in ToSet(Top.items) \cup ToSet(Top.deferred)
            BY <2>6, <2>7, <3>2, <4>3 DEF Hand
          <5>2. a \notin ToSet(Top.deferred)
            BY <2>6, <2>7, <2>9 DEF Ranked, Before
          <5>3. InOrder(Top.items, Order)
            BY <2>6, <2>7 DEF Ranked
          <5>4. <<a, done>> \notin Order
            BY <2>1, <2>6, <5>1, <5>2, <5>3, TailElements
          <5> QED BY <2>9, <5>4 DEF Order, Before
        <4> QED BY <4>1, <4>2, <4>3
      <3> QED BY <1>2, <3>1, <3>2 DEF Somewhere
    <2>10. DoneOrdered'
      BY <1>2, <1>5, <2>2, <2>9 DEF DoneOrdered
    <2> QED BY <2>4, <2>5, <2>10
  <1>14. CASE EndActions
    <2>1. Top.hook \in Methods /\ At("simple") /\ frames # <<>> /\ Top.at = "simple"
          /\ Top.deferred \in Seq(Nat) /\ ToSet(Top.deferred) \subseteq DOMAIN action
      BY <1>14, AtTop DEF EndActions, FrameOK
    <2>2. PICK hook \in Methods, n \in Nat, back \in Seq(Nat) :
             hook = Top.hook /\ n = Len(frames) /\ back = Top.deferred
      BY <1>14, <2>1, ReturnMoves
    <2>3. /\ UNCHANGED <<action, waiting, finished, dropped, late, deferred>>
          /\ \A h \in Methods : ready'[h] = IF h = hook THEN ready[h] \o back ELSE ready[h]
          /\ \A k \in Nat : Held(k)' = IF k = n THEN {} ELSE Held(k)
      BY <1>14, <2>1, <2>2, ReturnMoves
    <2>4. ToSet(back) \subseteq deferred /\ ToSet(back) \subseteq DOMAIN action
      <3>1. Ranked(Top)
        BY <1>2, <2>1, TopIsFrame DEF AllRanked, Types
      <3> QED BY <2>1, <2>2, <3>1 DEF Ranked
    <2>5. \A a \in ToSet(back) : \A x : ~Before(a, x)' /\ ~Before(x, a)'
      BY <2>3, <2>4 DEF Before
    <2>6. ToSet(ready[hook] \o back) = ToSet(ready[hook]) \cup ToSet(back)
      BY <1>4, <2>2, Concatenated
    <2>7. InOrder(ready[hook] \o back, Order')
      <3>1. PICK less : less = Order'
        OBVIOUS
      <3>2. \A a \in ToSet(back) : \A x : <<a, x>> \notin less
        BY <2>5, <3>1 DEF Order
      <3>3. InOrder(ready[hook], less)
        BY <1>6, <3>1
      <3>4. InOrder(back, less)
        BY <3>2 DEF InOrder, ToSet
      <3>5. InOrder(ready[hook] \o back, less)
        BY <1>4, <2>2, <3>2, <3>3, <3>4, Concatenated
      <3> QED BY <3>1, <3>5
    <2>8. VectorsOrdered'
      <3>1. \A h \in Methods : /\ ToSet(ready'[h]) \subseteq ToSet(ready[h]) \cup ToSet(back)
                               /\ InOrder(ready'[h], Order')
        BY <1>6, <2>3, <2>6, <2>7
      <3> QED BY <1>2, <1>5, <1>6, <2>3, <2>5, <3>1 DEF VectorsOrdered
    <2>9. \A h \in Methods : Queued(h)' \subseteq Queued(h) \cup ToSet(back)
      BY <2>3, <2>6 DEF Queued
    <2>10. HandsOrdered'
      BY <1>2, <1>5, <2>3, <2>5, <2>9 DEF HandsOrdered
    <2>11. DoneOrdered'
      BY <1>2, <1>5, <2>3 DEF DoneOrdered
    <2> QED BY <2>8, <2>10, <2>11
  <1>15. CASE EndPass
    <2>1. Top.hook \in Methods
      BY <1>15, AtTop DEF EndPass
    <2>2. PICK hook \in Methods : hook = Top.hook
      BY <2>1
    <2>3. /\ UNCHANGED <<action, finished, dropped, late>>
          /\ \A h \in Methods : ready'[h] = IF h = hook THEN ready[h] \o waiting[h] ELSE ready[h]
          /\ \A h \in Methods : waiting'[h] = IF h = hook THEN <<>> ELSE waiting[h]
          /\ \A k \in Nat : Held(k)' = Held(k)
      BY <1>15, <2>1, <2>2, PassMoves
    <2>4. /\ ToSet(ready[hook] \o waiting[hook]) = ToSet(ready[hook]) \cup ToSet(waiting[hook])
      BY <1>4, Concatenated
    <2>5. InOrder(ready[hook] \o waiting[hook], Order')
      <3>1. PICK less : less = Order'
        OBVIOUS
      <3>2. \A x \in ToSet(waiting[hook]), y \in ToSet(ready[hook]) : <<x, y>> \notin less
        <4> SUFFICES ASSUME NEW x \in ToSet(waiting[hook]), NEW y \in ToSet(ready[hook]),
                            <<x, y>> \in Order'
                     PROVE  FALSE
          BY <3>1
        <4>1. Before(x, y)'
          BY DEF Order
        <4>2. Before(x, y)
          BY <1>5, <2>3, <4>1
        <4> QED BY <1>2, <4>2 DEF VectorsOrdered
      <3>3. InOrder(ready[hook], less) /\ InOrder(waiting[hook], less)
        BY <1>6, <3>1
      <3>4. InOrder(ready[hook] \o waiting[hook], less)
        BY <1>4, <3>2, <3>3, Concatenated
      <3> QED BY <3>1, <3>4
    <2>6. VectorsOrdered'
      <3>1. \A h \in Methods : /\ InOrder(ready'[h], Order') /\ InOrder(waiting'[h], Order')
                               /\ h = hook => ToSet(waiting'[h]) = {}
        BY <1>6, <2>3, <2>5, EmptyElements
      <3> QED BY <1>2, <1>5, <2>3, <3>1 DEF VectorsOrdered
    <2>7. \A h \in Methods : Queued(h)' \subseteq Queued(h)
      BY <2>3, <2>4, EmptyElements DEF Queued
    <2>8. HandsOrdered'
      BY <1>2, <1>5, <2>3, <2>7 DEF HandsOrdered
    <2>9. DoneOrdered'
      BY <1>2, <1>5, <2>3 DEF DoneOrdered
    <2> QED BY <2>6, <2>8, <2>9
  <1> QED BY <1>8, <1>9, <1>10, <1>11, <1>12, <1>13, <1>14, <1>15 DEF Next, Pass, Quiet

LEMMA OrderedInitially == Init => Ordered
  <1> SUFFICES ASSUME Init PROVE Ordered
    OBVIOUS
  <1>1. /\ ToSet(<<>>) = {} /\ DOMAIN <<>> = {} /\ \A order : InOrder(<<>>, order)
    BY EmptyElements
  <1>2. frames = <<>> /\ action = <<>> /\ finished = {}
    BY DEF Init
  <1>3. \A h \in Methods : ready[h] = <<>> /\ waiting[h] = <<>> /\ Queued(h) = {}
    BY <1>1 DEF Init, Queued
  <1>4. \A k \in Nat : Held(k) = {} /\ ~Acts(k)
    BY <1>1, <1>2 DEF Held, Acts
  <1>5. OneActs
    BY <1>4 DEF OneActs
  <1>6. AllRanked /\ VectorsOrdered
    BY <1>1, <1>2, <1>3 DEF AllRanked, VectorsOrdered
  <1>7. HandsOrdered /\ DoneOrdered
    BY <1>1, <1>2, <1>3, <1>4 DEF HandsOrdered, DoneOrdered
  <1> QED BY <1>5, <1>6, <1>7 DEF Ordered

LEMMA AlwaysOrdered == Spec => []Ordered
  <1>1. Types /\ Single /\ Ordered /\ [Next]_vars => Ordered'
    <2> SUFFICES ASSUME Types, Single, Ordered, [Next]_vars PROVE Ordered'
      OBVIOUS
    <2>1. CASE Next
      <3>1. OneActs' /\ AllRanked'
        BY <2>1, OneActsStep, RankedStep DEF Ordered
      <3> QED BY <2>1, <3>1, OrderedStep DEF Ordered
    <2>2. CASE UNCHANGED vars
      <3>1. UNCHANGED <<action, ready, waiting, executing, frames, finished, dropped, late, deferred>>
        BY <2>2 DEF vars, actionVars, history
      <3>2. Order' = Order
        BY <3>1 DEF Order, Before
      <3>3. AllRanked'
        BY <3>1, <3>2 DEF Ordered, AllRanked, Ranked
      <3>4. OneActs' /\ HandsOrdered' /\ DoneOrdered'
        BY <3>1 DEF Ordered, OneActs, Acts, Acting, HandsOrdered, DoneOrdered, Held, Hand, Queued,
                    Before
      <3>5. VectorsOrdered'
        BY <3>1, <3>2 DEF Ordered, VectorsOrdered, Before
      <3> QED BY <3>3, <3>4, <3>5 DEF Ordered
    <2> QED BY <2>1, <2>2
  <1> QED BY <1>1, OrderedInitially, AlwaysSingle, PTL DEF Spec

\* The actions of a method run in the order they were queued in, through
\* nested passes and the two vectors, unless one of them was deferred or only
\* the earlier one was queued during a pass.
THEOREM RunInOrder == Spec => []ActionsInOrder
  <1>1. Ordered => ActionsInOrder
    BY DEF Ordered, DoneOrdered, Before, ActionsInOrder
  <1> QED BY <1>1, AlwaysOrdered, PTL
=============================================================================
