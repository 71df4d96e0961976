--------------------------- MODULE DetourStateProofs ---------------------------
(***************************************************************************)
(* Proofs about the State of a detour's callbacks, for any number of       *)
(* callbacks, threads and nested invocations.                              *)
(***************************************************************************)
EXTENDS DetourCallbacks, FiniteSetTheorems, SequenceTheorems, WellFoundedInduction, TLAPS

-----------------------------------------------------------------------------
(* The vectors that AddCallback and CollectGarbage make.                    *)

\* Every nonempty set of naturals has a least element: the induction
\* principle the next lemma is proved with.
LEMMA LeastNat ==
  ASSUME NEW T \in SUBSET Nat, T # {}
  PROVE  \E x \in T : \A y \in T : x <= y
  <1>1. PICK x \in T : \A y \in T : ~ (<<y, x>> \in OpToRel(<, Nat))
    <2> DEFINE R == OpToRel(<, Nat)
    <2>1. IsWellFoundedOn(R, Nat)
      BY NatLessThanWellFounded
    <2> HIDE DEF R
    <2>2. \E x \in T : \A y \in T : ~ (<<y, x>> \in R)
      BY <2>1, WFMin
    <2> QED
      BY <2>2 DEF R
  <1>2. \A y \in T : ~(y < x)
    BY <1>1 DEF OpToRel
  <1> QED
    BY <1>2

\* f lists V in increasing order.
Lists(f, V) ==
    /\ f \in [1 .. Cardinality(V) -> V]
    /\ \A j, k \in 1 .. Cardinality(V) : j < k => f[j] < f[k]

\* A list of V, followed by a number above V.
LEMMA ListExtended ==
  ASSUME NEW n \in Nat \ {0}, NEW V \in SUBSET (1 .. n), n \in V,
         NEW g, Lists(g, V \ {n})
  PROVE  \E f : Lists(f, V)
  <1> DEFINE W == V \ {n}
             m == Cardinality(W)
             f == [k \in 1 .. m + 1 |-> IF k = m + 1 THEN n ELSE g[k]]
  <1>1. IsFiniteSet(1 .. n)
    BY FS_Interval
  <1>2. IsFiniteSet(W) /\ IsFiniteSet(V)
    <2>1. W \in SUBSET (1 .. n)
      OBVIOUS
    <2> HIDE DEF W
    <2> QED
      BY <1>1, <2>1, FS_Subset
  <1>3. m \in Nat
    BY <1>2, FS_CardinalityType
  <1>4. Cardinality(V) = m + 1
    BY <1>2, <1>3, FS_RemoveElement, FS_CardinalityType
  <1>5. g \in [1 .. m -> W] /\ \A j, k \in 1 .. m : j < k => g[j] < g[k]
    BY DEF Lists
  <1> HIDE DEF m
  <1>6. \A k \in 1 .. m : g[k] \in V /\ g[k] < n
    <2> SUFFICES ASSUME NEW k \in 1 .. m PROVE g[k] \in V /\ g[k] < n
      OBVIOUS
    <2>1. g[k] \in V /\ g[k] # n
      BY <1>5
    <2>2. g[k] \in 1 .. n
      BY <2>1
    <2> QED
      BY <2>1, <2>2
  <1>7. f \in [1 .. m + 1 -> V]
    BY <1>3, <1>6
  <1>8. \A j, k \in 1 .. m + 1 : j < k => f[j] < f[k]
    BY <1>3, <1>5, <1>6
  <1>9. Lists(f, V)
    BY <1>4, <1>7, <1>8 DEF Lists
  <1> QED
    BY <1>9

\* Every set of positions can be listed in increasing order.
LEMMA ListExists ==
  ASSUME NEW N \in Nat, NEW U \in SUBSET (1 .. N)
  PROVE  \E f : Lists(f, U)
  <1> DEFINE Bad == {n \in Nat : \E V \in SUBSET (1 .. n) : ~ \E f : Lists(f, V)}
  <1>1. SUFFICES ASSUME Bad # {} PROVE FALSE
    OBVIOUS
  <1>2. PICK n \in Bad : \A y \in Bad : n <= y
    <2> HIDE DEF Bad
    <2>1. Bad \in SUBSET Nat
      BY DEF Bad
    <2> QED
      BY <1>1, <2>1, LeastNat
  <1>3. PICK V \in SUBSET (1 .. n) : ~ \E f : Lists(f, V)
    BY <1>2
  <1>4. n \in Nat
    BY <1>2
  <1>5. CASE n = 0
    <2>1. V = {}
      BY <1>5
    <2>2. Cardinality(V) = 0
      BY <2>1, FS_EmptySet
    <2>3. Lists([k \in 1 .. 0 |-> k], V)
      BY <2>2 DEF Lists
    <2> QED
      BY <1>3, <2>3
  <1>6. CASE n # 0
    <2>1. n - 1 \in Nat /\ n - 1 \notin Bad
      BY <1>2, <1>4, <1>6
    <2>2. \A W \in SUBSET (1 .. n - 1) : \E f : Lists(f, W)
      BY <2>1
    <2>3. V \ {n} \in SUBSET (1 .. n - 1)
      BY <1>4
    <2>4. PICK g : Lists(g, V \ {n})
      BY <2>2, <2>3
    <2>5. CASE n \in V
      BY <1>3, <1>4, <1>6, <2>4, <2>5, ListExtended
    <2>6. CASE n \notin V
      <3>1. V \ {n} = V
        BY <2>6
      <3> QED
        BY <1>3, <2>4, <3>1
    <2> QED
      BY <2>5, <2>6
  <1> QED
    BY <1>5, <1>6

\* What Pruned keeps: the valid elements, in their order.
LEMMA PrunedProperties ==
  ASSUME NEW s \in Seq(Callbacks)
  PROVE  /\ Pruned(s) \in Seq(Callbacks)
         /\ Elements(Pruned(s)) = {c \in Elements(s) : ~cb[c].invalid}
         /\ \E p \in [DOMAIN Pruned(s) -> DOMAIN s] :
               /\ \A k \in DOMAIN Pruned(s) : Pruned(s)[k] = s[p[k]]
               /\ \A j, k \in DOMAIN Pruned(s) : j < k => p[j] < p[k]
  <1> DEFINE valid == {i \in DOMAIN s : ~cb[s[i]].invalid}
             n == Cardinality(valid)
             place == CHOOSE f \in [1 .. n -> valid] : \A j, k \in DOMAIN f : j < k => f[j] < f[k]
  <1>1. Len(s) \in Nat /\ DOMAIN s = 1 .. Len(s) /\ \A i \in DOMAIN s : s[i] \in Callbacks
    BY LenProperties, ElementOfSeq
  <1>2. valid \in SUBSET (1 .. Len(s))
    BY <1>1
  <1>3. IsFiniteSet(valid) /\ n \in Nat
    <2>1. IsFiniteSet(1 .. Len(s))
      BY <1>1, FS_Interval
    <2> HIDE DEF valid
    <2>2. IsFiniteSet(valid)
      BY <1>2, <2>1, FS_Subset
    <2> QED
      BY <2>2, FS_CardinalityType
  <1>4. \E f \in [1 .. n -> valid] : \A j, k \in DOMAIN f : j < k => f[j] < f[k]
    <2>1. PICK f : Lists(f, valid)
      BY <1>1, <1>2, ListExists
    <2> QED
      BY <2>1 DEF Lists
  <1>5. place \in [1 .. n -> valid] /\ \A j, k \in DOMAIN place : j < k => place[j] < place[k]
    BY <1>4
  <1>6. Pruned(s) = [k \in 1 .. n |-> s[place[k]]]
    BY DEF Pruned
  <1> HIDE DEF place, n, valid
  <1>7. \A v \in valid : \E k \in 1 .. n : place[k] = v
    <2>1. \A v \in valid : v \in Nat
      BY <1>1, <1>2
    <2>2. \A j, k \in 1 .. n : j # k => place[j] # place[k]
      BY <1>3, <1>5, <2>1
    <2>3. place \in Injection(1 .. n, valid)
      BY <1>5, <2>2 DEF Injection, IsInjective
    <2>4. Cardinality(1 .. n) = n
      BY <1>3, FS_Interval
    <2>5. place \in Surjection(1 .. n, valid)
      BY <1>3, <2>3, <2>4, FS_Injection DEF n
    <2> QED
      BY <2>5 DEF Surjection
  <1>8. \A k \in 1 .. n : place[k] \in DOMAIN s /\ ~cb[s[place[k]]].invalid
    BY <1>5 DEF valid
  <1>9. Pruned(s) \in [1 .. n -> Callbacks]
    BY <1>1, <1>6, <1>8
  <1>10. Pruned(s) \in Seq(Callbacks)
    BY <1>3, <1>9, SeqDef
  <1>11. \A c \in Elements(Pruned(s)) : c \in Elements(s) /\ ~cb[c].invalid
    BY <1>6, <1>8 DEF Elements
  <1>12. ASSUME NEW c \in Elements(s), ~cb[c].invalid
         PROVE  c \in Elements(Pruned(s))
    <2>1. PICK i \in DOMAIN s : s[i] = c
      BY DEF Elements
    <2>2. i \in valid
      BY <1>12, <2>1 DEF valid
    <2>3. PICK k \in 1 .. n : place[k] = i
      BY <1>7, <2>2
    <2>4. k \in DOMAIN Pruned(s) /\ Pruned(s)[k] = c
      BY <1>6, <2>1, <2>3
    <2> QED
      BY <2>4 DEF Elements
  <1>13. /\ DOMAIN Pruned(s) = 1 .. n
         /\ place \in [1 .. n -> DOMAIN s]
         /\ \A k \in 1 .. n : Pruned(s)[k] = s[place[k]]
         /\ \A j, k \in 1 .. n : j < k => place[j] < place[k]
    BY <1>5, <1>6, <1>8
  <1> QED
    BY <1>10, <1>11, <1>12, <1>13

\* r is s with c at k: the end, or a place before every readonly callback.
InsertedAt(s, c, ro, r, k) ==
    /\ ro => k = Len(s) + 1
    /\ ~ro => \A j \in 1 .. k - 1 : ~cb[s[j]].readonly
    /\ \A i \in 1 .. Len(s) + 1 : r[i] = IF i < k THEN s[i] ELSE IF i = k THEN c ELSE s[i - 1]

LEMMA InsertedShape ==
  ASSUME NEW s \in Seq(Callbacks), NEW c \in Callbacks, NEW ro \in BOOLEAN
  PROVE  /\ Inserted(s, c, ro) \in Seq(Callbacks)
         /\ Len(Inserted(s, c, ro)) = Len(s) + 1
         /\ \E k \in 1 .. Len(s) + 1 : InsertedAt(s, c, ro, Inserted(s, c, ro), k)
  <1> DEFINE first == {i \in DOMAIN s : cb[s[i]].readonly /\
                                        \A j \in 1 .. i - 1 : ~cb[s[j]].readonly}
             n == Len(s)
  <1>1. n \in Nat /\ DOMAIN s = 1 .. n /\ \A i \in 1 .. n : s[i] \in Callbacks
    BY LenProperties, ElementOfSeq
  <1>2. CASE ro \/ first = {}
    <2>1. Inserted(s, c, ro) = Append(s, c)
      BY <1>2 DEF Inserted
    <2>3. ~ro => \A j \in 1 .. n : ~cb[s[j]].readonly
      <3> DEFINE R == {i \in 1 .. n : cb[s[i]].readonly}
      <3> SUFFICES ASSUME ~ro, R # {} PROVE FALSE
        OBVIOUS
      <3>1. PICK x \in R : \A y \in R : x <= y
        <4> HIDE DEF n
        <4>1. R \in SUBSET Nat
          BY <1>1
        <4> HIDE DEF R
        <4> QED
          BY <4>1, LeastNat
      <3>2. \A j \in 1 .. x - 1 : ~cb[s[j]].readonly
        BY <1>1, <3>1
      <3> QED
        BY <1>1, <1>2, <3>1, <3>2
    <2> HIDE DEF first
    <2>2. \A i \in 1 .. n + 1 : Append(s, c)[i] = IF i < n + 1 THEN s[i] ELSE c
      BY <1>1, AppendProperties
    <2>4. n + 1 \in 1 .. n + 1 /\ (n + 1) - 1 = n
      BY <1>1
    <2>5. Append(s, c) \in Seq(Callbacks) /\ Len(Append(s, c)) = n + 1
      BY <1>1, AppendProperties
    <2>6. \A i \in 1 .. n + 1 :
             Append(s, c)[i] = IF i < n + 1 THEN s[i] ELSE IF i = n + 1 THEN c ELSE s[i - 1]
      BY <1>1, <2>2
    <2> HIDE DEF n
    <2> QED
      BY <2>1, <2>3, <2>4, <2>5, <2>6 DEF n, InsertedAt
  <1>3. CASE ~(ro \/ first = {})
    <2> DEFINE k == CHOOSE i \in first : TRUE
               a == SubSeq(s, 1, k - 1)
               b == SubSeq(s, k, n)
               q == a \o <<c>>
               r == q \o b
    <2>1. Inserted(s, c, ro) = a \o <<c>> \o b
      BY <1>3 DEF Inserted
    <2>2. k \in first
      BY <1>3
    <2> HIDE DEF first, k
    <2>3. k \in 1 .. n
      BY <1>1, <2>2 DEF first
    <2>11. ~ro /\ \A j \in 1 .. k - 1 : ~cb[s[j]].readonly
      BY <1>3, <2>2 DEF first
    <2>4. /\ a \in Seq(Callbacks) /\ Len(a) = k - 1
          /\ \A i \in 1 .. k - 1 : a[i] = s[i]
      BY <1>1, <2>3, SubSeqProperties
    <2>5. /\ b \in Seq(Callbacks) /\ Len(b) = n - k + 1
          /\ \A i \in 1 .. n - k + 1 : b[i] = s[k + i - 1]
      BY <1>1, <2>3, SubSeqProperties
    <2>6. <<c>> \in Seq(Callbacks) /\ Len(<<c>>) = 1 /\ <<c>>[1] = c
      OBVIOUS
    <2> HIDE DEF a, b, n
    <2>7. /\ q \in Seq(Callbacks) /\ Len(q) = k
          /\ \A i \in 1 .. k : q[i] = IF i < k THEN s[i] ELSE c
      <3>1. /\ q \in Seq(Callbacks) /\ Len(q) = (k - 1) + 1
            /\ \A i \in 1 .. (k - 1) + 1 : q[i] = IF i <= k - 1 THEN a[i] ELSE <<c>>[i - (k - 1)]
        BY <2>4, <2>6, ConcatProperties
      <3> HIDE DEF q
      <3>2. (k - 1) + 1 = k /\ k - (k - 1) = 1
        BY <1>1, <2>3
      <3>3. ASSUME NEW i \in 1 .. k PROVE q[i] = IF i < k THEN s[i] ELSE c
        <4>1. CASE i < k
          BY <1>1, <2>3, <2>4, <3>1, <3>2, <4>1
        <4>2. CASE i = k
          BY <1>1, <2>3, <2>6, <3>1, <3>2, <4>2
        <4> QED
          BY <2>3, <1>1, <4>1, <4>2
      <3> QED
        BY <3>1, <3>2, <3>3
    <2> HIDE DEF q
    <2>8. /\ r \in Seq(Callbacks) /\ Len(r) = k + (n - k + 1)
          /\ \A i \in 1 .. k + (n - k + 1) : r[i] = IF i <= k THEN q[i] ELSE b[i - k]
      <3>1. /\ r \in Seq(Callbacks) /\ Len(r) = Len(q) + Len(b)
            /\ \A i \in 1 .. Len(q) + Len(b) : r[i] = IF i <= Len(q) THEN q[i] ELSE b[i - Len(q)]
        BY <2>5, <2>7, ConcatProperties
      <3> QED
        BY <2>5, <2>7, <3>1
    <2> HIDE DEF r
    <2>9. k + (n - k + 1) = n + 1 /\ k \in 1 .. n + 1
      BY <1>1, <2>3
    <2>10. ASSUME NEW i \in 1 .. n + 1
           PROVE  r[i] = IF i < k THEN s[i] ELSE IF i = k THEN c ELSE s[i - 1]
      <3>1. CASE i <= k
        BY <1>1, <2>3, <2>7, <2>8, <2>9, <3>1
      <3>2. CASE ~(i <= k)
        <4>1. r[i] = b[i - k] /\ i - k \in 1 .. n - k + 1
          BY <1>1, <2>3, <2>8, <2>9, <3>2
        <4>2. k + (i - k) - 1 = i - 1
          BY <1>1, <2>3
        <4> QED
          BY <2>3, <2>5, <3>2, <4>1, <4>2
      <3> QED
        BY <3>1, <3>2
    <2> QED
      BY <2>1, <2>8, <2>9, <2>10, <2>11 DEF n, q, r, InsertedAt
  <1> QED
    BY <1>2, <1>3

\* Nothing gets lost and only c is added.
LEMMA InsertedElements ==
  ASSUME NEW s \in Seq(Callbacks), NEW c \in Callbacks, NEW ro \in BOOLEAN
  PROVE  Elements(Inserted(s, c, ro)) = Elements(s) \cup {c}
  <1> DEFINE r == Inserted(s, c, ro)
             n == Len(s)
  <1>1. n \in Nat /\ DOMAIN s = 1 .. n
    BY LenProperties
  <1>2. DOMAIN r = 1 .. n + 1
    BY <1>1, InsertedShape, LenProperties
  <1>3. PICK k \in 1 .. n + 1 :
           \A i \in 1 .. n + 1 : r[i] = IF i < k THEN s[i] ELSE IF i = k THEN c ELSE s[i - 1]
    BY InsertedShape DEF InsertedAt
  <1> HIDE DEF r, n
  <1>4. ASSUME NEW e \in Elements(r) PROVE e \in Elements(s) \cup {c}
    <2>1. PICK i \in 1 .. n + 1 : r[i] = e
      BY <1>2 DEF Elements
    <2> QED
      BY <1>1, <1>3, <2>1 DEF Elements
  <1>5. ASSUME NEW e \in Elements(s) PROVE e \in Elements(r)
    <2>1. PICK i \in 1 .. n : s[i] = e
      BY <1>1 DEF Elements
    <2>2. CASE i < k
      BY <1>1, <1>2, <1>3, <2>1, <2>2 DEF Elements
    <2>3. CASE i >= k
      <3>1. i + 1 \in 1 .. n + 1 /\ ~(i + 1 < k) /\ i + 1 # k /\ (i + 1) - 1 = i
        BY <1>1, <1>3, <2>1, <2>3
      <3>2. r[i + 1] = e
        BY <1>3, <2>1, <3>1
      <3> QED
        BY <1>2, <3>1, <3>2 DEF Elements
    <2> QED
      BY <1>1, <1>3, <2>1, <2>2, <2>3
  <1>6. c \in Elements(r)
    BY <1>1, <1>2, <1>3 DEF Elements
  <1> QED
    BY <1>4, <1>5, <1>6 DEF r

-----------------------------------------------------------------------------
(* The invariant.                                                           *)

DepthBounded == \A t \in Threads : Len(calls[t]) <= MaxDepth

\* What a thread between two atomic operations knows.
OperationOK(t) ==
    /\ op[t].pc \notin {"gcLock", "gcPost"}
    /\ op[t].pc \in {"commit", "found", "removeMark", "wait"} => op[t].arg \in Callbacks
    /\ op[t].pc \in {"removeMark", "wait"} => cb[op[t].arg].invalid
    /\ op[t].pc \in {"onceMark", "throwMark", "unwind"} =>
          calls[t] # <<>> /\ Top(t).current \in Callbacks

OperationsOK == \A t \in Threads : OperationOK(t)

ExecutionsFinite == \A c \in Callbacks : IsFiniteSet(Executions(c))

\* Nothing makes a callback whose removal was answered run again.
RemovedAreDone == \A c \in removed : cb[c].invalid /\ cb[c].executors = 0

StateInv ==
    /\ TypeOK
    /\ DepthBounded
    /\ OperationsOK
    /\ ExecutionsFinite
    /\ ExecutorsCounted
    /\ RemovedAreDone

LEMMA StateInvInit == Init => StateInv
  <1> SUFFICES ASSUME Init PROVE StateInv
    OBVIOUS
  <1>1. TypeOK
    <2>1. <<>> \in Seq(Callbacks) /\ <<>> \in Seq(Invocation)
      BY EmptySeq
    <2>2. cb \in [Callbacks -> Metadata]
      BY DEF Init, Metadata
    <2>3. calls \in [Threads -> Seq(Invocation)]
      BY <2>1 DEF Init
    <2>4. op \in [Threads \cup {Collector} -> Operation]
      BY <2>1 DEF Init, Operation, NoOperation
    <2>5. order \in [Callbacks -> Nat] /\ runs \in [Callbacks -> 0 .. 2]
      BY DEF Init
    <2> QED
      BY <2>1, <2>2, <2>3, <2>4, <2>5 DEF Init, TypeOK
  <1>2. DepthBounded /\ OperationsOK /\ RemovedAreDone
    BY EmptySeq, ConstantsAssumption
       DEF Init, DepthBounded, OperationsOK, OperationOK, RemovedAreDone, NoOperation
  <1>3. \A c \in Callbacks : Executions(c) = {}
    BY DEF Init, Executions
  <1>4. ExecutionsFinite /\ ExecutorsCounted
    BY <1>3, FS_EmptySet DEF Init, ExecutionsFinite, ExecutorsCounted
  <1> QED
    BY <1>1, <1>2, <1>4 DEF StateInv

LEMMA TopFacts ==
  ASSUME TypeOK, NEW t \in Threads, calls[t] # <<>>
  PROVE  /\ Len(calls[t]) \in Nat \ {0}
         /\ DOMAIN calls[t] = 1 .. Len(calls[t])
         /\ Top(t) \in Invocation
  <1>1. calls[t] \in Seq(Invocation)
    BY DEF TypeOK
  <1> HIDE DEF Invocation
  <1>2. Len(calls[t]) \in Nat \ {0} /\ DOMAIN calls[t] = 1 .. Len(calls[t])
    BY <1>1, EmptySeq, LenProperties
  <1>3. Top(t) \in Invocation
    BY <1>1, <1>2, ElementOfSeq DEF Top
  <1> QED
    BY <1>2, <1>3

\* SetTop replaces the innermost invocation of t and nothing else.
LEMMA SetTopFacts ==
  ASSUME TypeOK, NEW t \in Threads, calls[t] # <<>>, NEW f \in Invocation, SetTop(t, f)
  PROVE  /\ calls' \in [Threads -> Seq(Invocation)]
         /\ \A u \in Threads : Len(calls'[u]) = Len(calls[u]) /\ DOMAIN calls'[u] = DOMAIN calls[u]
         /\ \A u \in Threads : u # t => calls'[u] = calls[u]
         /\ \A i \in DOMAIN calls[t] : i # Len(calls[t]) => calls'[t][i] = calls[t][i]
         /\ calls'[t][Len(calls[t])] = f
         /\ Top(t)' = f /\ calls'[t] # <<>>
  <1> HIDE DEF Invocation
  <1> DEFINE n == Len(calls[t])
  <1>1. calls \in [Threads -> Seq(Invocation)]
    BY DEF TypeOK
  <1>2. n \in Nat \ {0} /\ DOMAIN calls[t] = 1 .. n
    BY TopFacts
  <1>3. calls' = [calls EXCEPT ![t] = [calls[t] EXCEPT ![n] = f]]
    BY DEF SetTop
  <1> HIDE DEF n
  <1>4. /\ [calls[t] EXCEPT ![n] = f] \in Seq(Invocation)
        /\ Len([calls[t] EXCEPT ![n] = f]) = n
    BY <1>1, <1>2, ExceptSeq DEF n
  <1>5. /\ DOMAIN [calls[t] EXCEPT ![n] = f] = DOMAIN calls[t]
        /\ [calls[t] EXCEPT ![n] = f][n] = f
        /\ \A i \in DOMAIN calls[t] : i # n => [calls[t] EXCEPT ![n] = f][i] = calls[t][i]
    BY <1>2
  <1>6. calls'[t] = [calls[t] EXCEPT ![n] = f] /\ \A u \in Threads : u # t => calls'[u] = calls[u]
    BY <1>1, <1>3
  <1>7. calls' \in [Threads -> Seq(Invocation)]
    BY <1>1, <1>3, <1>4
  <1>8. Len(calls'[t]) = n /\ DOMAIN calls'[t] = DOMAIN calls[t]
    BY <1>4, <1>5, <1>6
  <1>9. Top(t)' = f
    BY <1>5, <1>6, <1>8 DEF Top
  <1>10. calls'[t] # <<>>
    BY <1>2, <1>8, EmptySeq
  <1> QED
    BY <1>5, <1>6, <1>7, <1>8, <1>9, <1>10 DEF n

\* Executions depend on who is current where, and on nothing else.
LEMMA SameExecutions ==
  ASSUME NEW c, \A u \in Threads : \A i \in 1 .. MaxDepth :
            (i \in DOMAIN calls'[u] /\ calls'[u][i].current = c)
               <=> (i \in DOMAIN calls[u] /\ calls[u][i].current = c)
  PROVE  Executions(c)' = Executions(c)
  BY DEF Executions

\* The innermost invocation goes on with the same callback, or none.
LEMMA MovedExecutions ==
  ASSUME TypeOK, NEW t \in Threads, calls[t] # <<>>, NEW f \in Invocation, SetTop(t, f),
         f.current = Top(t).current, NEW c
  PROVE  Executions(c)' = Executions(c)
  <1>1. \A u \in Threads : \A i \in DOMAIN calls[u] : calls'[u][i].current = calls[u][i].current
    BY SetTopFacts DEF Top
  <1>2. \A u \in Threads : DOMAIN calls'[u] = DOMAIN calls[u]
    BY SetTopFacts
  <1> QED
    BY <1>1, <1>2, SameExecutions

\* A callback that an invocation is executing is counted.
LEMMA TopIsCounted ==
  ASSUME StateInv, NEW t \in Threads, calls[t] # <<>>, Top(t).current \in Callbacks
  PROVE  /\ <<t, Len(calls[t])>> \in Executions(Top(t).current)
         /\ cb[Top(t).current].executors \in Nat \ {0}
  <1> DEFINE c == Top(t).current
  <1>1. <<t, Len(calls[t])>> \in Executions(c)
    BY TopFacts, ConstantsAssumption DEF StateInv, DepthBounded, Executions, Top
  <1>2. IsFiniteSet(Executions(c)) /\ Executions(c) # {}
    BY <1>1 DEF StateInv, ExecutionsFinite
  <1>3. Cardinality(Executions(c)) \in Nat \ {0}
    BY <1>2, FS_CardinalityType, FS_EmptySet
  <1> QED
    BY <1>1, <1>3 DEF StateInv, ExecutorsCounted

\* TryBeginExecution: one more execution, one more executor.
LEMMA ExecutionBegins ==
  ASSUME StateInv, NEW t \in Threads, calls[t] # <<>>, Top(t).current = NoCallback,
         NEW f \in Invocation, f.current \in Callbacks, SetTop(t, f),
         \A c \in Callbacks : cb'[c].executors =
            IF c = f.current THEN cb[c].executors + 1 ELSE cb[c].executors
  PROVE  ExecutionsFinite' /\ ExecutorsCounted'
  <1> DEFINE n == Len(calls[t])
             c == f.current
  <1>1. TypeOK
    BY DEF StateInv
  <1>2. n \in DOMAIN calls[t] /\ n \in 1 .. MaxDepth
    BY <1>1, TopFacts, ConstantsAssumption DEF StateInv, DepthBounded
  <1>3. Executions(c)' = Executions(c) \cup {<<t, n>>}
    BY <1>1, <1>2, SetTopFacts DEF Executions
  <1>4. <<t, n>> \notin Executions(c)
    BY ConstantsAssumption DEF Executions, Top
  <1>5. \A d \in Callbacks : d # c => Executions(d)' = Executions(d)
    <2> SUFFICES ASSUME NEW d \in Callbacks, d # c PROVE Executions(d)' = Executions(d)
      OBVIOUS
    <2>1. d # NoCallback
      BY ConstantsAssumption
    <2>2. \A u \in Threads : \A i \in 1 .. MaxDepth :
             (i \in DOMAIN calls'[u] /\ calls'[u][i].current = d)
                <=> (i \in DOMAIN calls[u] /\ calls[u][i].current = d)
      BY <1>1, <1>2, <2>1, SetTopFacts DEF Top
    <2> QED
      BY <2>2, SameExecutions
  <1>6. IsFiniteSet(Executions(c)) /\ cb[c].executors = Cardinality(Executions(c))
    BY DEF StateInv, ExecutionsFinite, ExecutorsCounted
  <1> HIDE DEF n, c
  <1>7. /\ IsFiniteSet(Executions(c)')
        /\ Cardinality(Executions(c)') = Cardinality(Executions(c)) + 1
    BY <1>3, <1>4, <1>6, FS_AddElement
  <1> QED
    BY <1>5, <1>6, <1>7 DEF StateInv, ExecutionsFinite, ExecutorsCounted, c

\* EndExecution: one less of both.
LEMMA ExecutionEnds ==
  ASSUME StateInv, NEW t \in Threads, calls[t] # <<>>, NEW c \in Callbacks, Top(t).current = c,
         NEW f \in Invocation, f.current = NoCallback, SetTop(t, f),
         \A d \in Callbacks : cb'[d].executors =
            IF d = c THEN cb[d].executors - 1 ELSE cb[d].executors
  PROVE  ExecutionsFinite' /\ ExecutorsCounted'
  <1> DEFINE n == Len(calls[t])
  <1>1. TypeOK
    BY DEF StateInv
  <1>2. n \in DOMAIN calls[t] /\ n \in 1 .. MaxDepth
    BY <1>1, TopFacts, ConstantsAssumption DEF StateInv, DepthBounded
  <1>3. Executions(c)' = Executions(c) \ {<<t, n>>}
    <2>1. calls'[t][n] = f /\ \A u \in Threads : DOMAIN calls'[u] = DOMAIN calls[u]
      BY <1>1, SetTopFacts
    <2>2. \A u \in Threads, i \in 1 .. MaxDepth :
             i \in DOMAIN calls[u] /\ (u # t \/ i # n) => calls'[u][i] = calls[u][i]
      BY <1>1, SetTopFacts
    <2>3. f.current # c
      BY ConstantsAssumption
    <2> HIDE DEF n
    <2> QED
      BY <1>2, <2>1, <2>2, <2>3 DEF Executions
  <1>4. <<t, n>> \in Executions(c) /\ cb[c].executors \in Nat \ {0}
    BY TopIsCounted
  <1>5. \A d \in Callbacks : d # c => Executions(d)' = Executions(d)
    <2> SUFFICES ASSUME NEW d \in Callbacks, d # c PROVE Executions(d)' = Executions(d)
      OBVIOUS
    <2>1. d # NoCallback
      BY ConstantsAssumption
    <2>2. \A u \in Threads : \A i \in 1 .. MaxDepth :
             (i \in DOMAIN calls'[u] /\ calls'[u][i].current = d)
                <=> (i \in DOMAIN calls[u] /\ calls[u][i].current = d)
      BY <1>1, <1>2, <2>1, SetTopFacts DEF Top
    <2> QED
      BY <2>2, SameExecutions
  <1>6. IsFiniteSet(Executions(c)) /\ cb[c].executors = Cardinality(Executions(c))
    BY DEF StateInv, ExecutionsFinite, ExecutorsCounted
  <1> HIDE DEF n
  <1>7. /\ IsFiniteSet(Executions(c)')
        /\ Cardinality(Executions(c)') = Cardinality(Executions(c)) - 1
    BY <1>3, <1>4, <1>6, FS_RemoveElement
  <1>8. cb'[c].executors = Cardinality(Executions(c)')
    BY <1>6, <1>7
  <1>9. \A d \in Callbacks : d # c => cb'[d].executors = cb[d].executors
    OBVIOUS
  <1> QED
    BY <1>5, <1>7, <1>8, <1>9 DEF StateInv, ExecutionsFinite, ExecutorsCounted

-----------------------------------------------------------------------------
(* Every step preserves the invariant.                                      *)

\* What the other threads know stays right, since callbacks stay invalid.
LEMMA OthersOK ==
  ASSUME StateInv, NEW t \in Threads, OperationOK(t)',
         \A u \in Threads : u # t => op'[u] = op[u] /\ calls'[u] = calls[u],
         \A c \in Callbacks : cb[c].invalid => cb'[c].invalid
  PROVE  OperationsOK'
  <1> SUFFICES ASSUME NEW u \in Threads, u # t PROVE OperationOK(u)'
    BY DEF OperationsOK
  <1> QED
    BY DEF StateInv, OperationsOK, OperationOK, Top

\* Steps that neither begin nor end an execution.
LEMMA CallsUnchanged ==
  ASSUME StateInv, UNCHANGED calls, TypeOK', OperationsOK', RemovedAreDone',
         \A c \in Callbacks : cb'[c].executors = cb[c].executors
  PROVE  StateInv'
  <1>1. \A c \in Callbacks : Executions(c)' = Executions(c)
    BY DEF Executions
  <1> QED
    BY <1>1 DEF StateInv, DepthBounded, ExecutionsFinite, ExecutorsCounted

LEMMA AddCallbackPreserves ==
  ASSUME StateInv, NEW t \in Threads, NEW c \in Callbacks, NEW o \in Options, AddCallback(t, c, o)
  PROVE  StateInv'
  <1>1. o.type \in {"pre", "post"} /\ o.once \in BOOLEAN /\ o.readonly \in BOOLEAN
    BY ConstantsAssumption
  <1> DEFINE old == IF o.type = "pre" THEN pre ELSE post
             draft == Inserted(IF bDirty THEN Pruned(old) ELSE old, c, o.readonly)
             new == [pc |-> "commit", arg |-> c, draft |-> draft]
  <1>2. old \in Seq(Callbacks)
    BY DEF StateInv, TypeOK
  <1>3. draft \in Seq(Callbacks)
    <2> HIDE DEF old
    <2>1. (IF bDirty THEN Pruned(old) ELSE old) \in Seq(Callbacks)
      BY <1>2, PrunedProperties
    <2> QED
      BY <1>1, <2>1, InsertedShape
  <1>4. op' = [op EXCEPT ![t] = new]
    BY DEF AddCallback
  <1> HIDE DEF draft, old
  <1>5. new \in Operation
    BY <1>3 DEF Operation
  <1>6. cb' = [cb EXCEPT ![c].type = o.type, ![c].once = o.once, ![c].readonly = o.readonly]
    BY DEF AddCallback
  <1>7. /\ cb' \in [Callbacks -> Metadata]
        /\ \A d \in Callbacks : cb'[d].executors = cb[d].executors /\ cb'[d].invalid = cb[d].invalid
    <2> DEFINE m == [cb[c] EXCEPT !.type = o.type, !.once = o.once, !.readonly = o.readonly]
    <2>1. cb \in [Callbacks -> Metadata]
      BY DEF StateInv, TypeOK
    <2>2. m \in Metadata /\ m.executors = cb[c].executors /\ m.invalid = cb[c].invalid
      BY <1>1, <2>1 DEF Metadata
    <2>3. cb' = [cb EXCEPT ![c] = m]
      BY <1>6, <2>1
    <2> HIDE DEF m, Metadata
    <2> QED
      BY <2>1, <2>2, <2>3
  <1>8. op' \in [Threads \cup {Collector} -> Operation]
    BY <1>4, <1>5 DEF StateInv, TypeOK
  <1>9. TypeOK'
    BY <1>7, <1>8 DEF StateInv, TypeOK, AddCallback, vectors, history
  <1>10. OperationsOK'
    <2>1. OperationOK(t)'
      BY <1>4 DEF StateInv, TypeOK, OperationOK
    <2>2. \A u \in Threads : u # t => op'[u] = op[u] /\ calls'[u] = calls[u]
      BY <1>4 DEF AddCallback, StateInv, TypeOK
    <2> QED
      BY <1>7, <2>1, <2>2, OthersOK
  <1>11. RemovedAreDone'
    BY <1>7 DEF StateInv, TypeOK, RemovedAreDone, AddCallback, history
  <1> QED
    BY <1>7, <1>9, <1>10, <1>11, CallsUnchanged DEF AddCallback

\* What Step does to op.
LEMMA StepFacts ==
  ASSUME TypeOK, NEW t \in Threads \cup {Collector}, NEW pc, NEW c, Step(t, pc, c),
         pc \in {"free", "commit", "found", "removeMark", "wait", "onceMark",
                 "throwMark", "unwind", "gcLock", "gcPost"},
         c \in Callbacks \cup {NoCallback}
  PROVE  /\ op' \in [Threads \cup {Collector} -> Operation]
         /\ op'[t].pc = pc /\ op'[t].arg = c /\ op'[t].draft = <<>>
         /\ \A u \in Threads \cup {Collector} : u # t => op'[u] = op[u]
  <1>1. <<>> \in Seq(Callbacks)
    BY EmptySeq
  <1> DEFINE new == [pc |-> pc, arg |-> c, draft |-> <<>>]
  <1>2. new \in Operation /\ new.pc = pc /\ new.arg = c /\ new.draft = <<>>
    BY <1>1 DEF Operation
  <1>3. op' = [op EXCEPT ![t] = new]
    BY DEF Step
  <1> HIDE DEF new
  <1> QED
    BY <1>2, <1>3 DEF TypeOK

LEMMA CommitCallbackPreserves ==
  ASSUME StateInv, NEW t \in Threads, CommitCallback(t)
  PROVE  StateInv'
  <1>1. TypeOK
    BY DEF StateInv
  <1>2. op[t].draft \in Seq(Callbacks) /\ op[t].arg \in Callbacks
    BY <1>1 DEF StateInv, OperationsOK, OperationOK, CommitCallback, TypeOK, Operation
  <1>3. Step(t, "free", NoCallback)
    BY DEF CommitCallback
  <1>4. /\ op' \in [Threads \cup {Collector} -> Operation]
        /\ op'[t].pc = "free"
        /\ \A u \in Threads : u # t => op'[u] = op[u]
    BY <1>1, <1>3, StepFacts
  <1>5. order' \in [Callbacks -> Nat] /\ commits' \in Nat
    BY <1>1, <1>2 DEF TypeOK, CommitCallback
  <1>6. pre' \in Seq(Callbacks) /\ post' \in Seq(Callbacks) /\ writer' \in Threads \cup {Collector, NoThread}
    BY <1>1, <1>2 DEF TypeOK, CommitCallback
  <1>7. TypeOK'
    BY <1>1, <1>4, <1>5, <1>6 DEF TypeOK, CommitCallback
  <1>8. OperationsOK'
    <2>1. OperationOK(t)'
      BY <1>4 DEF OperationOK
    <2> QED
      BY <1>4, <2>1, OthersOK DEF CommitCallback
  <1> QED
    BY <1>7, <1>8, CallsUnchanged DEF CommitCallback, StateInv, RemovedAreDone

LEMMA RemoveCallbackPreserves ==
  ASSUME StateInv, NEW t \in Threads, NEW c \in Callbacks, RemoveCallback(t, c)
  PROVE  StateInv'
  <1>1. TypeOK
    BY DEF StateInv
  <1>2. Step(t, "found", c)
    BY DEF RemoveCallback
  <1>3. /\ op' \in [Threads \cup {Collector} -> Operation]
        /\ op'[t].pc = "found" /\ op'[t].arg = c
        /\ \A u \in Threads : u # t => op'[u] = op[u]
    BY <1>1, <1>2, StepFacts
  <1>4. TypeOK'
    BY <1>1, <1>3 DEF TypeOK, RemoveCallback, vectors, history
  <1>5. OperationsOK'
    <2>1. OperationOK(t)'
      BY <1>3 DEF OperationOK
    <2> QED
      BY <1>3, <2>1, OthersOK DEF RemoveCallback
  <1> QED
    BY <1>4, <1>5, CallsUnchanged DEF RemoveCallback, history, StateInv, RemovedAreDone

\* What invalidating c does to cb.
LEMMA Invalidated ==
  ASSUME TypeOK, NEW c \in Callbacks, cb' = [cb EXCEPT ![c].invalid = TRUE]
  PROVE  /\ cb' \in [Callbacks -> Metadata]
         /\ cb'[c].invalid
         /\ \A d \in Callbacks : /\ cb'[d].executors = cb[d].executors
                                 /\ cb[d].invalid => cb'[d].invalid
  <1> DEFINE m == [cb[c] EXCEPT !.invalid = TRUE]
  <1>1. cb \in [Callbacks -> Metadata]
    BY DEF TypeOK
  <1>2. m \in Metadata /\ m.executors = cb[c].executors /\ m.invalid
    BY <1>1 DEF Metadata
  <1>3. cb' = [cb EXCEPT ![c] = m]
    BY <1>1
  <1> HIDE DEF m, Metadata
  <1> QED
    BY <1>1, <1>2, <1>3

LEMMA RemoveInvalidatePreserves ==
  ASSUME StateInv, NEW t \in Threads, RemoveInvalidate(t)
  PROVE  StateInv'
  <1> DEFINE c == op[t].arg
             next == IF cb[c].invalid THEN "wait" ELSE "removeMark"
  <1>1. TypeOK /\ c \in Callbacks
    BY DEF StateInv, OperationsOK, OperationOK, RemoveInvalidate
  <1>2. Step(t, next, c) /\ cb' = [cb EXCEPT ![c].invalid = TRUE]
    BY DEF RemoveInvalidate
  <1>3. next \in {"wait", "removeMark"}
    OBVIOUS
  <1> HIDE DEF next
  <1>4. /\ op' \in [Threads \cup {Collector} -> Operation]
        /\ op'[t].pc = next /\ op'[t].arg = c
        /\ \A u \in Threads : u # t => op'[u] = op[u]
    BY <1>1, <1>2, <1>3, StepFacts
  <1>5. /\ cb' \in [Callbacks -> Metadata]
        /\ cb'[c].invalid
        /\ \A d \in Callbacks : cb'[d].executors = cb[d].executors /\ (cb[d].invalid => cb'[d].invalid)
    BY <1>1, <1>2, Invalidated
  <1>6. TypeOK'
    BY <1>1, <1>4, <1>5 DEF TypeOK, RemoveInvalidate, vectors, history
  <1>7. OperationsOK'
    <2>1. OperationOK(t)'
      BY <1>1, <1>3, <1>4, <1>5 DEF OperationOK
    <2> QED
      BY <1>4, <1>5, <2>1, OthersOK DEF RemoveInvalidate
  <1>8. RemovedAreDone'
    BY <1>1, <1>5 DEF RemoveInvalidate, history, StateInv, RemovedAreDone, TypeOK
  <1> QED
    BY <1>5, <1>6, <1>7, <1>8, CallsUnchanged DEF RemoveInvalidate

\* RemoveCallback answers true: the callback is invalid and not executing.
LEMMA RemoveReturnPreserves ==
  ASSUME StateInv, NEW t \in Threads, RemoveReturn(t)
  PROVE  StateInv'
  <1>0. TypeOK
    BY DEF StateInv
  <1>1. op[t].arg \in Callbacks /\ cb[op[t].arg].invalid
    BY DEF StateInv, OperationsOK, OperationOK, RemoveReturn
  <1>2. Step(t, "free", NoCallback)
    BY DEF RemoveReturn
  <1>3. /\ op' \in [Threads \cup {Collector} -> Operation]
        /\ op'[t].pc = "free"
        /\ \A u \in Threads : u # t => op'[u] = op[u]
    BY <1>0, <1>2, StepFacts
  <1>4. TypeOK'
    BY <1>0, <1>1, <1>3 DEF TypeOK, RemoveReturn, vectors
  <1>5. OperationsOK'
    <2>1. OperationOK(t)'
      BY <1>3 DEF OperationOK
    <2> QED
      BY <1>3, <2>1, OthersOK DEF RemoveReturn
  <1>6. RemovedAreDone'
    BY <1>1 DEF RemoveReturn, StateInv, RemovedAreDone
  <1> QED
    BY <1>4, <1>5, <1>6, CallsUnchanged DEF RemoveReturn

LEMMA MarkDirtyPreserves ==
  ASSUME StateInv, NEW t \in Threads, MarkDirty(t)
  PROVE  StateInv'
  <1> DEFINE c == op[t].arg
             next == CASE op[t].pc = "removeMark" -> "wait"
                       [] op[t].pc = "onceMark" -> "free"
                       [] op[t].pc = "throwMark" -> "unwind"
  <1>1. TypeOK /\ c \in Callbacks \cup {NoCallback}
    BY DEF StateInv, TypeOK, Operation
  <1>2. Step(t, next, c)
    BY DEF MarkDirty
  <1>3. /\ op[t].pc = "removeMark" => next = "wait"
        /\ op[t].pc = "onceMark" => next = "free"
        /\ op[t].pc = "throwMark" => next = "unwind"
    OBVIOUS
  <1>4. op[t].pc \in {"removeMark", "onceMark", "throwMark"}
    BY DEF MarkDirty
  <1> HIDE DEF next
  <1>5. /\ op' \in [Threads \cup {Collector} -> Operation]
        /\ op'[t].pc = next /\ op'[t].arg = c
        /\ \A u \in Threads : u # t => op'[u] = op[u]
    BY <1>1, <1>2, <1>3, <1>4, StepFacts
  <1>6. TypeOK'
    BY <1>1, <1>5 DEF TypeOK, MarkDirty, vectors, history
  <1>7. OperationsOK'
    <2>1. OperationOK(t)'
      BY <1>3, <1>4, <1>5 DEF OperationOK, MarkDirty, StateInv, OperationsOK, Top
    <2> QED
      BY <1>5, <2>1, OthersOK DEF MarkDirty
  <1> QED
    BY <1>6, <1>7, CallsUnchanged DEF MarkDirty, history, StateInv, RemovedAreDone

LEMMA CollectPreserves ==
  ASSUME StateInv, Collect
  PROVE  StateInv'
  <1>1. TypeOK
    BY DEF StateInv
  <1>2. /\ op' \in [Threads \cup {Collector} -> Operation]
        /\ \A u \in Threads : op'[u] = op[u]
    <2>1. \E pc \in {"gcLock", "gcPost", "free"} : Step(Collector, pc, NoCallback)
      BY DEF Collect, CollectGarbage, PrunePre, PrunePost
    <2> QED
      BY <1>1, <2>1, StepFacts, ConstantsAssumption
  <1>3. pre' \in Seq(Callbacks) /\ post' \in Seq(Callbacks)
    BY <1>1, PrunedProperties DEF TypeOK, Collect, CollectGarbage, PrunePre, PrunePost, vectors
  <1>4. bDirty' \in BOOLEAN /\ writer' \in Threads \cup {Collector, NoThread}
    BY <1>1 DEF TypeOK, Collect, CollectGarbage, PrunePre, PrunePost
  <1>5. UNCHANGED <<cb, calls, commits, order, runs, removed, left>>
    BY DEF Collect, CollectGarbage, PrunePre, PrunePost, history
  <1>6. TypeOK'
    BY <1>1, <1>2, <1>3, <1>4, <1>5 DEF TypeOK
  <1>7. OperationsOK'
    BY <1>2, <1>5 DEF StateInv, OperationsOK, OperationOK, Top
  <1> QED
    BY <1>5, <1>6, <1>7, CallsUnchanged DEF StateInv, RemovedAreDone

\* Steps that change nothing but the invocations of a thread.
LEMMA CallsMove ==
  ASSUME StateInv, NEW t \in Threads, Free(t),
         UNCHANGED <<cb, vectors, bDirty, writer, op, history>>,
         calls' \in [Threads -> Seq(Invocation)],
         \A u \in Threads : u # t => calls'[u] = calls[u],
         Len(calls'[t]) <= MaxDepth,
         \A c \in Callbacks : Executions(c)' = Executions(c)
  PROVE  StateInv'
  <1>1. TypeOK'
    BY DEF StateInv, TypeOK, vectors, history
  <1>2. DepthBounded'
    BY DEF StateInv, DepthBounded
  <1>3. OperationsOK'
    <2>1. OperationOK(t)'
      BY DEF OperationOK, Free
    <2> QED
      BY <2>1, OthersOK
  <1>4. ExecutionsFinite' /\ ExecutorsCounted'
    BY DEF StateInv, ExecutionsFinite, ExecutorsCounted
  <1>5. RemovedAreDone'
    BY DEF StateInv, RemovedAreDone, history
  <1> QED
    BY <1>1, <1>2, <1>3, <1>4, <1>5 DEF StateInv

\* In particular of the innermost one, which stays with its callback.
LEMMA TopMoves ==
  ASSUME StateInv, NEW t \in Threads, Free(t), calls[t] # <<>>,
         UNCHANGED <<cb, vectors, bDirty, writer, op, history>>,
         NEW f \in Invocation, SetTop(t, f), f.current = Top(t).current
  PROVE  StateInv'
  <1> HIDE DEF Invocation
  <1>1. TypeOK
    BY DEF StateInv
  <1>2. /\ calls' \in [Threads -> Seq(Invocation)]
        /\ \A u \in Threads : u # t => calls'[u] = calls[u]
        /\ Len(calls'[t]) = Len(calls[t])
    BY <1>1, SetTopFacts
  <1>3. Len(calls'[t]) <= MaxDepth
    BY <1>2 DEF StateInv, DepthBounded
  <1>4. \A c \in Callbacks : Executions(c)' = Executions(c)
    BY <1>1, MovedExecutions
  <1> QED
    BY <1>2, <1>3, <1>4, CallsMove

\* An invocation that enters its next phase is an invocation.
LEMMA NextPhase ==
  ASSUME NEW f \in Invocation, NEW p \in {"original", "post"}, NEW s \in Seq(Callbacks)
  PROVE  /\ [f EXCEPT !.phase = p, !.snap = s, !.at = 1] \in Invocation
         /\ [f EXCEPT !.phase = p, !.snap = s, !.at = 1].current = f.current
  <1> DEFINE g == [f EXCEPT !.phase = p]
             h == [g EXCEPT !.snap = s]
             r == [h EXCEPT !.at = 1]
  <1>1. g \in Invocation /\ g.current = f.current
    BY DEF Invocation
  <1>2. [f EXCEPT !.phase = p, !.snap = s, !.at = 1] = r
    BY DEF Invocation
  <1> HIDE DEF g
  <1>3. h \in Invocation /\ h.current = g.current
    BY <1>1 DEF Invocation
  <1> HIDE DEF h
  <1>4. r \in Invocation /\ r.current = h.current
    BY <1>3 DEF Invocation
  <1> HIDE DEF r
  <1> QED
    BY <1>1, <1>2, <1>3, <1>4

LEMMA LoopStepPreserves ==
  ASSUME StateInv, NEW t \in Threads,
         SkipInvalid(t) \/ PreHooksDone(t) \/ OriginalReturn(t)
  PROVE  StateInv'
  <1>1. TypeOK /\ Free(t) /\ calls[t] # <<>>
    BY DEF StateInv, SkipInvalid, PreHooksDone, OriginalReturn, AtCallback, InOriginal
  <1>2. Top(t) \in Invocation
    BY <1>1, TopFacts
  <1>3. post \in Seq(Callbacks) /\ <<>> \in Seq(Callbacks)
    BY <1>1, EmptySeq DEF TypeOK
  <1>4. UNCHANGED <<cb, vectors, bDirty, writer, op, history>>
    BY DEF SkipInvalid, PreHooksDone, OriginalReturn
  <1>5. \E f \in Invocation : SetTop(t, f) /\ f.current = Top(t).current
    <2>1. /\ [Top(t) EXCEPT !.at = @ + 1] \in Invocation
          /\ [Top(t) EXCEPT !.at = @ + 1].current = Top(t).current
      BY <1>2 DEF Invocation
    <2>2. /\ [Top(t) EXCEPT !.phase = "post", !.snap = post, !.at = 1] \in Invocation
          /\ [Top(t) EXCEPT !.phase = "post", !.snap = post, !.at = 1].current = Top(t).current
      BY <1>2, <1>3, NextPhase
    <2>3. /\ [Top(t) EXCEPT !.phase = "original", !.snap = <<>>, !.at = 1] \in Invocation
          /\ [Top(t) EXCEPT !.phase = "original", !.snap = <<>>, !.at = 1].current = Top(t).current
      BY <1>2, <1>3, NextPhase
    <2> HIDE DEF Invocation
    <2> QED
      BY <2>1, <2>2, <2>3 DEF SkipInvalid, PreHooksDone, OriginalReturn
  <1> HIDE DEF Invocation
  <1> QED
    BY <1>1, <1>4, <1>5, TopMoves

LEMMA VerdictPreserves ==
  ASSUME StateInv, NEW t \in Threads, TrySetReturnValue(t) \/ PreventOriginalFunctionCall(t)
  PROVE  StateInv'
  <1>1. TypeOK /\ Free(t) /\ calls[t] # <<>>
    BY DEF StateInv, TrySetReturnValue, PreventOriginalFunctionCall, InBody
  <1>2. Top(t) \in Invocation
    BY <1>1, TopFacts
  <1>3. UNCHANGED <<cb, vectors, bDirty, writer, op, history>>
    BY DEF TrySetReturnValue, PreventOriginalFunctionCall
  <1>4. \E f \in Invocation : SetTop(t, f) /\ f.current = Top(t).current
    <2>1. /\ [Top(t) EXCEPT !.setter = Top(t).current] \in Invocation
          /\ [Top(t) EXCEPT !.setter = Top(t).current].current = Top(t).current
      BY <1>2 DEF Invocation
    <2>2. /\ [Top(t) EXCEPT !.prevented = TRUE] \in Invocation
          /\ [Top(t) EXCEPT !.prevented = TRUE].current = Top(t).current
      BY <1>2 DEF Invocation
    <2> HIDE DEF Invocation
    <2> QED
      BY <2>1, <2>2 DEF TrySetReturnValue, PreventOriginalFunctionCall
  <1> HIDE DEF Invocation
  <1> QED
    BY <1>1, <1>3, <1>4, TopMoves

\* A new invocation executes no callback yet.
LEMMA InvokePreserves ==
  ASSUME StateInv, NEW t \in Threads, Invoke(t)
  PROVE  StateInv'
  <1> DEFINE n == Len(calls[t])
             f == [phase |-> "pre", snap |-> pre, at |-> 1, current |-> NoCallback,
                   prevented |-> FALSE, setter |-> NoCallback]
  <1>1. TypeOK /\ Free(t)
    BY DEF StateInv, Invoke, Outside, InBody, InOriginal
  <1>2. calls \in [Threads -> Seq(Invocation)] /\ n \in Nat /\ DOMAIN calls[t] = 1 .. n
    BY <1>1, LenProperties DEF TypeOK
  <1>3. f \in Invocation /\ f.current = NoCallback
    BY <1>1 DEF TypeOK, Invocation
  <1>4. calls' = [calls EXCEPT ![t] = Append(calls[t], f)]
    BY DEF Invoke
  <1>5. n < MaxDepth /\ UNCHANGED <<cb, vectors, bDirty, writer, op, history>>
    BY DEF Invoke
  <1> HIDE DEF f, n, Invocation
  <1>6. /\ Append(calls[t], f) \in Seq(Invocation)
        /\ Len(Append(calls[t], f)) = n + 1
        /\ DOMAIN Append(calls[t], f) = 1 .. n + 1
        /\ \A i \in 1 .. n : Append(calls[t], f)[i] = calls[t][i]
        /\ Append(calls[t], f)[n + 1] = f
    BY <1>2, <1>3, AppendProperties, LenProperties DEF n
  <1>7. /\ calls'[t] = Append(calls[t], f)
        /\ \A u \in Threads : u # t => calls'[u] = calls[u]
        /\ calls' \in [Threads -> Seq(Invocation)]
    BY <1>2, <1>4, <1>6
  <1>8. Len(calls'[t]) <= MaxDepth
    BY <1>2, <1>5, <1>6, <1>7, ConstantsAssumption
  <1>9. \A c \in Callbacks : Executions(c)' = Executions(c)
    <2> SUFFICES ASSUME NEW c \in Callbacks PROVE Executions(c)' = Executions(c)
      OBVIOUS
    <2>1. f.current # c
      BY <1>3, ConstantsAssumption
    <2>2. \A i \in 1 .. MaxDepth : (i \in DOMAIN calls'[t] /\ calls'[t][i].current = c)
                                     <=> (i \in DOMAIN calls[t] /\ calls[t][i].current = c)
      BY <1>2, <1>6, <1>7, <2>1
    <2> QED
      BY <1>7, <2>2, SameExecutions
  <1> QED
    BY <1>1, <1>5, <1>7, <1>8, <1>9, CallsMove

\* An invocation that returns has no callback executing any more.
LEMMA InvokeReturnPreserves ==
  ASSUME StateInv, NEW t \in Threads, InvokeReturn(t)
  PROVE  StateInv'
  <1> DEFINE n == Len(calls[t])
             r == SubSeq(calls[t], 1, n - 1)
  <1>1. TypeOK /\ Free(t) /\ calls[t] # <<>> /\ Top(t).current = NoCallback
    BY DEF StateInv, InvokeReturn, AtCallback
  <1>2. calls \in [Threads -> Seq(Invocation)]
    BY <1>1 DEF TypeOK
  <1>3. n \in Nat \ {0} /\ DOMAIN calls[t] = 1 .. n /\ n <= MaxDepth
    BY <1>1, TopFacts DEF StateInv, DepthBounded
  <1>4. calls' = [calls EXCEPT ![t] = r]
    BY DEF InvokeReturn
  <1>5. UNCHANGED <<cb, vectors, bDirty, writer, op, history>>
    BY DEF InvokeReturn
  <1>6. calls[t][n].current = NoCallback
    BY <1>1 DEF Top
  <1> HIDE DEF n, Invocation
  <1>7. /\ r \in Seq(Invocation)
        /\ Len(r) = n - 1
        /\ \A i \in 1 .. n - 1 : r[i] = calls[t][i]
    BY <1>2, <1>3, SubSeqProperties DEF n
  <1> HIDE DEF r
  <1>8. DOMAIN r = 1 .. n - 1
    BY <1>7, LenProperties
  <1>9. /\ calls'[t] = r
        /\ \A u \in Threads : u # t => calls'[u] = calls[u]
        /\ calls' \in [Threads -> Seq(Invocation)]
    BY <1>2, <1>4, <1>7
  <1>10. Len(calls'[t]) <= MaxDepth
    BY <1>3, <1>7, <1>9, ConstantsAssumption
  <1>11. \A c \in Callbacks : Executions(c)' = Executions(c)
    <2> SUFFICES ASSUME NEW c \in Callbacks PROVE Executions(c)' = Executions(c)
      OBVIOUS
    <2>1. calls[t][n].current # c
      BY <1>6, ConstantsAssumption
    <2>2. \A i \in 1 .. MaxDepth : (i \in DOMAIN calls'[t] /\ calls'[t][i].current = c)
                                     <=> (i \in DOMAIN calls[t] /\ calls[t][i].current = c)
      BY <1>3, <1>7, <1>8, <1>9, <2>1
    <2> QED
      BY <1>9, <2>2, SameExecutions
  <1> QED
    BY <1>1, <1>5, <1>9, <1>10, <1>11, CallsMove

\* TryBeginExecution: the callback was valid, so nobody removed it.
LEMMA TryBeginPreserves ==
  ASSUME StateInv, NEW t \in Threads, TryBeginExecution(t)
  PROVE  StateInv'
  <1>1. TypeOK /\ Free(t) /\ calls[t] # <<>> /\ Top(t).current = NoCallback
    BY DEF StateInv, TryBeginExecution, AtCallback
  <1>2. Top(t) \in Invocation
    BY <1>1, TopFacts
  <1>3. PICK c \in Callbacks : c = Top(t).snap[Top(t).at]
    <2>1. Top(t).snap \in Seq(Callbacks) /\ Top(t).at \in Nat \ {0}
      BY <1>2 DEF Invocation
    <2>2. Top(t).at <= Len(Top(t).snap)
      BY DEF TryBeginExecution
    <2>3. Top(t).snap[Top(t).at] \in Callbacks
      BY <2>1, <2>2, ElementOfSeq, LenProperties
    <2> QED
      BY <2>3
  <1> DEFINE f == [Top(t) EXCEPT !.current = c]
             m == [cb[c] EXCEPT !.executors = @ + 1, !.invalid = cb[c].once]
  <1>4. /\ ~cb[c].invalid
        /\ cb' = [cb EXCEPT ![c].executors = @ + 1, ![c].invalid = cb[c].once]
        /\ SetTop(t, f)
        /\ runs' = [runs EXCEPT ![c] = IF cb[c].once /\ @ < 2 THEN @ + 1 ELSE @]
        /\ IF cb[c].once THEN Step(t, "onceMark", NoCallback) ELSE UNCHANGED op
    BY <1>3 DEF TryBeginExecution
  <1>5. f \in Invocation /\ f.current = c
    BY <1>2, <1>3 DEF Invocation
  <1>6. cb \in [Callbacks -> Metadata]
    BY <1>1 DEF TypeOK
  <1>7. /\ m \in Metadata
        /\ m.executors = cb[c].executors + 1
    <2> DEFINE g == [cb[c] EXCEPT !.executors = @ + 1]
    <2>1. g \in Metadata /\ g.executors = cb[c].executors + 1
      BY <1>3, <1>6 DEF Metadata
    <2>2. cb[c].once \in BOOLEAN
      BY <1>3, <1>6 DEF Metadata
    <2>3. m = [g EXCEPT !.invalid = cb[c].once]
      BY <1>3, <1>6 DEF Metadata
    <2> HIDE DEF g
    <2>4. /\ [g EXCEPT !.invalid = cb[c].once] \in Metadata
          /\ [g EXCEPT !.invalid = cb[c].once].executors = g.executors
      BY <2>1, <2>2 DEF Metadata
    <2> HIDE DEF m
    <2> QED
      BY <2>1, <2>3, <2>4
  <1>8. cb' = [cb EXCEPT ![c] = m]
    BY <1>4, <1>6
  <1> HIDE DEF f, m, Metadata, Invocation
  <1>9. /\ cb' \in [Callbacks -> Metadata]
        /\ \A d \in Callbacks : d # c => cb'[d] = cb[d]
        /\ cb'[c] = m
    BY <1>3, <1>6, <1>7, <1>8
  <1>10. ExecutionsFinite' /\ ExecutorsCounted'
    <2>1. \A d \in Callbacks : cb'[d].executors =
             IF d = f.current THEN cb[d].executors + 1 ELSE cb[d].executors
      BY <1>5, <1>7, <1>9
    <2>2. f.current \in Callbacks
      BY <1>3, <1>5
    <2> QED
      BY <1>1, <1>4, <1>5, <2>1, <2>2, ExecutionBegins
  <1>11. /\ calls' \in [Threads -> Seq(Invocation)]
         /\ \A u \in Threads : u # t => calls'[u] = calls[u]
         /\ \A u \in Threads : Len(calls'[u]) = Len(calls[u])
         /\ Top(t)' = f /\ calls'[t] # <<>>
    BY <1>1, <1>4, <1>5, SetTopFacts
  <1>12. /\ op' \in [Threads \cup {Collector} -> Operation]
         /\ op'[t].pc \in {"free", "onceMark"}
         /\ \A u \in Threads : u # t => op'[u] = op[u]
    <2>1. CASE cb[c].once
      BY <1>1, <1>4, <2>1, StepFacts
    <2>2. CASE ~cb[c].once
      BY <1>1, <1>4, <2>2 DEF Free, TypeOK
    <2> QED
      BY <2>1, <2>2
  <1>13. runs' \in [Callbacks -> 0 .. 2]
    <2>1. runs \in [Callbacks -> 0 .. 2]
      BY <1>1 DEF TypeOK
    <2>2. (IF cb[c].once /\ runs[c] < 2 THEN runs[c] + 1 ELSE runs[c]) \in 0 .. 2
      BY <1>3, <2>1
    <2> QED
      BY <1>3, <1>4, <2>1, <2>2
  <1>14. TypeOK'
    BY <1>1, <1>9, <1>11, <1>12, <1>13 DEF TypeOK, TryBeginExecution, vectors
  <1>15. DepthBounded'
    BY <1>11 DEF StateInv, DepthBounded
  <1>16. OperationsOK'
    <2>1. OperationOK(t)'
      BY <1>3, <1>5, <1>11, <1>12 DEF OperationOK
    <2> QED
      BY <1>4, <1>9, <1>11, <1>12, <2>1, OthersOK
  <1>17. RemovedAreDone'
    <2>1. c \notin removed /\ removed' = removed
      BY <1>4 DEF StateInv, RemovedAreDone, TryBeginExecution
    <2> QED
      BY <1>1, <1>9, <2>1 DEF StateInv, RemovedAreDone, TypeOK
  <1> QED
    BY <1>10, <1>14, <1>15, <1>16, <1>17 DEF StateInv

\* EndExecution, after a return or in the handler of an exception.
LEMMA EndPreserves ==
  ASSUME StateInv, NEW t \in Threads, CallbackReturn(t) \/ Unwind(t)
  PROVE  StateInv'
  <1>1. TypeOK /\ calls[t] # <<>> /\ Top(t).current # NoCallback
    <2>1. CASE CallbackReturn(t)
      BY <2>1 DEF StateInv, CallbackReturn, InBody
    <2>2. CASE Unwind(t)
      BY <2>2, ConstantsAssumption DEF StateInv, Unwind, OperationsOK, OperationOK
    <2> QED
      BY <2>1, <2>2
  <1>2. Top(t) \in Invocation
    BY <1>1, TopFacts
  <1>3. PICK c \in Callbacks : c = Top(t).current
    BY <1>1, <1>2 DEF Invocation
  <1> DEFINE m == [cb[c] EXCEPT !.executors = @ - 1]
  <1>4. PICK f \in Invocation : SetTop(t, f) /\ f.current = NoCallback
    <2>0. \A k \in Nat \ {0} :
             /\ [Top(t) EXCEPT !.current = NoCallback, !.at = k] \in Invocation
             /\ [Top(t) EXCEPT !.current = NoCallback, !.at = k].current = NoCallback
      <3> TAKE k \in Nat \ {0}
      <3> DEFINE g == [Top(t) EXCEPT !.current = NoCallback]
      <3>1. g \in Invocation /\ g.current = NoCallback
        BY <1>2 DEF Invocation
      <3>2. [Top(t) EXCEPT !.current = NoCallback, !.at = k] = [g EXCEPT !.at = k]
        BY <1>2 DEF Invocation
      <3> HIDE DEF g
      <3>3. [g EXCEPT !.at = k] \in Invocation /\ [g EXCEPT !.at = k].current = g.current
        BY <3>1 DEF Invocation
      <3> QED
        BY <3>1, <3>2, <3>3
    <2>1. /\ [Top(t) EXCEPT !.current = NoCallback, !.at = @ + 1] \in Invocation
          /\ [Top(t) EXCEPT !.current = NoCallback, !.at = @ + 1].current = NoCallback
      <3>1. Top(t).at + 1 \in Nat \ {0}
        BY <1>2 DEF Invocation
      <3> QED
        BY <2>0, <3>1
    <2>2. Len(Top(t).snap) + 1 \in Nat \ {0}
      BY <1>2, LenProperties DEF Invocation
    <2>3. /\ [Top(t) EXCEPT !.current = NoCallback, !.at = Len(Top(t).snap) + 1] \in Invocation
          /\ [Top(t) EXCEPT !.current = NoCallback, !.at = Len(Top(t).snap) + 1].current = NoCallback
      BY <2>0, <2>2
    <2> HIDE DEF Invocation
    <2> QED
      BY <2>1, <2>3 DEF CallbackReturn, Unwind
  <1>5. cb' = [cb EXCEPT ![c].executors = @ - 1]
    BY <1>3 DEF CallbackReturn, Unwind
  <1>6. cb[c].executors \in Nat \ {0} /\ cb \in [Callbacks -> Metadata]
    BY <1>1, <1>3, TopIsCounted DEF TypeOK
  <1>7. /\ m \in Metadata
        /\ m.executors = cb[c].executors - 1 /\ m.invalid = cb[c].invalid
    BY <1>3, <1>6 DEF Metadata
  <1> HIDE DEF Invocation
  <1>8. cb' = [cb EXCEPT ![c] = m]
    BY <1>5, <1>6
  <1> HIDE DEF m, Metadata
  <1>9. /\ cb' \in [Callbacks -> Metadata]
        /\ \A d \in Callbacks : d # c => cb'[d] = cb[d]
        /\ cb'[c] = m
    BY <1>3, <1>6, <1>7, <1>8
  <1>10. ExecutionsFinite' /\ ExecutorsCounted'
    BY <1>1, <1>3, <1>4, <1>7, <1>9, ExecutionEnds
  <1>11. /\ calls' \in [Threads -> Seq(Invocation)]
         /\ \A u \in Threads : u # t => calls'[u] = calls[u]
         /\ \A u \in Threads : Len(calls'[u]) = Len(calls[u])
    BY <1>1, <1>4, SetTopFacts
  <1>12. /\ op' \in [Threads \cup {Collector} -> Operation]
         /\ op'[t].pc = "free"
         /\ \A u \in Threads : u # t => op'[u] = op[u]
    <2>1. CASE CallbackReturn(t)
      BY <1>1, <2>1 DEF CallbackReturn, InBody, Free, TypeOK
    <2>2. CASE Unwind(t)
      <3>1. Step(t, "free", NoCallback)
        BY <2>2 DEF Unwind
      <3> QED
        BY <1>1, <3>1, StepFacts
    <2> QED
      BY <2>1, <2>2
  <1>13. UNCHANGED <<vectors, bDirty, writer, history>>
    BY DEF CallbackReturn, Unwind
  <1>14. TypeOK'
    BY <1>1, <1>9, <1>11, <1>12, <1>13 DEF TypeOK, vectors, history
  <1>15. DepthBounded'
    BY <1>11 DEF StateInv, DepthBounded
  <1>16. OperationsOK'
    <2>1. OperationOK(t)'
      BY <1>12 DEF OperationOK
    <2> QED
      BY <1>7, <1>9, <1>11, <1>12, <2>1, OthersOK
  <1>17. RemovedAreDone'
    <2>1. c \notin removed /\ removed' = removed
      BY <1>6, <1>13 DEF StateInv, RemovedAreDone, history
    <2> QED
      BY <1>1, <1>9, <2>1 DEF StateInv, RemovedAreDone, TypeOK
  <1> QED
    BY <1>10, <1>14, <1>15, <1>16, <1>17 DEF StateInv

\* A callback throws or removes itself: it stays counted.
LEMMA BodyInvalidates ==
  ASSUME StateInv, NEW t \in Threads, CallbackThrow(t) \/ RemoveSelf(t)
  PROVE  StateInv'
  <1>1. TypeOK /\ Free(t) /\ calls[t] # <<>> /\ Top(t).current # NoCallback
    BY DEF StateInv, CallbackThrow, RemoveSelf, InBody
  <1>2. Top(t) \in Invocation
    BY <1>1, TopFacts
  <1>3. PICK c \in Callbacks : c = Top(t).current
    BY <1>1, <1>2 DEF Invocation
  <1>4. cb' = [cb EXCEPT ![c].invalid = TRUE]
    BY <1>3 DEF CallbackThrow, RemoveSelf
  <1>5. /\ cb' \in [Callbacks -> Metadata]
        /\ \A d \in Callbacks : cb'[d].executors = cb[d].executors
                                /\ (cb[d].invalid => cb'[d].invalid)
    BY <1>1, <1>3, <1>4, Invalidated
  <1>6. UNCHANGED <<calls, vectors, bDirty, writer, commits, order, runs, removed>>
    BY DEF CallbackThrow, RemoveSelf, history
  <1>7. left' \in SUBSET Callbacks
    BY <1>1, <1>3 DEF CallbackThrow, RemoveSelf, history, TypeOK
  <1>8. /\ op' \in [Threads \cup {Collector} -> Operation]
        /\ op'[t].pc \in {"free", "throwMark", "unwind"}
        /\ \A u \in Threads : u # t => op'[u] = op[u]
    <2>1. CASE CallbackThrow(t)
      <3>1. PICK pc \in {"throwMark", "unwind"} : Step(t, pc, NoCallback)
        BY <2>1 DEF CallbackThrow
      <3> QED
        BY <1>1, <3>1, StepFacts
    <2>2. CASE RemoveSelf(t)
      BY <1>1, <2>2 DEF RemoveSelf, Free, TypeOK
    <2> QED
      BY <2>1, <2>2
  <1>9. TypeOK'
    BY <1>1, <1>5, <1>6, <1>7, <1>8 DEF TypeOK, vectors
  <1>10. OperationsOK'
    <2>1. OperationOK(t)'
      BY <1>1, <1>3, <1>6, <1>8 DEF OperationOK, Top
    <2> QED
      BY <1>5, <1>6, <1>8, <2>1, OthersOK
  <1>11. RemovedAreDone'
    BY <1>1, <1>5, <1>6 DEF StateInv, RemovedAreDone, TypeOK
  <1> QED
    BY <1>5, <1>6, <1>9, <1>10, <1>11, CallsUnchanged

LEMMA StateInvNext == StateInv /\ [Next]_vars => StateInv'
  <1> SUFFICES ASSUME StateInv, [Next]_vars PROVE StateInv'
    OBVIOUS
  <1>1. ASSUME NEW t \in Threads, Register(t) PROVE StateInv'
    BY <1>1, AddCallbackPreserves DEF Register
  <1>2. ASSUME NEW t \in Threads, Unregister(t) PROVE StateInv'
    BY <1>2, RemoveCallbackPreserves DEF Unregister
  <1>3. ASSUME NEW t \in Threads, Invoke(t) PROVE StateInv'
    BY <1>3, InvokePreserves
  <1>4. ASSUME NEW t \in Threads, Advance(t) PROVE StateInv'
    BY <1>4, CommitCallbackPreserves, RemoveInvalidatePreserves, RemoveReturnPreserves,
       MarkDirtyPreserves, LoopStepPreserves, TryBeginPreserves, EndPreserves,
       InvokeReturnPreserves DEF Advance
  <1>5. ASSUME NEW t \in Threads, OriginalReturn(t) PROVE StateInv'
    BY <1>5, LoopStepPreserves
  <1>6. ASSUME NEW t \in Threads, CallbackEnds(t) PROVE StateInv'
    BY <1>6, EndPreserves, BodyInvalidates DEF CallbackEnds
  <1>7. ASSUME NEW t \in Threads, TrySetReturnValue(t) \/ PreventOriginalFunctionCall(t)
        PROVE  StateInv'
    BY <1>7, VerdictPreserves
  <1>8. ASSUME NEW t \in Threads, RemoveSelf(t) PROVE StateInv'
    BY <1>8, BodyInvalidates
  <1>9. CASE Collect
    BY <1>9, CollectPreserves
  <1>10. CASE UNCHANGED vars
    <2>1. \A c \in Callbacks : Executions(c)' = Executions(c)
      BY <1>10 DEF Executions, vars
    <2>2. TypeOK'
      BY <1>10 DEF StateInv, TypeOK, vars
    <2>3. OperationsOK' /\ RemovedAreDone'
      BY <1>10 DEF StateInv, OperationsOK, OperationOK, RemovedAreDone, Top, vars
    <2> QED
      BY <1>10, <2>2, <2>3, CallsUnchanged DEF vars
  <1> QED
    BY <1>1, <1>2, <1>3, <1>4, <1>5, <1>6, <1>7, <1>8, <1>9, <1>10 DEF Next

\* Every reachable state satisfies the invariant about the State and its count.
THEOREM StateInvariant == Spec => []StateInv
  <1> QED
    BY StateInvInit, StateInvNext, PTL DEF Spec

\* Every variable of a detour keeps its type.
THEOREM TypeCorrect == Spec => []TypeOK
  <1>1. StateInv => TypeOK
    BY DEF StateInv
  <1> QED
    BY <1>1, StateInvariant, PTL

\* The count of executors that WaitForExecutorsToFinish looks at is the number
\* of executions in progress, whatever interleaving, nesting or exception.
THEOREM CountIsExact == Spec => []ExecutorsCounted
  <1>1. StateInv => ExecutorsCounted
    BY DEF StateInv
  <1> QED
    BY <1>1, StateInvariant, PTL

\* After RemoveCallback returned true nobody is in the callback, and nobody
\* will be.
THEOREM RemovalIsFinal == Spec => []RemovedIsQuiet
  <1>1. StateInv => RemovedIsQuiet
    <2> SUFFICES ASSUME StateInv, NEW c \in removed,
                        NEW t \in Threads, NEW i \in DOMAIN calls[t], calls[t][i].current = c
                 PROVE  FALSE
      BY DEF RemovedIsQuiet, StateInv, RemovedAreDone
    <2>1. c \in Callbacks /\ cb[c].executors = 0
      BY DEF StateInv, TypeOK, RemovedAreDone
    <2>2. IsFiniteSet(Executions(c)) /\ Cardinality(Executions(c)) = 0
      BY <2>1 DEF StateInv, ExecutionsFinite, ExecutorsCounted
    <2>3. Executions(c) = {}
      BY <2>2, FS_EmptySet
    <2>4. calls[t] # <<>> /\ i \in 1 .. MaxDepth
      <3>1. calls[t] \in Seq(Invocation)
        BY DEF StateInv, TypeOK
      <3>2. i \in 1 .. Len(calls[t]) /\ Len(calls[t]) \in Nat
        BY <3>1, LenProperties
      <3> QED
        BY <3>1, <3>2, EmptySeq, ConstantsAssumption DEF StateInv, DepthBounded
    <2>5. <<t, i>> \in Executions(c)
      BY <2>4 DEF Executions
    <2> QED
      BY <2>3, <2>5
  <1> QED
    BY <1>1, StateInvariant, PTL

-----------------------------------------------------------------------------
(* Once callbacks.                                                          *)

\* Whoever begins a once callback has invalidated it.
OnceInv ==
    \A c \in Callbacks :
        /\ runs[c] <= 1
        /\ runs[c] > 0 => cb[c].once /\ cb[c].invalid
        /\ cb[c].once => cb[c].type # "none"

LEMMA OnceInvInit == Init => OnceInv
  BY DEF Init, OnceInv

LEMMA OnceInvNext == TypeOK /\ OnceInv /\ [Next]_vars => OnceInv'
  <1> SUFFICES ASSUME TypeOK, OnceInv, [Next]_vars PROVE OnceInv'
    OBVIOUS
  <1> DEFINE Kept == /\ runs' = runs
                     /\ \A c \in Callbacks : /\ cb'[c].once = cb[c].once
                                             /\ cb'[c].type = cb[c].type
                                             /\ cb[c].invalid => cb'[c].invalid
  <1>1. ASSUME Kept PROVE OnceInv'
    BY <1>1 DEF OnceInv
  <1>2. cb \in [Callbacks -> Metadata] /\ runs \in [Callbacks -> 0 .. 2]
    BY DEF TypeOK
  <1>3. ASSUME NEW t \in Threads, NEW c \in Callbacks, NEW o \in Options, AddCallback(t, c, o)
        PROVE  OnceInv'
    <2> DEFINE m == [cb[c] EXCEPT !.type = o.type, !.once = o.once, !.readonly = o.readonly]
    <2>1. /\ cb[c].type = "none" /\ runs' = runs
          /\ cb' = [cb EXCEPT ![c].type = o.type, ![c].once = o.once, ![c].readonly = o.readonly]
      BY <1>3 DEF AddCallback, history
    <2>2. cb' = [cb EXCEPT ![c] = m]
      BY <1>2, <2>1
    <2>3. m.type # "none"
      BY <1>2, ConstantsAssumption DEF Metadata
    <2> HIDE DEF m
    <2>4. runs[c] = 0
      BY <1>2, <2>1 DEF OnceInv
    <2>5. cb'[c] = m /\ \A d \in Callbacks : d # c => cb'[d] = cb[d]
      BY <1>2, <2>2
    <2> QED
      BY <1>2, <2>1, <2>3, <2>4, <2>5 DEF OnceInv
  <1>4. ASSUME NEW t \in Threads, TryBeginExecution(t) PROVE OnceInv'
    <2> DEFINE c == Top(t).snap[Top(t).at]
               m == [cb[c] EXCEPT !.executors = @ + 1, !.invalid = cb[c].once]
    <2>1. c \in Callbacks
      <3>1. Top(t) \in Invocation
        BY <1>4, TopFacts DEF TryBeginExecution, AtCallback
      <3>2. Top(t).snap \in Seq(Callbacks) /\ Top(t).at \in Nat \ {0}
        BY <3>1 DEF Invocation
      <3>3. Top(t).at <= Len(Top(t).snap)
        BY <1>4 DEF TryBeginExecution
      <3> QED
        BY <3>2, <3>3, ElementOfSeq, LenProperties
    <2>2. /\ ~cb[c].invalid
          /\ cb' = [cb EXCEPT ![c].executors = @ + 1, ![c].invalid = cb[c].once]
          /\ runs' = [runs EXCEPT ![c] = IF cb[c].once /\ @ < 2 THEN @ + 1 ELSE @]
      BY <1>4 DEF TryBeginExecution
    <2> HIDE DEF c
    <2>3. cb' = [cb EXCEPT ![c] = m]
      BY <1>2, <2>2
    <2>4. m.once = cb[c].once /\ m.type = cb[c].type /\ m.invalid = cb[c].once
      BY <1>2, <2>1 DEF Metadata
    <2> HIDE DEF m
    <2>5. cb'[c] = m /\ \A d \in Callbacks : d # c => cb'[d] = cb[d]
      BY <1>2, <2>1, <2>3
    <2>6. runs[c] = 0
      BY <1>2, <2>1, <2>2 DEF OnceInv
    <2>7. /\ runs'[c] = IF cb[c].once THEN 1 ELSE 0
          /\ \A d \in Callbacks : d # c => runs'[d] = runs[d]
      BY <1>2, <2>1, <2>2, <2>6
    <2> QED
      BY <2>1, <2>4, <2>5, <2>7 DEF OnceInv
  <1>5. ASSUME NEW t \in Threads, RemoveInvalidate(t) \/ CallbackThrow(t) \/ RemoveSelf(t)
        PROVE  OnceInv'
    <2>1. runs' = runs /\ \E c : cb' = [cb EXCEPT ![c].invalid = TRUE]
      BY <1>5 DEF RemoveInvalidate, CallbackThrow, RemoveSelf, history
    <2>2. Kept
      BY <1>2, <2>1 DEF Metadata
    <2> QED
      BY <1>1, <2>2
  <1>6. ASSUME NEW t \in Threads, CallbackReturn(t) \/ Unwind(t) PROVE OnceInv'
    <2>1. runs' = runs /\ \E c : cb' = [cb EXCEPT ![c].executors = @ - 1]
      BY <1>6 DEF CallbackReturn, Unwind, history
    <2>2. Kept
      BY <1>2, <2>1 DEF Metadata
    <2> QED
      BY <1>1, <2>2
  <1>7. ASSUME UNCHANGED <<cb, runs>> PROVE OnceInv'
    BY <1>7 DEF OnceInv
  <1>8. ASSUME NEW t \in Threads,
               \/ CommitCallback(t) \/ RemoveReturn(t) \/ MarkDirty(t) \/ SkipInvalid(t)
               \/ PreHooksDone(t) \/ InvokeReturn(t) \/ Unregister(t) \/ Invoke(t)
               \/ OriginalReturn(t) \/ TrySetReturnValue(t) \/ PreventOriginalFunctionCall(t)
        PROVE  UNCHANGED <<cb, runs>>
    BY <1>8 DEF CommitCallback, RemoveReturn, MarkDirty, SkipInvalid, PreHooksDone, InvokeReturn,
                Unregister, RemoveCallback, Invoke, OriginalReturn, TrySetReturnValue,
                PreventOriginalFunctionCall, history
  <1>9. Collect \/ UNCHANGED vars => UNCHANGED <<cb, runs>>
    BY DEF Collect, CollectGarbage, PrunePre, PrunePost, history, vars
  <1> HIDE DEF Kept
  <1> QED
    BY <1>3, <1>4, <1>5, <1>6, <1>7, <1>8, <1>9 DEF Next, Register, Advance, CallbackEnds

\* A once callback runs once, however many threads are in the function.
THEOREM OnceIsClaimed == Spec => []OnceRunsOnce
  <1>1. OnceInv => OnceRunsOnce
    BY DEF OnceInv, OnceRunsOnce
  <1> QED
    BY <1>1, OnceInvInit, OnceInvNext, TypeCorrect, PTL DEF Spec
=============================================================================
