------------------------- MODULE ResultCacheProofs -------------------------
(***************************************************************************)
(* The map and the slice of ResultCache stay in step and within capacity,  *)
(* for every set of keys, capacity, TTL and horizon.                       *)
(***************************************************************************)
EXTENDS ResultCache, TLAPS, SequenceTheorems, FiniteSetTheorems

\* A sequence lists each of its elements once.
Once(s) == \A i, j \in 1 .. Len(s) : s[i] = s[j] => i = j

Listed(s) == {s[i] : i \in 1 .. Len(s)}

\* Position by position, what a list is without its p-th element.
LEMMA RemoveAtIs ==
  ASSUME NEW S, NEW s \in Seq(S), NEW p \in 1 .. Len(s)
  PROVE  /\ RemoveAt(s, p) \in Seq(S) /\ Len(RemoveAt(s, p)) = Len(s) - 1
         /\ \A i \in 1 .. Len(s) - 1 :
              RemoveAt(s, p)[i] = IF i < p THEN s[i] ELSE s[i + 1]
<1> DEFINE a == SubSeq(s, 1, p - 1)
           b == SubSeq(s, p + 1, Len(s))
           t == RemoveAt(s, p)
<1>0. Len(s) \in Nat /\ \A i \in 1 .. Len(s) : s[i] \in S
  BY LenProperties, ElementOfSeq
<1>1. a \in Seq(S) /\ Len(a) = p - 1 /\ \A i \in 1 .. p - 1 : a[i] = s[i]
  BY <1>0, SubSeqProperties
<1>2. /\ b \in Seq(S) /\ Len(b) = Len(s) - p
      /\ \A i \in 1 .. Len(s) - p : b[i] = s[p + i]
  BY <1>0, SubSeqProperties
<1>3. /\ t \in Seq(S) /\ Len(t) = Len(s) - 1
      /\ \A i \in 1 .. Len(s) - 1 : t[i] = IF i < p THEN s[i] ELSE s[i + 1]
  <2>1. t = a \o b
    BY DEF RemoveAt
  <2> HIDE DEF a, b, t
  <2>2. /\ a \o b \in Seq(S)
        /\ Len(a \o b) = Len(a) + Len(b)
        /\ \A i \in 1 .. Len(a) + Len(b) :
             (a \o b)[i] = IF i <= Len(a) THEN a[i] ELSE b[i - Len(a)]
    BY <1>1, <1>2, ConcatProperties
  <2>3. ASSUME NEW i \in 1 .. Len(s) - 1
        PROVE  t[i] = IF i < p THEN s[i] ELSE s[i + 1]
    <3>1. CASE i < p
      BY <1>0, <1>1, <1>2, <2>1, <2>2, <3>1
    <3>2. CASE i >= p
      <4> DEFINE q == i - (p - 1)
      <4>1. q \in 1 .. Len(s) - p /\ p + q = i + 1
        BY <1>0, <3>2
      <4>2. t[i] = b[q]
        BY <1>0, <1>1, <1>2, <2>1, <2>2, <3>2
      <4>3. b[q] = s[i + 1]
        BY <1>2, <4>1
      <4> QED
        BY <1>0, <3>2, <4>2, <4>3
    <3> QED
      BY <3>1, <3>2, <1>0
  <2> QED
    BY <1>0, <1>1, <1>2, <2>1, <2>2, <2>3
<1> QED
  BY <1>3 DEF t

\* Removing one position of a list without repetitions: the rest is still
\* without repetitions and only that element is gone.
LEMMA RemoveOnce ==
  ASSUME NEW S, NEW s \in Seq(S), Once(s), NEW p \in 1 .. Len(s)
  PROVE  /\ RemoveAt(s, p) \in Seq(S)
         /\ Once(RemoveAt(s, p))
         /\ Listed(RemoveAt(s, p)) = Listed(s) \ {s[p]}
<1> DEFINE t == RemoveAt(s, p)
<1>0. Len(s) \in Nat /\ \A i \in 1 .. Len(s) : s[i] \in S
  BY LenProperties, ElementOfSeq
<1>3. /\ t \in Seq(S) /\ Len(t) = Len(s) - 1
      /\ \A i \in 1 .. Len(s) - 1 : t[i] = IF i < p THEN s[i] ELSE s[i + 1]
  BY RemoveAtIs
<1> HIDE DEF t
<1>4. Once(t)
  <2>1. ASSUME NEW i \in 1 .. Len(t), NEW j \in 1 .. Len(t), t[i] = t[j]
        PROVE  i = j
    <3>1. PICK a \in 1 .. Len(s) : t[i] = s[a] /\ a = IF i < p THEN i ELSE i + 1
      BY <1>0, <1>3
    <3>2. PICK b \in 1 .. Len(s) : t[j] = s[b] /\ b = IF j < p THEN j ELSE j + 1
      BY <1>0, <1>3
    <3>3. a = b
      BY <2>1, <3>1, <3>2 DEF Once
    <3> QED
      BY <1>0, <3>1, <3>2, <3>3
  <2> QED
    BY <2>1 DEF Once
<1>5. Listed(t) = Listed(s) \ {s[p]}
  <2>1. ASSUME NEW i \in 1 .. Len(t)
        PROVE  t[i] \in Listed(s) \ {s[p]}
    BY <1>0, <1>3 DEF Once, Listed
  <2>2. ASSUME NEW j \in 1 .. Len(s), j # p
        PROVE  s[j] \in Listed(t)
    <3>1. CASE j < p
      <4>1. j \in 1 .. Len(t) /\ t[j] = s[j]
        BY <1>0, <1>3, <3>1
      <4> QED
        BY <4>1 DEF Listed
    <3>2. CASE j > p
      <4>1. j - 1 \in 1 .. Len(t) /\ t[j - 1] = s[j]
        BY <1>0, <1>3, <3>2
      <4> QED
        BY <4>1 DEF Listed
    <3> QED
      BY <2>2, <3>1, <3>2
  <2> QED
    BY <2>1, <2>2 DEF Listed
<1> QED
  BY <1>3, <1>4, <1>5 DEF t

\* Appending a new element at the most-recent end.
LEMMA AppendOnce ==
  ASSUME NEW S, NEW s \in Seq(S), Once(s), NEW k \in S, k \notin Listed(s)
  PROVE  /\ Append(s, k) \in Seq(S)
         /\ Once(Append(s, k))
         /\ Listed(Append(s, k)) = Listed(s) \cup {k}
<1> DEFINE t == Append(s, k)
<1>1. /\ t \in Seq(S) /\ Len(s) \in Nat /\ Len(t) = Len(s) + 1
      /\ \A i \in 1 .. Len(s) : t[i] = s[i]
      /\ t[Len(s) + 1] = k
  BY AppendProperties, LenProperties
<1> HIDE DEF t
<1>2. Once(t)
  BY <1>1 DEF Once, Listed
<1>3. Listed(t) = Listed(s) \cup {k}
  <2>1. ASSUME NEW i \in 1 .. Len(t) PROVE t[i] \in Listed(s) \cup {k}
    BY <1>1 DEF Listed
  <2>2. ASSUME NEW i \in 1 .. Len(s) PROVE s[i] \in Listed(t)
    <3>1. i \in 1 .. Len(t) /\ t[i] = s[i]
      BY <1>1
    <3> QED
      BY <3>1 DEF Listed
  <2>3. k \in Listed(t)
    <3>1. Len(s) + 1 \in 1 .. Len(t)
      BY <1>1
    <3> QED
      BY <1>1, <3>1 DEF Listed
  <2> QED
    BY <2>1, <2>2, <2>3 DEF Listed
<1> QED
  BY <1>1, <1>2, <1>3 DEF t

\* Dropping the least recent element (evictLocked).
LEMMA TailOnce ==
  ASSUME NEW S, NEW s \in Seq(S), Once(s), s # <<>>
  PROVE  /\ Tail(s) \in Seq(S)
         /\ Once(Tail(s))
         /\ Head(s) \in Listed(s)
         /\ Listed(Tail(s)) = Listed(s) \ {Head(s)}
<1>0. Len(s) \in Nat \ {0} /\ Head(s) = s[1]
  BY EmptySeq
<1>1. RemoveAt(s, 1) = Tail(s)
  <2>1. SubSeq(s, 1, 0) = <<>>
    BY SubSeqEmpty
  <2>2. SubSeq(s, 2, Len(s)) = Tail(s)
    BY TailIsSubSeq
  <2>3. Tail(s) \in Seq(S)
    BY HeadTailProperties
  <2>4. <<>> \o Tail(s) = Tail(s)
    BY <2>3, ConcatEmptySeq
  <2> QED
    BY <2>1, <2>2, <2>4 DEF RemoveAt
<1>2. 1 \in 1 .. Len(s)
  BY <1>0
<1>3. Head(s) \in Listed(s)
  BY <1>0, <1>2 DEF Listed
<1>4. /\ RemoveAt(s, 1) \in Seq(S)
      /\ Once(RemoveAt(s, 1))
      /\ Listed(RemoveAt(s, 1)) = Listed(s) \ {s[1]}
  BY <1>2, RemoveOnce
<1> QED
  BY <1>0, <1>1, <1>3, <1>4

----------------------------------------------------------------------------
\* Coherent says that the slice lists the keys of the map, each once.
LEMMA CoherentAsList == Coherent <=> Once(order) /\ DOMAIN entries = Listed(order)
BY DEF Coherent, Once, Listed

\* removeLocked and the first half of touchLocked take out exactly the key.
LEMMA RemovedKey ==
  ASSUME CacheTypeOK, Coherent, NEW k \in DOMAIN entries
  PROVE  /\ InOrder(k)
         /\ Removed(k) \in Seq(Keys)
         /\ Once(Removed(k))
         /\ Listed(Removed(k)) = DOMAIN entries \ {k}
<1>0. Len(order) \in Nat /\ order \in Seq(Keys)
  BY LenProperties DEF CacheTypeOK
<1>1. PICK i \in 1 .. Len(order) : order[i] = k
  BY CoherentAsList DEF Listed
<1>2. \A j \in 1 .. i - 1 : order[j] # k
  BY <1>0, <1>1 DEF Coherent
<1>3. Place(k) \in 1 .. Len(order) /\ order[Place(k)] = k
  BY <1>1, <1>2 DEF Place
<1>4. InOrder(k)
  BY <1>1 DEF InOrder
<1>5. Removed(k) = RemoveAt(order, Place(k))
  BY <1>4 DEF Removed
<1> QED
  BY <1>0, <1>3, <1>4, <1>5, RemoveOnce, CoherentAsList

\* touchLocked permutes the slice: it lists the same keys afterwards.
LEMMA TouchedKey ==
  ASSUME CacheTypeOK, Coherent, NEW k \in DOMAIN entries
  PROVE  /\ Touched(k) \in Seq(Keys)
         /\ Once(Touched(k))
         /\ Listed(Touched(k)) = DOMAIN entries
<1>1. k \in Keys
  BY DEF CacheTypeOK
<1>2. Touched(k) = Append(Removed(k), k)
  BY RemovedKey DEF Touched
<1>3. /\ Removed(k) \in Seq(Keys) /\ Once(Removed(k))
      /\ Listed(Removed(k)) = DOMAIN entries \ {k}
  BY RemovedKey
<1>4. k \notin Listed(Removed(k))
  BY <1>3
<1>5. /\ Append(Removed(k), k) \in Seq(Keys) /\ Once(Append(Removed(k), k))
      /\ Listed(Append(Removed(k), k)) = Listed(Removed(k)) \cup {k}
  BY <1>1, <1>3, <1>4, AppendOnce
<1> QED
  BY <1>2, <1>3, <1>5

\* The set of cached keys is finite: the slice lists it.
LEMMA FiniteDomain ==
  ASSUME CacheTypeOK, Coherent
  PROVE  IsFiniteSet(DOMAIN entries) /\ Cardinality(DOMAIN entries) \in Nat
<1>1. IsFiniteSet(1 .. Len(order))
  <2>1. Len(order) \in Int
    BY LenProperties DEF CacheTypeOK
  <2> QED
    BY <2>1, FS_Interval
<1>2. order \in Surjection(1 .. Len(order), Listed(order))
  <2>1. order \in [1 .. Len(order) -> Listed(order)]
    BY LenProperties DEF CacheTypeOK, Listed
  <2>2. \A x \in Listed(order) : \E i \in 1 .. Len(order) : order[i] = x
    BY DEF Listed
  <2> QED
    BY <2>1, <2>2 DEF Surjection
<1>3. IsFiniteSet(Listed(order))
  BY <1>1, <1>2, FS_Surjection
<1> QED
  BY <1>3, CoherentAsList, FS_CardinalityType

----------------------------------------------------------------------------
\* The three facts together are inductive: Bounded needs Coherent (the head
\* of the slice really is a key of the map), which needs CacheTypeOK.
CacheInv == CacheTypeOK /\ Coherent /\ Bounded

LEMMA InitCacheInv == CacheInit => CacheInv
<1> SUFFICES ASSUME CacheInit PROVE CacheInv
  OBVIOUS
<1>1. DOMAIN entries = {} /\ order = <<>> /\ now = 0
  BY DEF CacheInit
<1>2. Len(order) = 0 /\ order \in Seq(Keys)
  BY <1>1, EmptySeq
<1>3. CacheTypeOK
  <2>1. entries \in [DOMAIN entries -> Entry]
    BY DEF CacheInit
  <2> QED
    BY <1>1, <1>2, <2>1, CacheAssumption DEF CacheTypeOK
<1>4. Coherent
  BY <1>1, <1>2 DEF Coherent
<1>5. Bounded
  <2>1. Cardinality(DOMAIN entries) = 0
    BY <1>1, FS_EmptySet, Zenon
  <2> QED
    BY <2>1, CacheAssumption DEF Bounded, Capacity
<1> QED
  BY <1>3, <1>4, <1>5 DEF CacheInv

LEMMA GetHitStep ==
  ASSUME CacheInv, NEW k \in Keys, GetHit(k), UNCHANGED now
  PROVE  CacheInv'
<1>1. k \in DOMAIN entries /\ order' = Touched(k) /\ entries' = entries
  BY DEF GetHit, Hit
<1>2. order' \in Seq(Keys) /\ Once(order') /\ Listed(order') = DOMAIN entries'
  BY <1>1, TouchedKey DEF CacheInv
<1>3. Coherent'
  BY <1>2 DEF Coherent, Once, Listed
<1> QED
  BY <1>1, <1>2, <1>3 DEF CacheInv, CacheTypeOK, Bounded, Capacity

LEMMA GetMissStep ==
  ASSUME CacheInv, NEW k \in Keys, GetMiss(k), UNCHANGED now
  PROVE  CacheInv'
<1>1. CASE GetExpired(k)
  <2>1. /\ k \in DOMAIN entries
        /\ DOMAIN entries' = DOMAIN entries \ {k}
        /\ order' = Removed(k)
    BY <1>1 DEF GetExpired
  <2>2. order' \in Seq(Keys) /\ Once(order') /\ Listed(order') = DOMAIN entries'
    BY <2>1, RemovedKey DEF CacheInv
  <2>3. CacheTypeOK'
    BY <1>1, <2>1, <2>2 DEF CacheInv, CacheTypeOK, GetExpired
  <2>4. Coherent'
    BY <2>2 DEF Coherent, Once, Listed
  <2>5. Bounded'
    <3>1. Cardinality(DOMAIN entries') = Cardinality(DOMAIN entries) - 1
      BY <2>1, FiniteDomain, FS_RemoveElement DEF CacheInv
    <3> QED
      BY <3>1, FiniteDomain, CacheAssumption DEF CacheInv, Bounded, Capacity
  <2> QED
    BY <2>3, <2>4, <2>5 DEF CacheInv
<1>2. CASE GetAbsent(k)
  BY <1>2 DEF GetAbsent, CacheInv, CacheTypeOK, Coherent, Bounded, Capacity
<1> QED
  BY <1>1, <1>2 DEF GetMiss

\* What Stored builds: the kept keys and the new one, all with typed entries.
LEMMA StoredEntries ==
  ASSUME CacheTypeOK, NEW k \in Keys, NEW r \in Results, NEW gone,
         entries' = Stored(k, r, gone)
  PROVE  /\ DOMAIN entries' = (DOMAIN entries \ gone) \cup {k}
         /\ DOMAIN entries' \subseteq Keys
         /\ entries' \in [DOMAIN entries' -> Entry]
<1>1. now + TTL \in 0 .. Horizon + TTL
  BY CacheAssumption DEF CacheTypeOK
<1>2. [result |-> r, expiresAt |-> now + TTL] \in Entry
  BY <1>1 DEF Entry
<1> QED
  BY <1>2 DEF CacheTypeOK, Stored

LEMMA SetExistingStep ==
  ASSUME CacheInv, NEW k \in Keys, NEW r \in Results, SetExisting(k, r), UNCHANGED now
  PROVE  CacheInv'
<1>1. k \in DOMAIN entries /\ order' = Touched(k) /\ entries' = Stored(k, r, {})
  BY DEF SetExisting
<1>2. DOMAIN entries' = DOMAIN entries
  <2>1. DOMAIN entries' = (DOMAIN entries \ {}) \cup {k}
    BY <1>1 DEF Stored
  <2> QED
    BY <1>1, <2>1
<1>3. order' \in Seq(Keys) /\ Once(order') /\ Listed(order') = DOMAIN entries'
  BY <1>1, <1>2, TouchedKey DEF CacheInv
<1>4. CacheTypeOK'
  BY <1>1, <1>3, StoredEntries DEF CacheInv, CacheTypeOK
<1>5. Coherent'
  BY <1>3 DEF Coherent, Once, Listed
<1> QED
  BY <1>2, <1>4, <1>5 DEF CacheInv, Bounded, Capacity

LEMMA SetNewStep ==
  ASSUME CacheInv, NEW k \in Keys, NEW r \in Results, SetNew(k, r), UNCHANGED now
  PROVE  CacheInv'
<1> DEFINE kept == IF Victim = {} THEN order ELSE Tail(order)
           D == DOMAIN entries
<1>1. k \notin D /\ entries' = Stored(k, r, Victim) /\ order' = Append(kept, k)
  BY DEF SetNew
<1>2. DOMAIN entries' = (D \ Victim) \cup {k}
  BY <1>1, StoredEntries DEF CacheInv
<1>3. kept \in Seq(Keys) /\ Once(kept) /\ Listed(kept) = D \ Victim
  <2>1. CASE Victim = {}
    BY <2>1, CoherentAsList DEF CacheInv, CacheTypeOK
  <2>2. CASE Victim # {}
    <3>1. order # <<>> /\ Victim = {Head(order)}
      BY <2>2 DEF Victim
    <3> QED
      BY <2>2, <3>1, TailOnce, CoherentAsList DEF CacheInv, CacheTypeOK
  <2> QED
    BY <2>1, <2>2
<1>4. order' \in Seq(Keys) /\ Once(order') /\ Listed(order') = DOMAIN entries'
  <2> HIDE DEF kept
  <2>1. k \notin Listed(kept)
    BY <1>1, <1>3
  <2>2. /\ Append(kept, k) \in Seq(Keys)
        /\ Once(Append(kept, k))
        /\ Listed(Append(kept, k)) = Listed(kept) \cup {k}
    BY <1>3, <2>1, AppendOnce
  <2> QED
    BY <1>1, <1>2, <1>3, <2>2
<1>5. CacheTypeOK'
  BY <1>1, <1>4, StoredEntries DEF CacheInv, CacheTypeOK
<1>6. Coherent'
  BY <1>4 DEF Coherent, Once, Listed
<1>7. Bounded'
  <2>1. IsFiniteSet(D) /\ Cardinality(D) \in Nat
    BY FiniteDomain DEF CacheInv
  <2>2. CASE Victim = {}
    <3>1. Cardinality(DOMAIN entries') = Cardinality(D) + 1
      <4>1. Cardinality(D \cup {k}) = Cardinality(D) + 1
        BY <1>1, <2>1, FS_AddElement, Zenon
      <4>2. DOMAIN entries' = D \cup {k}
        BY <1>2, <2>2
      <4> QED
        BY <4>1, <4>2
    <3>2. CASE Cardinality(D) < MaxSize
      BY <2>1, <3>1, <3>2, CacheAssumption DEF Bounded, Capacity
    <3>3. CASE order = <<>>
      <4>1. D = {}
        <5>1. D = Listed(order)
          BY CoherentAsList DEF CacheInv
        <5>2. Len(order) = 0
          BY <3>3, EmptySeq
        <5>3. Listed(order) = {}
          BY <5>2 DEF Listed
        <5> QED
          BY <5>1, <5>3
      <4>2. Cardinality(D) = 0
        BY <4>1, FS_EmptySet
      <4> QED
        BY <3>1, <4>2, CacheAssumption DEF Bounded, Capacity
    <3> QED
      BY <2>1, <2>2, <3>2, <3>3, CacheAssumption DEF Victim
  <2>3. CASE Victim # {}
    <3>1. PICK v \in D : Victim = {v}
      BY <2>3, TailOnce, CoherentAsList DEF Victim, CacheInv, CacheTypeOK
    <3>2. IsFiniteSet(D \ {v}) /\ Cardinality(D \ {v}) = Cardinality(D) - 1
      BY <2>1, <3>1, FS_RemoveElement
    <3>3. Cardinality(DOMAIN entries') = Cardinality(D)
      <4>1. Cardinality((D \ {v}) \cup {k}) = Cardinality(D \ {v}) + 1
        BY <1>1, <3>2, FS_AddElement
      <4>2. DOMAIN entries' = (D \ {v}) \cup {k}
        BY <1>2, <3>1
      <4> QED
        BY <2>1, <3>2, <4>1, <4>2
    <3> QED
      BY <3>3 DEF CacheInv, Bounded, Capacity
  <2> QED
    BY <2>2, <2>3
<1> QED
  BY <1>5, <1>6, <1>7 DEF CacheInv

\* Every step of the cache keeps the invariant.
LEMMA NextCacheInv == CacheInv /\ [CacheNext]_cacheVars => CacheInv'
<1> SUFFICES ASSUME CacheInv, [CacheNext]_cacheVars PROVE CacheInv'
  OBVIOUS
<1>1. ASSUME NEW k \in Keys, GetHit(k), UNCHANGED now PROVE CacheInv'
  BY <1>1, GetHitStep
<1>2. ASSUME NEW k \in Keys, GetMiss(k), UNCHANGED now PROVE CacheInv'
  BY <1>2, GetMissStep
<1>3. ASSUME NEW k \in Keys, NEW r \in Results, Set(k, r), UNCHANGED now
      PROVE  CacheInv'
  BY <1>3, SetExistingStep, SetNewStep DEF Set
<1>4. CASE CacheTick
  <2>1. now' \in 0 .. Horizon /\ entries' = entries /\ order' = order
    BY <1>4, CacheAssumption DEF CacheTick, CacheInv, CacheTypeOK
  <2> QED
    BY <2>1 DEF CacheInv, CacheTypeOK, Coherent, Bounded, Capacity
<1>5. CASE UNCHANGED cacheVars
  BY <1>5 DEF cacheVars, CacheInv, CacheTypeOK, Coherent, Bounded, Capacity
<1> QED
  BY <1>1, <1>2, <1>3, <1>4, <1>5 DEF CacheNext

----------------------------------------------------------------------------
\* In every reachable state the map is typed and the map and the slice list
\* the same keys: eviction always deletes a key that is really cached.
THEOREM CacheCoherent == CacheSpec => [](CacheTypeOK /\ Coherent)
<1>1. CacheInv => CacheTypeOK /\ Coherent
  BY DEF CacheInv
<1> QED
  BY <1>1, InitCacheInv, NextCacheInv, PTL DEF CacheSpec

\* The cache never holds more entries than its capacity (one, when it is
\* built with size 0).
THEOREM CacheBounded == CacheSpec => []Bounded
<1>1. CacheInv => Bounded
  BY DEF CacheInv
<1> QED
  BY <1>1, InitCacheInv, NextCacheInv, PTL DEF CacheSpec
============================================================================
