-------------------------- MODULE LRUHistoryProofs --------------------------
(***************************************************************************)
(* The verdict cache keeps its promise (VerdictMemo) and evicts the least  *)
(* recently used key, for every set of keys, capacity, TTL and horizon.    *)
(***************************************************************************)
EXTENDS LRUHistory, ResultCacheProofs

\* A list in the order of a relation R: later elements are in R of earlier ones.
Ranked(s, R) == \A i, j \in 1 .. Len(s) : i < j => s[j] \in R[s[i]]

LEMMA RemoveRanked ==
  ASSUME NEW S, NEW s \in Seq(S), NEW p \in 1 .. Len(s), NEW R, Ranked(s, R)
  PROVE  Ranked(RemoveAt(s, p), R)
<1> DEFINE t == RemoveAt(s, p)
<1>1. /\ Len(s) \in Nat /\ Len(t) = Len(s) - 1
      /\ \A i \in 1 .. Len(s) - 1 : t[i] = IF i < p THEN s[i] ELSE s[i + 1]
  BY RemoveAtIs, LenProperties
<1> HIDE DEF t
<1>2. ASSUME NEW i \in 1 .. Len(t), NEW j \in 1 .. Len(t), i < j
      PROVE  t[j] \in R[t[i]]
  <2>1. PICK a \in 1 .. Len(s) : t[i] = s[a] /\ a = IF i < p THEN i ELSE i + 1
    BY <1>1
  <2>2. PICK b \in 1 .. Len(s) : t[j] = s[b] /\ b = IF j < p THEN j ELSE j + 1
    BY <1>1
  <2>3. a < b
    BY <1>1, <1>2, <2>1, <2>2
  <2> QED
    BY <2>1, <2>2, <2>3 DEF Ranked
<1> QED
  BY <1>2 DEF Ranked, t

\* A use appends its key to the order and to what was used since every other
\* key was: the order stays the order of use.
LEMMA UseRanked ==
  ASSUME NEW s \in Seq(Keys), NEW k \in Keys, k \notin Listed(s),
         Ranked(s, usedSince), Uses(k)
  PROVE  Ranked(Append(s, k), usedSince')
<1> DEFINE t == Append(s, k)
<1>1. /\ Len(s) \in Nat /\ Len(t) = Len(s) + 1 /\ t[Len(s) + 1] = k
      /\ \A i \in 1 .. Len(s) : t[i] = s[i] /\ s[i] \in Keys /\ s[i] # k
  BY AppendProperties, LenProperties, ElementOfSeq DEF Listed
<1>2. \A x \in Keys \ {k} : usedSince'[x] = usedSince[x] \cup {k}
  BY DEF Uses
<1> HIDE DEF t
<1>3. ASSUME NEW i \in 1 .. Len(t), NEW j \in 1 .. Len(t), i < j
      PROVE  t[j] \in usedSince'[t[i]]
  <2>1. i \in 1 .. Len(s) /\ usedSince'[t[i]] = usedSince[s[i]] \cup {k} /\ t[i] = s[i]
    BY <1>1, <1>2, <1>3
  <2>2. CASE j = Len(s) + 1
    BY <1>1, <2>1, <2>2
  <2>3. CASE j \in 1 .. Len(s)
    BY <1>1, <1>3, <2>1, <2>3 DEF Ranked
  <2> QED
    BY <1>1, <2>2, <2>3
<1> QED
  BY <1>3 DEF Ranked, t

----------------------------------------------------------------------------
\* What the slice knows: a key further back was used since every key before it.
HInv == CacheInv /\ HTypeOK /\ Ranked(order, usedSince)

LEMMA HInitInv == HInit => HInv
<1> SUFFICES ASSUME HInit PROVE HInv
  OBVIOUS
<1>1. CacheInv
  BY InitCacheInv DEF HInit
<1>2. HTypeOK
  BY <1>1 DEF HInit, HTypeOK, CacheInv
<1>3. Ranked(order, usedSince)
  <2>1. order = <<>>
    BY DEF HInit, CacheInit
  <2>2. Len(order) = 0
    BY <2>1, EmptySeq
  <2> QED
    BY <2>2 DEF Ranked
<1> QED
  BY <1>1, <1>2, <1>3 DEF HInv

\* The operations with history are operations of the cache.
LEMMA HNextIsCacheNext == [HNext]_historyVars => [CacheNext]_cacheVars
BY DEF HNext, HGetHit, HGetMiss, HSet, HTick, historyVars, cacheVars, CacheNext

LEMMA UsesType ==
  ASSUME usedSince \in [Keys -> SUBSET Keys], NEW k \in Keys, Uses(k)
  PROVE  usedSince' \in [Keys -> SUBSET Keys]
BY DEF Uses

\* removeLocked keeps the order of use.
LEMMA RemovedRanked ==
  ASSUME CacheTypeOK, Coherent, NEW R, Ranked(order, R), NEW k \in DOMAIN entries
  PROVE  Ranked(Removed(k), R)
<1>0. Len(order) \in Nat /\ order \in Seq(Keys)
  BY LenProperties DEF CacheTypeOK
<1>1. Removed(k) = RemoveAt(order, Place(k))
  BY RemovedKey DEF Removed
<1>2. PICK i \in 1 .. Len(order) : order[i] = k
  BY CoherentAsList DEF Listed
<1>3. \A j \in 1 .. i - 1 : order[j] # k
  BY <1>0, <1>2 DEF Coherent
<1>4. Place(k) \in 1 .. Len(order)
  BY <1>2, <1>3 DEF Place
<1> QED
  BY <1>0, <1>1, <1>4, RemoveRanked

\* A hit or an update of a cached key.
LEMMA TouchStep ==
  ASSUME HInv, NEW k \in DOMAIN entries, order' = Touched(k), Uses(k)
  PROVE  Ranked(order', usedSince')
<1>1. k \in Keys /\ CacheTypeOK /\ Coherent
  BY DEF HInv, CacheInv, CacheTypeOK
<1>2. InOrder(k) /\ Removed(k) \in Seq(Keys) /\ k \notin Listed(Removed(k))
  BY <1>1, RemovedKey
<1>3. Touched(k) = Append(Removed(k), k)
  BY <1>2 DEF Touched
<1>4. Ranked(Removed(k), usedSince)
  BY <1>1, RemovedRanked DEF HInv
<1> QED
  BY <1>1, <1>2, <1>3, <1>4, UseRanked

\* What Victim is: nothing, or the key at the head of the slice.
LEMMA VictimIs ==
  ASSUME CacheInv
  PROVE  \/ Victim = {}
         \/ /\ order # <<>> /\ Victim = {Head(order)} /\ Len(order) \in Nat \ {0}
            /\ Head(order) = order[1] /\ Head(order) \in DOMAIN entries
            /\ Cardinality(DOMAIN entries) >= MaxSize
            /\ Tail(order) = RemoveAt(order, 1)
<1> SUFFICES ASSUME Victim # {}
             PROVE  /\ order # <<>> /\ Victim = {Head(order)} /\ Len(order) \in Nat \ {0}
                    /\ Head(order) = order[1] /\ Head(order) \in DOMAIN entries
                    /\ Cardinality(DOMAIN entries) >= MaxSize
                    /\ Tail(order) = RemoveAt(order, 1)
  OBVIOUS
<1>1. order # <<>> /\ Victim = {Head(order)} /\ Cardinality(DOMAIN entries) >= MaxSize
  BY DEF Victim
<1>2. order \in Seq(Keys)
  BY DEF CacheInv, CacheTypeOK
<1>3. Len(order) \in Nat \ {0} /\ Head(order) = order[1]
  BY <1>1, <1>2, EmptySeq
<1>4. Head(order) \in DOMAIN entries
  BY <1>1, <1>2, TailOnce, CoherentAsList DEF CacheInv
<1>5. Tail(order) = RemoveAt(order, 1)
  <2>1. SubSeq(order, 1, 0) = <<>> /\ SubSeq(order, 2, Len(order)) = Tail(order)
    BY <1>1, <1>2, SubSeqEmpty, TailIsSubSeq
  <2>2. Tail(order) \in Seq(Keys)
    BY <1>1, <1>2, HeadTailProperties
  <2>3. <<>> \o Tail(order) = Tail(order)
    BY <2>2, ConcatEmptySeq
  <2> QED
    BY <2>1, <2>3 DEF RemoveAt
<1> QED
  BY <1>1, <1>3, <1>4, <1>5

\* A new key, with or without an eviction.
LEMMA InsertStep ==
  ASSUME HInv, NEW k \in Keys, NEW r \in Results, SetNew(k, r), Uses(k)
  PROVE  Ranked(order', usedSince')
<1> DEFINE kept == IF Victim = {} THEN order ELSE Tail(order)
<1>1. k \notin DOMAIN entries /\ order' = Append(kept, k)
  BY DEF SetNew
<1>2. order \in Seq(Keys) /\ Once(order) /\ DOMAIN entries = Listed(order)
  BY CoherentAsList DEF HInv, CacheInv, CacheTypeOK
<1>3. kept \in Seq(Keys) /\ Listed(kept) \subseteq DOMAIN entries /\ Ranked(kept, usedSince)
  <2>1. CASE Victim = {}
    BY <1>2, <2>1 DEF HInv
  <2>2. CASE Victim # {}
    <3>1. order # <<>> /\ 1 \in 1 .. Len(order) /\ Tail(order) = RemoveAt(order, 1)
      BY <2>2, VictimIs DEF HInv
    <3>2. Tail(order) \in Seq(Keys) /\ Listed(Tail(order)) \subseteq DOMAIN entries
      BY <1>2, <3>1, TailOnce
    <3>3. Ranked(Tail(order), usedSince)
      BY <1>2, <3>1, RemoveRanked DEF HInv
    <3> QED
      BY <2>2, <3>2, <3>3
  <2> QED
    BY <2>1, <2>2
<1> HIDE DEF kept
<1> QED
  BY <1>1, <1>3, UseRanked

LEMMA HInvStep == HInv /\ [HNext]_historyVars => HInv'
<1> SUFFICES ASSUME HInv, [HNext]_historyVars PROVE HInv'
  OBVIOUS
<1>0. CacheInv' /\ CacheTypeOK'
  BY HNextIsCacheNext, NextCacheInv DEF HInv, CacheInv
<1>1. ASSUME NEW k \in Keys, HGetHit(k) PROVE HInv'
  <2>1. k \in DOMAIN entries /\ order' = Touched(k) /\ Uses(k) /\ reply' = {entries[k].result}
    BY <1>1 DEF HGetHit, GetHit, Hit
  <2>2. entries[k].result \in Results
    BY <2>1 DEF HInv, CacheInv, CacheTypeOK, Entry
  <2>3. HTypeOK'
    BY <1>0, <2>1, <2>2, UsesType DEF HInv, HTypeOK
  <2> QED
    BY <1>0, <2>1, <2>3, TouchStep DEF HInv
<1>2. ASSUME NEW k \in Keys, HGetMiss(k) PROVE HInv'
  <2>1. /\ reply' = {} /\ usedSince' = usedSince
        /\ order' = order \/ (k \in DOMAIN entries /\ order' = Removed(k))
    BY <1>2 DEF HGetMiss, GetMiss, GetExpired, GetAbsent
  <2>2. HTypeOK'
    BY <1>0, <2>1 DEF HInv, HTypeOK
  <2>3. Ranked(order', usedSince')
    BY <2>1, RemovedRanked DEF HInv, CacheInv
  <2> QED
    BY <1>0, <2>2, <2>3 DEF HInv
<1>3. ASSUME NEW k \in Keys, NEW r \in Results, HSet(k, r) PROVE HInv'
  <2>1. Uses(k) /\ reply' = reply /\ Set(k, r)
    BY <1>3 DEF HSet
  <2>2. HTypeOK'
    BY <1>0, <2>1, UsesType DEF HInv, HTypeOK
  <2>3. Ranked(order', usedSince')
    BY <2>1, TouchStep, InsertStep DEF Set, SetExisting
  <2> QED
    BY <1>0, <2>2, <2>3 DEF HInv
<1>4. CASE HTick \/ UNCHANGED historyVars
  <2>1. UNCHANGED <<order, reply, usedSince>>
    BY <1>4 DEF HTick, CacheTick, historyVars, cacheVars
  <2> QED
    BY <1>0, <2>1 DEF HInv, HTypeOK, Ranked
<1> QED
  BY <1>1, <1>2, <1>3, <1>4 DEF HNext

LEMMA HAlways == HSpec => []HInv
BY HInitInv, HInvStep, PTL DEF HSpec

\* In every reachable state the history is typed with the cache.
THEOREM HistoryTyped == HSpec => []HTypeOK
BY HAlways, PTL DEF HInv

----------------------------------------------------------------------------
\* A key leaves the cache only by its expiry, or as the key that was used
\* longest ago: evictLocked drops the head of the slice, and the slice is the
\* order of use.
LEMMA EvictionStep ==
  ASSUME HInv, [HNext]_historyVars, NEW v \in DOMAIN entries \ DOMAIN entries'
  PROVE  Expired(v) \/ DOMAIN entries \ {v} \subseteq usedSince[v]
<1>1. ASSUME NEW k \in Keys, HGetHit(k) PROVE FALSE
  BY <1>1 DEF HGetHit, GetHit
<1>2. ASSUME NEW k \in Keys, HGetMiss(k) PROVE Expired(v)
  BY <1>2 DEF HGetMiss, GetMiss, GetExpired, GetAbsent
<1>3. ASSUME NEW k \in Keys, NEW r \in Results, HSet(k, r)
      PROVE  DOMAIN entries \ {v} \subseteq usedSince[v]
  <2>1. PICK gone \in {{}, Victim} : DOMAIN entries' = (DOMAIN entries \ gone) \cup {k}
    BY <1>3 DEF HSet, Set, SetExisting, SetNew, Stored
  <2>2. v \in Victim
    BY <2>1
  <2>3. v = order[1] /\ Len(order) \in Nat \ {0}
    BY <2>2, VictimIs DEF HInv
  <2>4. ASSUME NEW x \in DOMAIN entries \ {v} PROVE x \in usedSince[v]
    <3>1. PICK j \in 1 .. Len(order) : order[j] = x
      BY CoherentAsList DEF HInv, CacheInv, Listed
    <3>2. 1 \in 1 .. Len(order) /\ 1 < j
      BY <2>3, <3>1, <2>4
    <3> QED
      BY <2>3, <3>1, <3>2 DEF HInv, Ranked
  <2> QED
    BY <2>4
<1>4. CASE HTick \/ UNCHANGED historyVars
  BY <1>4 DEF HTick, CacheTick, historyVars, cacheVars
<1> QED
  BY <1>1, <1>2, <1>3, <1>4 DEF HNext

\* The same for every step of the cache: the eviction is by recency of use.
THEOREM LeastRecentEvicted == HSpec => EvictsLeastRecent
<1>1. HInv /\ [HNext]_historyVars =>
        [\A v \in DOMAIN entries \ DOMAIN entries' :
           \/ Expired(v)
           \/ DOMAIN entries \ {v} \subseteq usedSince[v]]_historyVars
  BY EvictionStep
<1> QED
  BY <1>1, HAlways, PTL DEF HSpec, EvictsLeastRecent

----------------------------------------------------------------------------
(* The cache implements VerdictMemo: its memory is the map, without the     *)
(* slice, with the time of storing instead of the time of expiry.           *)

memory == [k \in DOMAIN entries |->
             [result |-> entries[k].result, storedAt |-> entries[k].expiresAt - TTL]]

\* INSTANCE renames Cardinality too.
LEMMA SameCardinality == \A S : Memo!Cardinality(S) = Cardinality(S)
BY DEF Memo!Cardinality, Cardinality

LEMMA MemoInit == HInit => Memo!Init
BY DEF HInit, CacheInit, Memo!Init

\* A key is fresh in the memory exactly when the cache has it unexpired.
LEMMA FreshIsHit ==
  ASSUME CacheTypeOK, NEW k
  PROVE  Memo!Fresh(k) <=> Hit(k)
<1>1. CASE k \in DOMAIN entries
  <2>1. entries[k].expiresAt \in Int /\ now \in Int /\ TTL \in Int
    BY <1>1, CacheAssumption DEF CacheTypeOK, Entry
  <2>2. now - (entries[k].expiresAt - TTL) <= TTL <=> ~(now > entries[k].expiresAt)
    BY <2>1
  <2> QED
    BY <1>1, <2>2 DEF Memo!Fresh, Hit, Expired
<1>2. CASE k \notin DOMAIN entries
  BY <1>2 DEF Memo!Fresh, Hit
<1> QED
  BY <1>1, <1>2

\* Storing into the map stores into the memory, at the present time.
LEMMA StoredRemembered ==
  ASSUME CacheTypeOK, NEW k \in Keys, NEW r \in Results, NEW gone,
         entries' = Stored(k, r, gone)
  PROVE  memory' = [x \in (DOMAIN memory \ gone) \cup {k} |->
                      IF x = k THEN [result |-> r, storedAt |-> now] ELSE memory[x]]
<1> DEFINE D == (DOMAIN entries \ gone) \cup {k}
<1>1. DOMAIN entries' = D /\ DOMAIN memory = DOMAIN entries
  BY DEF Stored, memory
<1>2. memory'[k] = [result |-> r, storedAt |-> now]
  <2>1. now \in Int /\ TTL \in Int
    BY CacheAssumption DEF CacheTypeOK
  <2>2. entries'[k] = [result |-> r, expiresAt |-> now + TTL]
    BY DEF Stored
  <2>3. entries'[k].result = r /\ entries'[k].expiresAt = now + TTL
    BY <2>2
  <2>4. memory'[k] = [result   |-> entries'[k].result,
                      storedAt |-> entries'[k].expiresAt - TTL]
    BY <1>1 DEF memory
  <2>5. entries'[k].expiresAt - TTL = now
    BY <2>1, <2>3
  <2> QED
    BY <2>3, <2>4, <2>5
<1>3. ASSUME NEW x \in D, x # k PROVE memory'[x] = memory[x]
  <2>1. entries'[x] = entries[x] /\ x \in DOMAIN entries
    BY <1>3 DEF Stored
  <2> QED
    BY <1>1, <2>1 DEF memory
<1>4. memory' = [x \in D |-> memory'[x]]
  BY <1>1 DEF memory
<1> HIDE DEF memory
<1> QED
  BY <1>1, <1>2, <1>3, <1>4

LEMMA RecallStep ==
  ASSUME HInv, NEW k \in Keys, HGetHit(k)
  PROVE  Memo!Recall(k)
<1>1. Memo!Fresh(k) /\ k \in DOMAIN entries
  BY FreshIsHit DEF HInv, CacheInv, HGetHit, GetHit, Hit
<1> QED
  BY <1>1 DEF HGetHit, GetHit, Memo!Recall

LEMMA ForgetStep ==
  ASSUME HInv, NEW k \in Keys, HGetMiss(k)
  PROVE  Memo!Forget(k)
<1>1. ~Memo!Fresh(k)
  BY FreshIsHit DEF HInv, CacheInv, HGetMiss, GetMiss, GetExpired, GetAbsent, Hit
<1>2. memory' = [x \in DOMAIN memory \ {k} |-> memory[x]]
  <2>1. entries' = [x \in DOMAIN entries \ {k} |-> entries[x]]
    BY DEF HInv, CacheInv, CacheTypeOK, HGetMiss, GetMiss, GetExpired, GetAbsent
  <2> QED
    BY <2>1 DEF memory
<1> QED
  BY <1>1, <1>2 DEF HGetMiss, Memo!Forget, memory

LEMMA RememberStep ==
  ASSUME HInv, NEW k \in Keys, NEW r \in Results, HSet(k, r)
  PROVE  Memo!Remember(k, r)
<1>1. CacheInv /\ CacheTypeOK /\ IsFiniteSet(DOMAIN entries) /\ DOMAIN memory = DOMAIN entries
  BY FiniteDomain DEF HInv, CacheInv, memory
<1>2. PICK gone \in SUBSET (DOMAIN entries \ {k}) :
        /\ Cardinality(gone) <= 1
        /\ gone # {} => k \notin DOMAIN entries /\ Cardinality(DOMAIN entries) >= MaxSize
        /\ entries' = Stored(k, r, gone)
  <2>1. CASE SetExisting(k, r) \/ (SetNew(k, r) /\ Victim = {})
    <3>1. Cardinality({}) <= 1
      BY FS_EmptySet
    <3>2. entries' = Stored(k, r, {})
      BY <2>1 DEF SetExisting, SetNew
    <3>3. {} \in SUBSET (DOMAIN entries \ {k})
      OBVIOUS
    <3> QED
      BY <3>1, <3>2, <3>3
  <2>2. CASE SetNew(k, r) /\ Victim # {}
    <3>1. PICK v \in DOMAIN entries : Victim = {v} /\ Cardinality(DOMAIN entries) >= MaxSize
      BY <1>1, <2>2, VictimIs
    <3>2. Cardinality({v}) = 1
      BY FS_Singleton
    <3>3. k \notin DOMAIN entries /\ entries' = Stored(k, r, {v})
      BY <2>2, <3>1 DEF SetNew
    <3> QED
      BY <3>1, <3>2, <3>3
  <2> QED
    BY <2>1, <2>2 DEF HSet, Set
<1>3. memory' = [x \in (DOMAIN memory \ gone) \cup {k} |->
                   IF x = k THEN [result |-> r, storedAt |-> now] ELSE memory[x]]
  BY <1>1, <1>2, StoredRemembered
<1> QED
  BY <1>1, <1>2, <1>3, SameCardinality DEF HSet, Memo!Remember, memory

LEMMA MemoStep == HInv /\ [HNext]_historyVars => [Memo!Next]_(Memo!memoVars)
<1> SUFFICES ASSUME HInv, [HNext]_historyVars PROVE [Memo!Next]_(Memo!memoVars)
  OBVIOUS
<1>1. ASSUME NEW k \in Keys, HGetHit(k) PROVE Memo!Next
  BY <1>1, RecallStep DEF Memo!Next
<1>2. ASSUME NEW k \in Keys, HGetMiss(k) PROVE Memo!Next
  BY <1>2, ForgetStep DEF Memo!Next
<1>3. ASSUME NEW k \in Keys, NEW r \in Results, HSet(k, r) PROVE Memo!Next
  BY <1>3, RememberStep DEF Memo!Next
<1>4. CASE HTick
  BY <1>4 DEF HTick, CacheTick, Memo!Next, Memo!Tick
<1>5. CASE UNCHANGED historyVars
  BY <1>5 DEF historyVars, cacheVars, Memo!memoVars
<1> QED
  BY <1>1, <1>2, <1>3, <1>4, <1>5 DEF HNext

\* The cache implements its promise: a hit answers with the last result stored
\* for the key, at most TTL old, and a result is forgotten early only for one
\* new key in a full cache.
THEOREM CacheKeepsPromise == HSpec => KeepsPromise
<1>1. HInit => Memo!Init
  BY MemoInit
<1>2. HInv /\ [HNext]_historyVars => [Memo!Next]_(Memo!memoVars)
  BY MemoStep
<1> QED
  BY <1>1, <1>2, HAlways, PTL DEF HSpec, KeepsPromise, Memo!Spec
=============================================================================
