---------------------------- MODULE ResultCache ----------------------------
(***************************************************************************)
(* The LRU cache of firewall verdicts (internal/proxy/cache.go): a map     *)
(* from cache keys to entries that expire TTL after they were stored, and  *)
(* a slice `order` that lists the same keys, most recently used last.  Get *)
(* and Set run under one mutex, so each of them is one action here.  What  *)
(* a verdict is does not matter to the cache: Results is a parameter.      *)
(***************************************************************************)
EXTENDS Integers, Sequences, FiniteSets, SequencesExt

CONSTANTS Keys,      \* the keys CacheKey builds: ecosystem, name and version
          Results,   \* the check results that are cached
          MaxSize,   \* NewResultCache's size
          TTL,       \* NewResultCache's ttl, in ticks of the clock
          Horizon    \* bound: the clock is not followed past this tick

ASSUME CacheAssumption == MaxSize \in Nat /\ TTL \in Nat /\ Horizon \in Nat

VARIABLES entries,   \* the map: key -> [result, expiresAt]
          order,     \* the slice: least recently used key first
          now        \* the wall clock that time.Now() reads

cacheVars == <<entries, order, now>>

Entry == [result : Results, expiresAt : 0 .. Horizon + TTL]

CacheTypeOK ==
  /\ DOMAIN entries \subseteq Keys
  /\ entries \in [DOMAIN entries -> Entry]
  /\ order \in Seq(Keys)
  /\ now \in 0 .. Horizon

CacheInit ==
  /\ entries = [k \in {} |-> k]
  /\ order = <<>>
  /\ now = 0

----------------------------------------------------------------------------
\* Mutant: an entry outlives its expiry by a tick.
ExpiredLate(k) == now > entries[k].expiresAt + 1

Expired(k) == now > entries[k].expiresAt

Hit(k) == k \in DOMAIN entries /\ ~Expired(k)

InOrder(k) == \E i \in 1 .. Len(order) : order[i] = k

\* Where the loops of touchLocked and removeLocked stop: the first match.
Place(k) ==
  CHOOSE i \in 1 .. Len(order) :
    order[i] = k /\ \A j \in 1 .. i - 1 : order[j] # k

\* Mutant: removeLocked forgets the slice.
RemovedNowhere(k) == order

Removed(k) == IF InOrder(k) THEN RemoveAt(order, Place(k)) ELSE order

\* Mutant: a use does not touch the key, first in is first out.
TouchedNot(k) == order

\* touchLocked: the key moves to the end of the order, if it is in it.
Touched(k) == IF InOrder(k) THEN Append(Removed(k), k) ELSE order

\* Mutant: the TTL is counted from the end of the current tick.
StoredLonger(k, r, gone) ==
  [x \in (DOMAIN entries \ gone) \cup {k} |->
     IF x = k THEN [result |-> r, expiresAt |-> now + 1 + TTL] ELSE entries[x]]

\* The map once key k holds result r, with the keys of `gone` deleted.
Stored(k, r, gone) ==
  [x \in (DOMAIN entries \ gone) \cup {k} |->
     IF x = k THEN [result |-> r, expiresAt |-> now + TTL] ELSE entries[x]]

\* Mutant: > for >= when Set asks whether the cache is full.
VictimLate ==
  IF Cardinality(DOMAIN entries) > MaxSize /\ order # <<>>
    THEN {Head(order)}
    ELSE {}

\* evictLocked, as far as Set calls it: the key it drops, when it drops one.
Victim ==
  IF Cardinality(DOMAIN entries) >= MaxSize /\ order # <<>>
    THEN {Head(order)}
    ELSE {}

----------------------------------------------------------------------------
GetHit(k) ==
  /\ Hit(k)
  /\ order' = Touched(k)
  /\ UNCHANGED entries

\* An expired entry is removed by the lookup that finds it.
GetExpired(k) ==
  /\ k \in DOMAIN entries
  /\ Expired(k)
  /\ entries' = [x \in DOMAIN entries \ {k} |-> entries[x]]
  /\ order' = Removed(k)

GetAbsent(k) ==
  /\ k \notin DOMAIN entries
  /\ UNCHANGED <<entries, order>>

GetMiss(k) == GetExpired(k) \/ GetAbsent(k)

SetExisting(k, r) ==
  /\ k \in DOMAIN entries
  /\ entries' = Stored(k, r, {})
  /\ order' = Touched(k)

SetNew(k, r) ==
  /\ k \notin DOMAIN entries
  /\ entries' = Stored(k, r, Victim)
  /\ order' = Append(IF Victim = {} THEN order ELSE Tail(order), k)

Set(k, r) == SetExisting(k, r) \/ SetNew(k, r)

CacheTick ==
  /\ now < Horizon
  /\ now' = now + 1
  /\ UNCHANGED <<entries, order>>

CacheNext ==
  \/ \E k \in Keys :
       /\ \/ GetHit(k)
          \/ GetMiss(k)
          \/ \E r \in Results : Set(k, r)
       /\ UNCHANGED now
  \/ CacheTick

CacheSpec == CacheInit /\ [][CacheNext]_cacheVars

----------------------------------------------------------------------------
\* The map and the slice list the same keys, and the slice lists each once:
\* touchLocked, removeLocked and evictLocked keep the two structures in step.
\* If they drifted apart, eviction would delete the wrong key or none at all.
Coherent ==
  /\ \A i, j \in 1 .. Len(order) : order[i] = order[j] => i = j
  /\ DOMAIN entries = {order[i] : i \in 1 .. Len(order)}

\* The capacity, except that Set stores its key even into a cache of size 0.
Capacity == IF MaxSize = 0 THEN 1 ELSE MaxSize

\* Set evicts before it inserts, so the map never outgrows the capacity,
\* whatever sequence of hits, expiries and updates came before.
Bounded == Cardinality(DOMAIN entries) <= Capacity
============================================================================
