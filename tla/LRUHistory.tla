---------------------------- MODULE LRUHistory -----------------------------
(***************************************************************************)
(* ResultCache with two history variables that no operation reads: what    *)
(* the last lookup returned, and for each key which keys were used since   *)
(* it was last used itself.  They let the cache be compared with its       *)
(* promise (VerdictMemo) and its evictions with true recency of use.       *)
(***************************************************************************)
EXTENDS ResultCache

VARIABLES reply,       \* result of the last Get: {r}, or {} for a miss
          usedSince    \* key -> the keys hit or stored after it last was

historyVars == <<cacheVars, reply, usedSince>>

HInit ==
  /\ CacheInit
  /\ reply = {}
  /\ usedSince = [k \in Keys |-> {}]

Uses(k) ==
  usedSince' = [x \in Keys |-> IF x = k THEN {} ELSE usedSince[x] \cup {k}]

HGetHit(k) ==
  /\ GetHit(k)
  /\ reply' = {entries[k].result}
  /\ Uses(k)
  /\ UNCHANGED now

HGetMiss(k) ==
  /\ GetMiss(k)
  /\ reply' = {}
  /\ UNCHANGED <<usedSince, now>>

HSet(k, r) ==
  /\ Set(k, r)
  /\ Uses(k)
  /\ UNCHANGED <<reply, now>>

HTick ==
  /\ CacheTick
  /\ UNCHANGED <<reply, usedSince>>

HNext ==
  \/ \E k \in Keys : HGetHit(k) \/ HGetMiss(k) \/ \E r \in Results : HSet(k, r)
  \/ HTick

HSpec == HInit /\ [][HNext]_historyVars

----------------------------------------------------------------------------
HTypeOK ==
  /\ CacheTypeOK
  /\ reply \in {{}} \cup {{r} : r \in Results}
  /\ usedSince \in [Keys -> SUBSET Keys]

\* A key leaves the cache by expiry or as the victim of a Set, and a victim
\* is the least recently used key: every other key that is cached was hit or
\* stored after the victim last was ("least-recently-used", cache.go's doc).
EvictsLeastRecent ==
  [][\A v \in DOMAIN entries \ DOMAIN entries' :
       \/ Expired(v)
       \/ DOMAIN entries \ {v} \subseteq usedSince[v]]_historyVars

\* The cache keeps its promise: a hit is the last result stored for the key,
\* not older than TTL however often it was read, and a result disappears
\* early only when a new key finds the cache full.
Memo == INSTANCE VerdictMemo WITH
          memo <- [k \in DOMAIN entries |->
                     [result   |-> entries[k].result,
                      storedAt |-> entries[k].expiresAt - TTL]]

KeepsPromise == Memo!Spec
============================================================================
