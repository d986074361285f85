------------------------- MODULE PolicySyncerProofs ------------------------
(***************************************************************************)
(* How late the syncer can be, for every interval, timeout and threshold.  *)
(***************************************************************************)
EXTENDS PolicySyncer, TLAPS

(* Arithmetic that the provers need in small steps. *)

LEMMA DivBound ==
  ASSUME NEW a \in Int, NEW i \in Nat \ {0}, NEW n \in Nat, a < (n + 1) * i
  PROVE  a \div i <= n
<1> DEFINE q == a \div i
<1>1. q \in Int /\ i * q <= a
  OBVIOUS
<1>2. CASE q >= n + 1
  <2>1. (q - (n + 1)) * i >= 0
    BY <1>1, <1>2
  <2>2. (q - (n + 1)) * i = i * q - (n + 1) * i
    BY <1>1
  <2> QED
    BY <1>1, <2>1, <2>2
<1> QED
  BY <1>1, <1>2

LEMMA OneMore ==
  ASSUME NEW i \in Nat, NEW n \in Nat
  PROVE  ((n + 1) + 1) * i = (n + 1) * i + i /\ (n + 1) * i \in Nat /\ (0 + 1) * i = i
OBVIOUS

----------------------------------------------------------------------------
(* Types, and the phase of the ticker: it fires within one interval. *)

TimeInv == SyncTypeOK /\ began <= now /\ now < nextTick /\ nextTick <= now + Interval

LEMMA TimeInit == SyncInit => TimeInv
<1> SUFFICES ASSUME SyncInit PROVE TimeInv
  OBVIOUS
<1>1. ticked \in BOOLEAN /\ stopCh \in BOOLEAN
  BY Zenon DEF SyncInit
<1> QED
  BY <1>1, SyncerAssumption DEF SyncInit, TimeInv, SyncTypeOK, Never

LEMMA TimeStep == TimeInv /\ [SyncNext]_syncVars => TimeInv'
<1> SUFFICES ASSUME TimeInv, [SyncNext]_syncVars PROVE TimeInv'
  OBVIOUS
<1> USE SyncerAssumption DEF TimeInv, SyncTypeOK, Never
<1>1. ASSUME NEW v \in Versions, FetchSucceeds(v) PROVE TimeInv'
  BY <1>1 DEF FetchSucceeds
<1>2. CASE FetchFails
  BY <1>2 DEF FetchFails
<1>3. CASE SelectTick
  <2>1. ticked' \in BOOLEAN
    BY <1>3, Zenon DEF SelectTick
  <2> QED
    BY <1>3, <2>1 DEF SelectTick
<1>4. CASE SelectStop \/ Stop
  BY <1>4 DEF SelectStop, Stop
<1>5. CASE TimePasses
  BY <1>5 DEF TimePasses, TickerFires
<1>6. CASE UNCHANGED syncVars
  BY <1>6 DEF syncVars
<1> QED
  BY <1>1, <1>2, <1>3, <1>4, <1>5, <1>6 DEF SyncNext

\* The syncer's state is of its type.
THEOREM SyncerTyped == SyncSpec => []SyncTypeOK
<1>1. TimeInv => SyncTypeOK
  BY DEF TimeInv
<1> QED
  BY <1>1, TimeInit, TimeStep, PTL DEF SyncSpec

----------------------------------------------------------------------------
(* Each failure costs one interval: the fetch after n failures begins at   *)
(* most n + 1 intervals after the last success, because the tick that      *)
(* starts it is waiting in the channel or is due by then.                  *)

Due == lastSync + (failures + 1) * Interval

OnTime ==
  lastSync # Never =>
    /\ pc = "fetching" =>
         /\ began <= Due /\ now <= began + FetchTimeout
         /\ ticked \/ nextTick <= Due + Interval
    /\ pc = "waiting" =>
         IF ticked THEN now <= Due ELSE nextTick <= Due

\* Before the first success too, a fetch is cut off by the timeout.
CutOff == pc = "fetching" => now <= began + FetchTimeout

LEMMA OnTimeStep ==
  TimeInv /\ CutOff /\ OnTime /\ [SyncNext]_syncVars => CutOff' /\ OnTime'
<1> SUFFICES ASSUME TimeInv, CutOff, OnTime, [SyncNext]_syncVars
             PROVE  CutOff' /\ OnTime'
  OBVIOUS
<1>0. TimeInv' /\ (failures + 1) * Interval \in Nat
  BY TimeStep, OneMore, SyncerAssumption DEF TimeInv, SyncTypeOK
<1>1. ASSUME NEW v \in Versions, FetchSucceeds(v) PROVE CutOff' /\ OnTime'
  <2>1. Due' = now + Interval
    BY <1>1, OneMore, SyncerAssumption DEF FetchSucceeds, Due, TimeInv, SyncTypeOK
  <2> QED
    BY <1>1, <2>1, SyncerAssumption
    DEF FetchSucceeds, CutOff, OnTime, TimeInv, SyncTypeOK
<1>2. CASE FetchFails
  <2>1. lastSync # Never => Due' = Due + Interval
    BY <1>0, <1>2, OneMore, SyncerAssumption DEF FetchFails, Due, TimeInv, SyncTypeOK, Never
  <2> DEFINE D == Due
  <2>2. Due \in Int
    BY <1>0 DEF Due, TimeInv, SyncTypeOK, Never
  <2> QED
    BY <1>2, <2>1, <2>2, SyncerAssumption
    DEF FetchFails, CutOff, OnTime, TimeInv, SyncTypeOK
<1>3. ASSUME SelectTick \/ SelectStop \/ Stop \/ TimePasses \/ UNCHANGED syncVars
      PROVE  CutOff' /\ OnTime'
  <2>1. Due' = Due /\ lastSync' = lastSync
    BY <1>3 DEF SelectTick, SelectStop, Stop, TimePasses, syncVars, Due
  <2>2. Due \in Int
    BY <1>0 DEF Due, TimeInv, SyncTypeOK, Never
  <2> HIDE DEF Due
  <2>3. CASE SelectTick
    BY <2>1, <2>2, <2>3, SyncerAssumption
    DEF SelectTick, CutOff, OnTime, TimeInv, SyncTypeOK
  <2>4. CASE SelectStop \/ Stop \/ UNCHANGED syncVars
    BY <2>1, <2>2, <2>4, SyncerAssumption
    DEF SelectStop, Stop, syncVars, CutOff, OnTime, TimeInv, SyncTypeOK
  <2>5. CASE TimePasses
    <3>1. /\ now' = now + 1 /\ pc' = pc /\ began' = began
          /\ nextTick' = IF TickerFires THEN nextTick + Interval ELSE nextTick
          /\ ticked' <=> ticked \/ TickerFires
          /\ MayWait
      BY <2>5, Zenon DEF TimePasses
    <3>2. /\ now \in Nat /\ began \in Nat /\ nextTick \in Nat
          /\ now < nextTick /\ nextTick <= now + Interval
      BY DEF TimeInv, SyncTypeOK
    <3>3. CASE pc = "fetching"
      <4>1. now - began < FetchTimeout
        BY <3>1, <3>3 DEF MayWait
      <4>2. now' <= began' + FetchTimeout
        BY <4>1, <3>1, <3>2, SyncerAssumption
      <4>3. lastSync # Never => /\ began' <= Due
                                /\ ticked' \/ nextTick' <= Due + Interval
        BY <3>1, <3>2, <3>3 DEF OnTime
      <4> QED
        BY <2>1, <3>1, <3>3, <4>2, <4>3 DEF OnTime, CutOff
    <3>4. CASE pc = "waiting"
      <4>1. ~ticked
        BY <3>1, <3>4 DEF MayWait
      <4>2. lastSync # Never => nextTick <= Due
        BY <3>4, <4>1 DEF OnTime
      <4>3. lastSync # Never => IF ticked' THEN now' <= Due ELSE nextTick' <= Due
        <5>1. CASE TickerFires
          BY <2>2, <3>1, <3>2, <4>2, <5>1 DEF TickerFires
        <5>2. CASE ~TickerFires
          BY <3>1, <4>1, <4>2, <5>2
        <5> QED
          BY <5>1, <5>2
      <4> QED
        BY <2>1, <3>1, <3>4, <4>3 DEF OnTime, CutOff
    <3>5. CASE pc = "returned"
      BY <3>1, <3>5 DEF CutOff, OnTime
    <3> QED
      BY <3>3, <3>4, <3>5 DEF TimeInv, SyncTypeOK
  <2> QED
    BY <1>3, <2>3, <2>4, <2>5
<1> QED
  BY <1>1, <1>2, <1>3 DEF SyncNext

LEMMA OnTimeEnough == TimeInv /\ OnTime => StaleMeansOutage
<1> SUFFICES ASSUME TimeInv, OnTime, pc # "returned", lastSync # Never, IsHardStale
             PROVE  failures >= Chances
  BY DEF StaleMeansOutage
<1> DEFINE span == (failures + 1) * Interval
<1>1. span \in Nat /\ failures \in Nat
  BY OneMore, SyncerAssumption DEF TimeInv, SyncTypeOK
<1>2. now <= lastSync + span + FetchTimeout
  <2> HIDE DEF span
  <2>1. Due = lastSync + span
    BY DEF Due, span
  <2> QED
    BY <1>1, <2>1, SyncerAssumption DEF OnTime, TimeInv, SyncTypeOK, Never
<1>3. StaleAfter - FetchTimeout < span
  <2> HIDE DEF span
  <2> QED
    BY <1>1, <1>2, SyncerAssumption DEF IsHardStale, TimeInv, SyncTypeOK, Never
<1>4. (StaleAfter - FetchTimeout) \in Int
  BY SyncerAssumption
<1>5. ((StaleAfter - FetchTimeout) \div Interval) <= failures
  BY <1>1, <1>3, <1>4, DivBound, SyncerAssumption
<1>6. Chances \in Int
  BY SyncerAssumption DEF Chances
<1> QED
  BY <1>1, <1>5, <1>6 DEF Chances

\* A running syncer turns hard stale only after every download that a whole
\* threshold has room for has failed.
THEOREM StalenessEarned == SyncSpec => []StaleMeansOutage
<1>1. SyncInit => TimeInv /\ CutOff /\ OnTime
  BY TimeInit, SyncerAssumption DEF SyncInit, CutOff, OnTime
<1>2. TimeInv /\ CutOff /\ OnTime /\ [SyncNext]_syncVars => TimeInv' /\ CutOff' /\ OnTime'
  BY TimeStep, OnTimeStep
<1>3. TimeInv /\ OnTime => StaleMeansOutage
  BY OnTimeEnough
<1> QED
  BY <1>1, <1>2, <1>3, PTL DEF SyncSpec
=============================================================================
