------------------------- MODULE ProxyHandlerProofs ------------------------
(***************************************************************************)
(* Safety of the request handler, for every set of requests and packages,  *)
(* every configuration, cache size, TTL, client timeout and staleness      *)
(* threshold.  Three layers, each inductive given the one before: types    *)
(* and the cache's own invariant, then what every program point decides    *)
(* (DecisionInv), then how old what it decides on may be (AgeInv).         *)
(***************************************************************************)
EXTENDS ProxyHandler, ResultCacheProofs

\* The variables of the handlers alone.
HandlerTypeOK ==
  /\ config \in Configs
  /\ pc \in [Requests -> {"new", "gate", "lookup", "api", "replying", "hit",
                          "fresh", "refused", "store", "done"}]
  /\ pkg \in [Requests -> Keys \cup {Unmatched}]
  /\ verdict \in [Requests -> Result \cup {NoVerdict}]
  /\ sent \in [Requests -> 0 .. Horizon]
  /\ outcome \in [Requests -> {"pending", "passed", "blocked"}]
  /\ report \subseteq Requests \X Actions
  /\ lastSync \in {Never} \cup 0 .. Horizon

\* The results the handler builds are check results.
LEMMA BuiltResults ==
  ASSUME HandlerTypeOK, now \in 0 .. Horizon
  PROVE  /\ \A why \in {"outage", "policy"} : StrictBlock(why) \in Result
         /\ \A v \in Actions \cup {"absent"} : FromAPI(v) \in Result
         /\ \A p \in Keys : InFeed(p) => FromFeed(p) \in Result
         /\ \A x \in Result : Effective(x) \in Result
<1>1. 0 \in 0 .. Horizon
  BY CacheAssumption
<1>2. \A p \in Keys : InFeed(p) => config.feed[p] \in Actions
  BY HandlerAssumption DEF HandlerTypeOK, ConfigType, InFeed
<1>3. {"allow", "warn", "block"} \subseteq Actions
  BY HandlerAssumption
<1>4. \A why \in {"outage", "policy"} : StrictBlock(why) \in Result
  BY <1>1, <1>3 DEF Result, StrictBlock
<1>5. \A v \in Actions \cup {"absent"} : FromAPI(v) \in Result
  BY <1>3 DEF Result, FromAPI
<1>6. \A p \in Keys : InFeed(p) => FromFeed(p) \in Result
  BY <1>1, <1>2 DEF Result, FromFeed
<1>7. \A x \in Result : Effective(x) \in Result
  BY <1>3 DEF Result, Effective
<1> QED
  BY <1>4, <1>5, <1>6, <1>7

\* A handler past its arrival works on a matched package.
Matched == \A r \in Requests : pc[r] \notin {"new", "done"} => pkg[r] \in Keys

\* A handler that is about to store holds a result.
Holding ==
  \A r \in Requests : pc[r] \in {"replying", "hit", "fresh", "refused", "store"} =>
    verdict[r] \in Result

TypeIInv == HandlerTypeOK /\ CacheInv /\ Matched /\ Holding

LEMMA InitTypeIInv == Init => TypeIInv
<1> SUFFICES ASSUME Init PROVE TypeIInv
  OBVIOUS
<1>1. CacheInv
  BY InitCacheInv DEF Init
<1>2. HandlerTypeOK
  BY CacheAssumption DEF Init, HandlerTypeOK
<1>3. Matched /\ Holding
  BY DEF Init, Matched, Holding
<1> QED
  BY <1>1, <1>2, <1>3 DEF TypeIInv

LEMMA NextTypeIInv == TypeIInv /\ [Next]_vars => TypeIInv'
<1> SUFFICES ASSUME TypeIInv, [Next]_vars PROVE TypeIInv'
  OBVIOUS
<1> USE DEF TypeIInv, InCall
<1>0. /\ now \in 0 .. Horizon
      /\ \A p \in DOMAIN entries : entries[p].result \in Result
  BY HandlerAssumption DEF CacheInv, CacheTypeOK, Entry
<1>a. UNCHANGED <<entries, order, now>> => CacheInv'
  BY DEF CacheInv, CacheTypeOK, Coherent, Bounded, Capacity
<1>1. ASSUME NEW r \in Requests, NEW u \in Keys \cup {Unmatched}, Arrive(r, u)
      PROVE  TypeIInv'
  BY <1>1, <1>a DEF Arrive, Passed, Goto, HandlerTypeOK, Matched, Holding
<1>2. ASSUME NEW r \in Requests, NEW v \in Actions \cup {"absent"}, Evaluate(r, v)
      PROVE  TypeIInv'
  BY <1>0, <1>2, <1>a, BuiltResults DEF Evaluate, Hold, Goto, HandlerTypeOK, Matched, Holding
<1>3. ASSUME NEW r \in Requests, CheckGate(r) PROVE TypeIInv'
  BY <1>0, <1>3, <1>a, BuiltResults DEF CheckGate, Hold, Goto, HandlerTypeOK, Matched, Holding
<1>4. ASSUME NEW r \in Requests, LookupHit(r) PROVE TypeIInv'
  <2>1. CacheInv'
    BY <1>4, GetHitStep DEF LookupHit, Matched
  <2>2. Effective(entries[pkg[r]].result) \in Result
    BY <1>0, <1>4, BuiltResults DEF LookupHit, GetHit, Hit
  <2> QED
    BY <1>4, <2>1, <2>2 DEF LookupHit, Hold, Goto, HandlerTypeOK, Matched, Holding
<1>5. ASSUME NEW r \in Requests, MissInFeed(r) PROVE TypeIInv'
  <2>1. CacheInv'
    BY <1>5, GetMissStep DEF MissInFeed, Matched
  <2>2. Effective(FromFeed(pkg[r])) \in Result
    BY <1>0, <1>5, BuiltResults DEF MissInFeed, Matched
  <2> QED
    BY <1>5, <2>1, <2>2 DEF MissInFeed, Hold, Goto, HandlerTypeOK, Matched, Holding
<1>6. ASSUME NEW r \in Requests, MissCallAPI(r) PROVE TypeIInv'
  <2>1. CacheInv'
    BY <1>6, GetMissStep DEF MissCallAPI, Matched
  <2> QED
    BY <1>0, <1>6, <2>1 DEF MissCallAPI, Goto, HandlerTypeOK, Matched, Holding
<1>7. ASSUME NEW r \in Requests, Receive(r) PROVE TypeIInv'
  <2>1. Effective(verdict[r]) \in Result
    BY <1>0, <1>7, BuiltResults DEF Receive, Holding
  <2>2. 0 \in 0 .. Horizon
    BY CacheAssumption
  <2> QED
    BY <1>7, <1>a, <2>1, <2>2
       DEF Receive, Returned, Hold, Goto, HandlerTypeOK, Matched, Holding
<1>8. ASSUME NEW r \in Requests, CallFails(r) PROVE TypeIInv'
  <2>1. StrictBlock("outage") \in Result
    BY <1>0, BuiltResults
  <2>2. 0 \in 0 .. Horizon
    BY CacheAssumption
  <2>3. CASE config.strict \/ config.closed
    BY <1>8, <1>a, <2>1, <2>2, <2>3
       DEF CallFails, Returned, Hold, Goto, HandlerTypeOK, Matched, Holding
  <2>4. CASE ~(config.strict \/ config.closed)
    BY <1>8, <1>a, <2>2, <2>4
       DEF CallFails, Returned, Passed, Goto, HandlerTypeOK, Matched, Holding
  <2> QED
    BY <2>3, <2>4
<1>9. ASSUME NEW r \in Requests, Recorded(r), verdict[r] \in Result
      PROVE  report' \subseteq Requests \X Actions
  BY <1>9 DEF Recorded, Result, HandlerTypeOK
<1>10. ASSUME NEW r \in Requests, RecordAndAnswer(r) PROVE TypeIInv'
  <2>1. report' \subseteq Requests \X Actions
    BY <1>9, <1>10 DEF RecordAndAnswer, Holding
  <2> QED
    BY <1>10, <1>a, <2>1 DEF RecordAndAnswer, Answer, Goto, HandlerTypeOK, Matched, Holding
<1>11. ASSUME NEW r \in Requests, RecordFresh(r) PROVE TypeIInv'
  <2>1. report' \subseteq Requests \X Actions
    BY <1>9, <1>11 DEF RecordFresh, Holding
  <2> QED
    BY <1>11, <1>a, <2>1 DEF RecordFresh, Goto, HandlerTypeOK, Matched, Holding
<1>12. ASSUME NEW r \in Requests, StoreAndAnswer(r) PROVE TypeIInv'
  <2>1. pkg[r] \in Keys /\ verdict[r] \in Results
    BY <1>12, HandlerAssumption DEF StoreAndAnswer, Matched, Holding
  <2>2. CacheInv'
    BY <1>12, <2>1, SetExistingStep, SetNewStep DEF StoreAndAnswer, Set
  <2> QED
    BY <1>12, <2>2 DEF StoreAndAnswer, Answer, Goto, HandlerTypeOK, Matched, Holding
<1>13. CASE SyncPolicy
  BY <1>0, <1>13, <1>a DEF SyncPolicy, HandlerTypeOK, Matched, Holding
<1>14. CASE Tick
  <2>1. CacheInv'
    BY <1>14, NextCacheInv DEF Tick, CacheNext, CacheTick
  <2> QED
    BY <1>14, <2>1 DEF Tick, HandlerTypeOK, Matched, Holding
<1>15. CASE UNCHANGED vars
  BY <1>15, <1>a DEF vars, HandlerTypeOK, Matched, Holding
<1> QED
  BY <1>1, <1>2, <1>3, <1>4, <1>5, <1>6, <1>7, <1>8, <1>10, <1>11, <1>12, <1>13, <1>14, <1>15
     DEF Next, Handle

\* Every reachable state of the handlers, the cache and the report is typed.
THEOREM HandlerTyped == Spec => []TypeOK
<1>1. TypeIInv => TypeOK
  BY DEF TypeIInv, HandlerTypeOK, TypeOK, CacheInv
<1> QED
  BY <1>1, InitTypeIInv, NextTypeIInv, PTL DEF Spec

----------------------------------------------------------------------------
\* Strict mode turns every result the handler adopts into one it may cache.
LEMMA AdoptedGenuine ==
  ASSUME HandlerTypeOK, NEW p \in Keys
  PROVE  /\ InFeed(p) => Genuine(Effective(FromFeed(p)), p)
         /\ \A x \in Result : ~InFeed(p) /\ x.source = "api" => Genuine(Effective(x), p)
         /\ \A x \in Result : Genuine(x, p) => Genuine(Effective(x), p)
<1>1. "block" # NoVerdict
  BY HandlerAssumption
<1>2. ASSUME InFeed(p) PROVE Genuine(Effective(FromFeed(p)), p)
  BY <1>2 DEF FromFeed, Effective, Genuine
<1>3. ASSUME NEW x \in Result, ~InFeed(p), x.source = "api"
      PROVE  Genuine(Effective(x), p)
  BY <1>1, <1>3 DEF Result, InFeed, Effective, Genuine
<1>4. ASSUME NEW x \in Result, Genuine(x, p) PROVE Genuine(Effective(x), p)
  BY <1>4 DEF Result, Effective, Genuine
<1> QED
  BY <1>2, <1>3, <1>4

LEMMA InitDecisionInv == Init => DecisionInv
<1> SUFFICES ASSUME Init PROVE DecisionInv
  OBVIOUS
<1>1. DOMAIN entries = {}
  BY DEF Init, CacheInit
<1> QED
  BY <1>1 DEF Init, DecisionInv, PointSound, DoneSound, EntriesSound, ReportSound

\* What a step of handler r must show: its own point, answer and records are
\* sound, the other handlers and the other records are as they were.
LEMMA StepOfOne ==
  ASSUME TypeIInv, DecisionInv, NEW r \in Requests, config' = config,
         \A q \in Requests \ {r} :
           /\ pc'[q] = pc[q] /\ pkg'[q] = pkg[q]
           /\ verdict'[q] = verdict[q] /\ outcome'[q] = outcome[q],
         \A q \in Requests \ {r}, a \in Actions :
           <<q, a>> \in report' <=> <<q, a>> \in report,
         PointSound(r)', DoneSound(r)', EntriesSound',
         \A a \in Actions : <<r, a>> \in report' =>
           pc'[r] \in {"store", "done"} /\ verdict'[r] # NoVerdict /\ a = verdict'[r].action,
         config.reporting /\ pc'[r] \in {"store", "done"} /\ verdict'[r] # NoVerdict =>
           <<r, verdict'[r].action>> \in report'
  PROVE  DecisionInv'
<1>1. ASSUME NEW q \in Requests \ {r} PROVE PointSound(q)' /\ DoneSound(q)'
  BY <1>1 DEF DecisionInv, PointSound, DoneSound, Genuine, InFeed, Allowed
<1>2. ReportSound'
  <2>1. ASSUME NEW q \in Requests, NEW a \in Actions, <<q, a>> \in report'
        PROVE  /\ pc'[q] \in {"store", "done"} /\ verdict'[q] # NoVerdict
               /\ a = verdict'[q].action
    BY <2>1 DEF DecisionInv, ReportSound
  <2>2. ASSUME NEW q \in Requests, config.reporting,
               pc'[q] \in {"store", "done"}, verdict'[q] # NoVerdict
        PROVE  <<q, verdict'[q].action>> \in report'
    <3>1. CASE q = r
      BY <2>2, <3>1
    <3>2. CASE q # r
      <4>1. verdict[q] \in Result
        BY <2>2, <3>2 DEF TypeIInv, HandlerTypeOK
      <4>2. verdict[q].action \in Actions
        BY <4>1 DEF Result
      <4> QED
        BY <2>2, <3>2, <4>2 DEF DecisionInv, ReportSound
    <3> QED
      BY <3>1, <3>2
  <2> QED
    BY <2>1, <2>2 DEF ReportSound
<1> QED
  BY <1>1, <1>2 DEF DecisionInv

LEMMA NextDecisionInv == TypeIInv /\ DecisionInv /\ [Next]_vars => DecisionInv'
<1> SUFFICES ASSUME TypeIInv, DecisionInv, [Next]_vars PROVE DecisionInv'
  OBVIOUS
<1> USE DEF Goto, InCall
<1>a. UNCHANGED <<config, entries>> => EntriesSound'
  BY DEF DecisionInv, EntriesSound, Genuine
<1>b. "block" # NoVerdict
  BY HandlerAssumption
<1>1. ASSUME NEW r \in Requests, NEW u \in Keys \cup {Unmatched}, Arrive(r, u)
      PROVE  DecisionInv'
  <2>1. PointSound(r)' /\ DoneSound(r)'
    BY <1>1, HandlerAssumption
       DEF Arrive, Passed, TypeIInv, HandlerTypeOK, DecisionInv, PointSound, DoneSound
  <2>2. \A a \in Actions : <<r, a>> \notin report
    BY <1>1 DEF Arrive, DecisionInv, ReportSound
  <2> QED
    BY <1>1, <1>a, <2>1, <2>2, StepOfOne
       DEF Arrive, Passed, TypeIInv, HandlerTypeOK, DecisionInv, PointSound
<1>2. ASSUME NEW r \in Requests, NEW v \in Actions \cup {"absent"}, Evaluate(r, v)
      PROVE  DecisionInv'
  <2>1. FromAPI(v) # NoVerdict
    BY BuiltResults, HandlerAssumption DEF TypeIInv, CacheInv, CacheTypeOK
  <2>2. PointSound(r)' /\ DoneSound(r)'
    BY <1>2, <2>1
       DEF Evaluate, Hold, TypeIInv, HandlerTypeOK, DecisionInv, PointSound, DoneSound,
           InFeed, FromAPI
  <2>3. \A a \in Actions : <<r, a>> \notin report
    BY <1>2 DEF Evaluate, DecisionInv, ReportSound
  <2> QED
    BY <1>2, <1>a, <2>2, <2>3, StepOfOne DEF Evaluate, Hold, TypeIInv, HandlerTypeOK
<1>3. ASSUME NEW r \in Requests, CheckGate(r) PROVE DecisionInv'
  <2>1. /\ StrictBlock("policy") # NoVerdict
        /\ StrictBlock("policy").action = "block" /\ StrictBlock("policy").source = "policy"
    BY BuiltResults, HandlerAssumption DEF TypeIInv, CacheInv, CacheTypeOK, StrictBlock
  <2>2. PointSound(r)' /\ DoneSound(r)'
    BY <1>3, <2>1
       DEF CheckGate, Hold, TypeIInv, HandlerTypeOK, DecisionInv, PointSound, DoneSound
  <2>3. \A a \in Actions : <<r, a>> \notin report
    BY <1>3 DEF CheckGate, DecisionInv, ReportSound
  <2> QED
    BY <1>3, <1>a, <2>2, <2>3, StepOfOne DEF CheckGate, Hold, TypeIInv, HandlerTypeOK
<1>4. ASSUME NEW r \in Requests, LookupHit(r) PROVE DecisionInv'
  <2> DEFINE x == Effective(entries[pkg[r]].result)
  <2>1. pkg[r] \in Keys /\ pkg[r] \in DOMAIN entries /\ entries[pkg[r]].result \in Result
    BY <1>4, HandlerAssumption
       DEF LookupHit, GetHit, Hit, TypeIInv, Matched, CacheInv, CacheTypeOK, Entry
  <2>2. Genuine(x, pkg[r])
    BY <2>1, AdoptedGenuine DEF TypeIInv, DecisionInv, EntriesSound
  <2>3. x # NoVerdict
    BY <2>1, BuiltResults, HandlerAssumption DEF TypeIInv, CacheInv, CacheTypeOK
  <2> HIDE DEF x
  <2>4. /\ config' = config /\ pkg' = pkg /\ outcome' = outcome /\ report' = report
        /\ entries' = entries /\ pc[r] = "lookup"
        /\ pc' = [pc EXCEPT ![r] = "hit"] /\ verdict' = [verdict EXCEPT ![r] = x]
    BY <1>4 DEF LookupHit, GetHit, Hold, x
  <2>5. PointSound(r)' /\ DoneSound(r)'
    BY <2>1, <2>2, <2>3, <2>4
       DEF TypeIInv, HandlerTypeOK, DecisionInv, PointSound, DoneSound, Genuine
  <2>6. \A a \in Actions : <<r, a>> \notin report
    BY <2>4 DEF DecisionInv, ReportSound
  <2> QED
    BY <1>a, <2>4, <2>5, <2>6, StepOfOne DEF TypeIInv, HandlerTypeOK
<1>5. ASSUME NEW r \in Requests, MissInFeed(r) PROVE DecisionInv'
  <2> DEFINE x == Effective(FromFeed(pkg[r]))
  <2>1. pkg[r] \in Keys /\ InFeed(pkg[r])
    BY <1>5 DEF MissInFeed, TypeIInv, Matched
  <2>2. Genuine(x, pkg[r])
    BY <2>1, AdoptedGenuine DEF TypeIInv
  <2>3. x # NoVerdict
    BY <2>1, BuiltResults, HandlerAssumption DEF TypeIInv, CacheInv, CacheTypeOK
  <2> HIDE DEF x
  <2>4. /\ config' = config /\ pkg' = pkg /\ outcome' = outcome /\ report' = report
        /\ pc[r] = "lookup"
        /\ pc' = [pc EXCEPT ![r] = "fresh"] /\ verdict' = [verdict EXCEPT ![r] = x]
    BY <1>5 DEF MissInFeed, Hold, x
  <2>5. EntriesSound'
    BY <1>5, <2>4
       DEF MissInFeed, GetMiss, GetExpired, GetAbsent, DecisionInv, EntriesSound, Genuine
  <2>6. PointSound(r)' /\ DoneSound(r)'
    BY <2>1, <2>2, <2>3, <2>4
       DEF TypeIInv, HandlerTypeOK, DecisionInv, PointSound, DoneSound, Genuine
  <2>7. \A a \in Actions : <<r, a>> \notin report
    BY <2>4 DEF DecisionInv, ReportSound
  <2> QED
    BY <2>4, <2>5, <2>6, <2>7, StepOfOne DEF TypeIInv, HandlerTypeOK
<1>6. ASSUME NEW r \in Requests, MissCallAPI(r) PROVE DecisionInv'
  <2>1. /\ config' = config /\ pkg' = pkg /\ outcome' = outcome /\ report' = report
        /\ pc[r] = "lookup" /\ ~InFeed(pkg[r])
        /\ pc' = [pc EXCEPT ![r] = "api"] /\ verdict' = verdict
    BY <1>6 DEF MissCallAPI
  <2>2. EntriesSound'
    BY <1>6, <2>1
       DEF MissCallAPI, GetMiss, GetExpired, GetAbsent, DecisionInv, EntriesSound, Genuine
  <2>3. PointSound(r)' /\ DoneSound(r)'
    BY <2>1 DEF TypeIInv, HandlerTypeOK, DecisionInv, PointSound, DoneSound, InFeed
  <2>4. \A a \in Actions : <<r, a>> \notin report
    BY <2>1 DEF DecisionInv, ReportSound
  <2> QED
    BY <2>1, <2>2, <2>3, <2>4, StepOfOne DEF TypeIInv, HandlerTypeOK
<1>7. ASSUME NEW r \in Requests, Receive(r) PROVE DecisionInv'
  <2> DEFINE x == Effective(verdict[r])
  <2>1. /\ pkg[r] \in Keys /\ ~InFeed(pkg[r])
        /\ verdict[r] \in Result /\ verdict[r].source = "api"
    BY <1>7 DEF Receive, TypeIInv, Matched, Holding, DecisionInv, PointSound
  <2>2. Genuine(x, pkg[r])
    BY <2>1, AdoptedGenuine DEF TypeIInv
  <2>3. x # NoVerdict
    BY <2>1, BuiltResults, HandlerAssumption DEF TypeIInv, CacheInv, CacheTypeOK
  <2> HIDE DEF x
  <2>4. /\ config' = config /\ pkg' = pkg /\ outcome' = outcome /\ report' = report
        /\ entries' = entries /\ pc[r] = "replying"
        /\ pc' = [pc EXCEPT ![r] = "fresh"] /\ verdict' = [verdict EXCEPT ![r] = x]
    BY <1>7 DEF Receive, Hold, x
  <2>5. PointSound(r)' /\ DoneSound(r)'
    BY <2>1, <2>2, <2>3, <2>4
       DEF TypeIInv, HandlerTypeOK, DecisionInv, PointSound, DoneSound, Genuine
  <2>6. \A a \in Actions : <<r, a>> \notin report
    BY <2>4 DEF DecisionInv, ReportSound
  <2> QED
    BY <1>a, <2>4, <2>5, <2>6, StepOfOne DEF TypeIInv, HandlerTypeOK
<1>8. ASSUME NEW r \in Requests, CallFails(r) PROVE DecisionInv'
  <2>1. /\ StrictBlock("outage") # NoVerdict
        /\ StrictBlock("outage").action = "block" /\ StrictBlock("outage").source = "outage"
    BY BuiltResults, HandlerAssumption DEF TypeIInv, CacheInv, CacheTypeOK, StrictBlock
  <2>2. pkg[r] \in Keys /\ ~InFeed(pkg[r])
    BY <1>8 DEF CallFails, TypeIInv, Matched, DecisionInv, PointSound
  <2>3. PointSound(r)' /\ DoneSound(r)'
    BY <1>8, <2>1, <2>2
       DEF CallFails, Hold, Passed, TypeIInv, HandlerTypeOK, DecisionInv, PointSound,
           DoneSound, InFeed
  <2>4. \A a \in Actions : <<r, a>> \notin report
    BY <1>8 DEF CallFails, DecisionInv, ReportSound
  <2> QED
    BY <1>8, <1>a, <2>3, <2>4, StepOfOne
       DEF CallFails, Hold, Passed, TypeIInv, HandlerTypeOK
<1>c. ASSUME NEW r \in Requests, Recorded(r), verdict'[r] = verdict[r],
             \A a \in Actions : <<r, a>> \notin report,
             config' = config
      PROVE  /\ \A q \in Requests \ {r}, a \in Actions :
                  <<q, a>> \in report' <=> <<q, a>> \in report
             /\ \A a \in Actions : <<r, a>> \in report' => a = verdict'[r].action
             /\ config.reporting => <<r, verdict'[r].action>> \in report'
  BY <1>c DEF Recorded
<1>9. ASSUME NEW r \in Requests, RecordAndAnswer(r) PROVE DecisionInv'
  <2>1. verdict[r] # NoVerdict /\ pkg[r] \in Keys /\ pc[r] \in {"hit", "refused"}
    BY <1>9 DEF RecordAndAnswer, DecisionInv, PointSound
  <2>2. \A a \in Actions : <<r, a>> \notin report
    BY <2>1 DEF DecisionInv, ReportSound
  <2>3. Allowed(verdict[r]) => Genuine(verdict[r], pkg[r])
    BY <2>1 DEF DecisionInv, PointSound, Allowed
  <2>4. PointSound(r)' /\ DoneSound(r)'
    BY <1>9, <2>1, <2>3
       DEF RecordAndAnswer, Answer, TypeIInv, HandlerTypeOK, PointSound, DoneSound,
           Genuine, Allowed
  <2> QED
    BY <1>9, <1>a, <1>c, <2>1, <2>2, <2>4, StepOfOne
       DEF RecordAndAnswer, Answer, TypeIInv, HandlerTypeOK
<1>10. ASSUME NEW r \in Requests, RecordFresh(r) PROVE DecisionInv'
  <2>1. verdict[r] # NoVerdict /\ pkg[r] \in Keys /\ pc[r] = "fresh"
        /\ Genuine(verdict[r], pkg[r])
    BY <1>10 DEF RecordFresh, DecisionInv, PointSound
  <2>2. \A a \in Actions : <<r, a>> \notin report
    BY <2>1 DEF DecisionInv, ReportSound
  <2>3. PointSound(r)' /\ DoneSound(r)'
    BY <1>10, <2>1
       DEF RecordFresh, TypeIInv, HandlerTypeOK, PointSound, DoneSound, Genuine
  <2> QED
    BY <1>10, <1>a, <1>c, <2>1, <2>2, <2>3, StepOfOne
       DEF RecordFresh, TypeIInv, HandlerTypeOK
<1>11. ASSUME NEW r \in Requests, StoreAndAnswer(r) PROVE DecisionInv'
  <2>1. verdict[r] # NoVerdict /\ pkg[r] \in Keys /\ pc[r] = "store"
        /\ Genuine(verdict[r], pkg[r])
    BY <1>11 DEF StoreAndAnswer, DecisionInv, PointSound
  <2>2. PointSound(r)' /\ DoneSound(r)'
    BY <1>11, <2>1
       DEF StoreAndAnswer, Answer, TypeIInv, HandlerTypeOK, PointSound, DoneSound,
           Genuine, Allowed
  <2>3. EntriesSound'
    BY <1>11, <2>1
       DEF StoreAndAnswer, Set, SetExisting, SetNew, Stored, DecisionInv, EntriesSound,
           Genuine
  <2>4. /\ \A a \in Actions : <<r, a>> \in report => a = verdict[r].action
        /\ config.reporting => <<r, verdict[r].action>> \in report
    BY <2>1 DEF DecisionInv, ReportSound
  <2> QED
    BY <1>11, <2>1, <2>2, <2>3, <2>4, StepOfOne
       DEF StoreAndAnswer, Answer, TypeIInv, HandlerTypeOK
<1>12. ASSUME UNCHANGED <<config, pc, pkg, verdict, outcome, report, entries>>
       PROVE  DecisionInv'
  BY <1>12 DEF DecisionInv, PointSound, DoneSound, EntriesSound, ReportSound, Genuine,
               InFeed, Allowed
<1> QED
  BY <1>1, <1>2, <1>3, <1>4, <1>5, <1>6, <1>7, <1>8, <1>9, <1>10, <1>11, <1>12
     DEF Next, Handle, SyncPolicy, Tick, vars

SafetyInv == TypeIInv /\ DecisionInv

LEMMA AlwaysSafetyInv == Spec => []SafetyInv
<1>1. Init => SafetyInv
  BY InitTypeIInv, InitDecisionInv DEF SafetyInv
<1>2. SafetyInv /\ [Next]_vars => SafetyInv'
  BY NextTypeIInv, NextDecisionInv DEF SafetyInv
<1> QED
  BY <1>1, <1>2, PTL DEF Spec

\* Strict mode and fail_mode=closed are fail-closed: a failed call lets no
\* matched package through, and in strict mode no warning does either.
THEOREM FailClosed == Spec => []EnforcedPass
<1>1. SafetyInv => EnforcedPass
  <2> SUFFICES ASSUME SafetyInv, NEW r \in Requests, Decided(r), outcome[r] = "passed",
                      config.strict \/ config.closed
               PROVE  /\ verdict[r] # NoVerdict
                      /\ verdict[r].source \in {"api", "feed"}
                      /\ verdict[r].action # "block"
                      /\ config.strict => verdict[r].action # "warn"
    BY DEF EnforcedPass
  <2>1. DoneSound(r)
    BY DEF SafetyInv, DecisionInv
  <2> QED
    BY <2>1 DEF DoneSound, Decided, Allowed, Genuine
<1> QED
  BY <1>1, AlwaysSafetyInv, PTL

\* A package the fallback feed blocks is refused to every request, through
\* outages, evictions and cached results alike.
THEOREM FeedBlocksAlways == Spec => []FeedBlocks
<1>1. SafetyInv => FeedBlocks
  <2> SUFFICES ASSUME SafetyInv, NEW r \in Requests, Decided(r),
                      config.feed[pkg[r]] = "block"
               PROVE  outcome[r] = "blocked"
    BY DEF FeedBlocks
  <2>1. DoneSound(r)
    BY DEF SafetyInv, DecisionInv
  <2>2. "block" # NoVerdict
    BY HandlerAssumption
  <2> QED
    BY <2>1, <2>2 DEF DoneSound, Decided, Allowed, Genuine, InFeed
<1> QED
  BY <1>1, AlwaysSafetyInv, PTL

\* With a reporter attached, the report agrees with what each package manager
\* was answered, record by record.
THEOREM ReportFaithful == Spec => []ReportAgrees
<1>1. SafetyInv => ReportAgrees
  <2> SUFFICES ASSUME SafetyInv, config.reporting, NEW r \in Requests, Decided(r)
               PROVE  LET recorded == {a \in Actions : <<r, a>> \in report}
                      IN  IF verdict[r] = NoVerdict
                            THEN recorded = {} /\ outcome[r] = "passed"
                            ELSE \E a \in Actions :
                                   recorded = {a} /\ (a = "block" <=> outcome[r] = "blocked")
    BY DEF ReportAgrees
  <2>1. DoneSound(r) /\ ReportSound
    BY DEF SafetyInv, DecisionInv
  <2>2. CASE verdict[r] = NoVerdict
    BY <2>1, <2>2 DEF DoneSound, ReportSound, Decided
  <2>3. CASE verdict[r] # NoVerdict
    <3>1. verdict[r].action \in Actions
      BY <2>3 DEF SafetyInv, TypeIInv, HandlerTypeOK, Result
    <3>2. {a \in Actions : <<r, a>> \in report} = {verdict[r].action}
      BY <2>1, <2>3, <3>1 DEF ReportSound, Decided
    <3>3. verdict[r].action = "block" <=> outcome[r] = "blocked"
      BY <2>1, <2>3 DEF DoneSound, Decided, Allowed
    <3> QED
      BY <2>3, <3>1, <3>2, <3>3
  <2> QED
    BY <2>2, <2>3
<1> QED
  BY <1>1, AlwaysSafetyInv, PTL

\* The synthetic block of an outage or of a stale policy is never cached, so
\* it refuses the request it was made for and no other.
THEOREM OutageNotPinned == Spec => []OnlyVerdictsCached
<1>1. SafetyInv => OnlyVerdictsCached
  BY DEF SafetyInv, DecisionInv, EntriesSound, OnlyVerdictsCached, Genuine
<1> QED
  BY <1>1, AlwaysSafetyInv, PTL

----------------------------------------------------------------------------
LEMMA InitAgeInv == Init => AgeInv
<1> SUFFICES ASSUME Init PROVE AgeInv
  OBVIOUS
<1>1. DOMAIN entries = {}
  BY DEF Init, CacheInit
<1>2. \A r \in Requests : pc[r] = "new"
  BY DEF Init
<1> QED
  BY <1>1, <1>2 DEF Init, CacheInit, AgeInv, CallAge, GateAge, EntryAge, Never

\* The numbers that AgeInv compares are integers.
LEMMA Numbers ==
  ASSUME SafetyInv
  PROVE  /\ now \in Int /\ lastSync \in Int /\ TTL \in Int /\ Timeout \in Int
         /\ StaleAfter \in Int
         /\ TTL >= 0 /\ Timeout >= 0
         /\ \A r \in Requests : sent[r] \in Int
         /\ \A r \in Requests : verdict[r] # NoVerdict => verdict[r].at \in Int
         /\ \A p \in DOMAIN entries :
              entries[p].expiresAt \in Int /\ entries[p].result.at \in Int
<1>1. now \in Int /\ lastSync \in Int
  BY DEF SafetyInv, TypeIInv, HandlerTypeOK, CacheInv, CacheTypeOK, Never
<1>0. 0 .. Horizon \subseteq Int
  OBVIOUS
<1>2. \A r \in Requests : sent[r] \in Int
  BY <1>0 DEF SafetyInv, TypeIInv, HandlerTypeOK
<1>3. \A x \in Result : x.at \in Int
  BY <1>0 DEF Result
<1>4. \A r \in Requests : verdict[r] # NoVerdict => verdict[r].at \in Int
  BY <1>3 DEF SafetyInv, TypeIInv, HandlerTypeOK
<1>5. \A p \in DOMAIN entries :
        entries[p].expiresAt \in Int /\ entries[p].result.at \in Int
  <2>1. Horizon \in Int /\ TTL \in Int
    BY CacheAssumption
  <2>2. 0 .. Horizon + TTL \subseteq Int
    BY <2>1
  <2>3. Results = Result
    BY HandlerAssumption
  <2>4. \A e \in Entry : e.expiresAt \in Int /\ e.result.at \in Int
    BY <1>3, <2>2, <2>3 DEF Entry
  <2>5. \A p \in DOMAIN entries : entries[p] \in Entry
    BY DEF SafetyInv, TypeIInv, CacheInv, CacheTypeOK
  <2> QED
    BY <2>4, <2>5
<1>6. TTL \in Int /\ TTL >= 0
  BY CacheAssumption
<1>7. Timeout \in Int /\ Timeout >= 0 /\ StaleAfter \in Int
  BY HandlerAssumption
<1> QED
  BY <1>1, <1>2, <1>4, <1>5, <1>6, <1>7

\* What a step of one handler must show when the clock, the policy's download
\* and the configuration are as they were.
LEMMA AgeStepOfOne ==
  ASSUME AgeInv, NEW r \in Requests,
         config' = config, now' = now, lastSync' = lastSync,
         \A q \in Requests \ {r} :
           pc'[q] = pc[q] /\ verdict'[q] = verdict[q] /\ sent'[q] = sent[q],
         CallAge(r)', GateAge(r)', EntryAge'
  PROVE  AgeInv'
<1>1. ASSUME NEW q \in Requests \ {r} PROVE CallAge(q)' /\ GateAge(q)'
  BY <1>1 DEF AgeInv, CallAge, GateAge
<1> QED
  BY <1>1 DEF AgeInv

LEMMA NextAgeInv == SafetyInv /\ AgeInv /\ [Next]_vars => AgeInv'
<1> SUFFICES ASSUME SafetyInv, AgeInv, [Next]_vars PROVE AgeInv'
  OBVIOUS
<1> USE DEF Goto, InCall
<1>a. HandlerTypeOK
  BY DEF SafetyInv, TypeIInv
<1>b. entries' = entries => EntryAge'
  BY DEF AgeInv, EntryAge
<1>c. \A r \in Requests : GetMiss(pkg[r]) => EntryAge'
  BY DEF GetMiss, GetExpired, GetAbsent, AgeInv, EntryAge
<1>1. ASSUME NEW r \in Requests, NEW u \in Keys \cup {Unmatched}, Arrive(r, u)
      PROVE  AgeInv'
  <2>1. CallAge(r)' /\ GateAge(r)'
    BY <1>1, <1>a DEF Arrive, Passed, HandlerTypeOK, CallAge, GateAge
  <2> QED
    BY <1>1, <1>a, <1>b, <2>1, AgeStepOfOne DEF Arrive, Passed, HandlerTypeOK
<1>2. ASSUME NEW r \in Requests, NEW v \in Actions \cup {"absent"}, Evaluate(r, v)
      PROVE  AgeInv'
  <2> DEFINE x == FromAPI(v)
  <2>1. x.at = now
    BY DEF FromAPI
  <2> HIDE DEF x
  <2>2. /\ config' = config /\ now' = now /\ lastSync' = lastSync /\ sent' = sent
        /\ pc[r] = "api" /\ pc' = [pc EXCEPT ![r] = "replying"]
        /\ verdict' = [verdict EXCEPT ![r] = x]
    BY <1>2 DEF Evaluate, Hold, x
  <2>3. pc'[r] = "replying" /\ verdict'[r] = x
    BY <1>a, <2>2 DEF HandlerTypeOK
  <2>4. CallAge(r)'
    <3>1. sent[r] <= now /\ now - sent[r] <= Timeout
      BY <2>2 DEF AgeInv, CallAge
    <3> QED
      BY <2>1, <2>2, <2>3, <3>1, Numbers DEF CallAge
  <2>5. GateAge(r)'
    BY <2>2, <2>3 DEF AgeInv, GateAge
  <2> QED
    BY <1>2, <1>a, <1>b, <2>2, <2>4, <2>5, AgeStepOfOne DEF Evaluate, HandlerTypeOK
<1>3. ASSUME NEW r \in Requests, CheckGate(r) PROVE AgeInv'
  <2>1. CallAge(r)' /\ GateAge(r)'
    BY <1>3, <1>a, Numbers
       DEF CheckGate, IsHardStale, Hold, HandlerTypeOK, CallAge, GateAge
  <2> QED
    BY <1>3, <1>a, <1>b, <2>1, AgeStepOfOne DEF CheckGate, Hold, HandlerTypeOK
<1>4. ASSUME NEW r \in Requests, LookupHit(r) PROVE AgeInv'
  <2> DEFINE x == Effective(entries[pkg[r]].result)
  <2>1. x.source = "api" => now - x.at <= TTL + Timeout
    <3>1. /\ x.source = entries[pkg[r]].result.source
          /\ x.at = entries[pkg[r]].result.at
      <4>1. pkg[r] \in DOMAIN entries /\ entries[pkg[r]].result \in Result
        BY <1>4, HandlerAssumption
           DEF LookupHit, GetHit, Hit, SafetyInv, TypeIInv, CacheInv, CacheTypeOK, Entry
      <4> QED
        BY <4>1 DEF Effective, Result
    <3>2. pkg[r] \in DOMAIN entries /\ now <= entries[pkg[r]].expiresAt
      BY <1>4, Numbers DEF LookupHit, GetHit, Hit, Expired
    <3>3. entries[pkg[r]].result.source = "api" =>
            entries[pkg[r]].expiresAt - entries[pkg[r]].result.at <= TTL + Timeout
      BY <3>2 DEF AgeInv, EntryAge
    <3> HIDE DEF x
    <3> DEFINE made == entries[pkg[r]].result.at
               until == entries[pkg[r]].expiresAt
    <3>4. made \in Int /\ until \in Int /\ now \in Int /\ TTL \in Int /\ Timeout \in Int
      BY <3>2, Numbers
    <3>5. now <= until /\ until - made <= TTL + Timeout => now - made <= TTL + Timeout
      <4> HIDE DEF made, until
      <4> QED
        BY <3>4
    <3> QED
      BY <3>1, <3>2, <3>3, <3>5
  <2> HIDE DEF x
  <2>2. /\ config' = config /\ now' = now /\ lastSync' = lastSync /\ sent' = sent
        /\ entries' = entries /\ pc[r] = "lookup"
        /\ pc' = [pc EXCEPT ![r] = "hit"] /\ verdict' = [verdict EXCEPT ![r] = x]
    BY <1>4 DEF LookupHit, GetHit, Hold, x
  <2>3. CallAge(r)' /\ GateAge(r)'
    BY <1>a, <2>1, <2>2, Numbers DEF HandlerTypeOK, AgeInv, CallAge, GateAge
  <2> QED
    BY <1>a, <1>b, <2>2, <2>3, AgeStepOfOne DEF HandlerTypeOK
<1>5. ASSUME NEW r \in Requests, MissInFeed(r) PROVE AgeInv'
  <2> DEFINE x == Effective(FromFeed(pkg[r]))
  <2>1. x.source = "feed"
    BY DEF Effective, FromFeed
  <2> HIDE DEF x
  <2>2. /\ config' = config /\ now' = now /\ lastSync' = lastSync /\ sent' = sent
        /\ pc[r] = "lookup"
        /\ pc' = [pc EXCEPT ![r] = "fresh"] /\ verdict' = [verdict EXCEPT ![r] = x]
    BY <1>5 DEF MissInFeed, Hold, x
  <2>3. CallAge(r)' /\ GateAge(r)'
    BY <1>a, <2>1, <2>2, Numbers DEF HandlerTypeOK, AgeInv, CallAge, GateAge
  <2> QED
    BY <1>5, <1>a, <1>c, <2>2, <2>3, AgeStepOfOne DEF MissInFeed, HandlerTypeOK
<1>6. ASSUME NEW r \in Requests, MissCallAPI(r) PROVE AgeInv'
  <2>1. CallAge(r)' /\ GateAge(r)'
    BY <1>6, <1>a, Numbers
       DEF MissCallAPI, HandlerTypeOK, AgeInv, CallAge, GateAge
  <2> QED
    BY <1>6, <1>a, <1>c, <2>1, AgeStepOfOne DEF MissCallAPI, HandlerTypeOK
<1>7. ASSUME NEW r \in Requests, Receive(r) PROVE AgeInv'
  <2> DEFINE x == Effective(verdict[r])
  <2>1. x.at = verdict[r].at
    BY <1>7 DEF Receive, SafetyInv, TypeIInv, Holding, Result, Effective
  <2> HIDE DEF x
  <2>2. /\ config' = config /\ now' = now /\ lastSync' = lastSync
        /\ entries' = entries /\ pc[r] = "replying" /\ verdict[r] # NoVerdict
        /\ sent' = [sent EXCEPT ![r] = 0]
        /\ pc' = [pc EXCEPT ![r] = "fresh"] /\ verdict' = [verdict EXCEPT ![r] = x]
    BY <1>7 DEF Receive, Returned, Hold, x, SafetyInv, DecisionInv, PointSound
  <2>3. CallAge(r)' /\ GateAge(r)'
    BY <1>a, <2>1, <2>2, Numbers DEF HandlerTypeOK, AgeInv, CallAge, GateAge
  <2> QED
    BY <1>a, <1>b, <2>2, <2>3, AgeStepOfOne DEF HandlerTypeOK
<1>8. ASSUME NEW r \in Requests, CallFails(r) PROVE AgeInv'
  <2>1. CallAge(r)' /\ GateAge(r)'
    BY <1>8, <1>a
       DEF CallFails, Returned, Hold, Passed, HandlerTypeOK, CallAge, GateAge
  <2> QED
    BY <1>8, <1>a, <1>b, <2>1, AgeStepOfOne
       DEF CallFails, Returned, Hold, Passed, HandlerTypeOK
<1>9. ASSUME NEW r \in Requests, RecordAndAnswer(r) PROVE AgeInv'
  <2>1. CallAge(r)' /\ GateAge(r)'
    BY <1>9, <1>a DEF RecordAndAnswer, Answer, HandlerTypeOK, CallAge, GateAge
  <2> QED
    BY <1>9, <1>a, <1>b, <2>1, AgeStepOfOne DEF RecordAndAnswer, Answer, HandlerTypeOK
<1>10. ASSUME NEW r \in Requests, RecordFresh(r) PROVE AgeInv'
  <2>1. CallAge(r)' /\ GateAge(r)'
    BY <1>10, <1>a DEF RecordFresh, HandlerTypeOK, AgeInv, CallAge, GateAge
  <2> QED
    BY <1>10, <1>a, <1>b, <2>1, AgeStepOfOne DEF RecordFresh, HandlerTypeOK
<1>11. ASSUME NEW r \in Requests, StoreAndAnswer(r) PROVE AgeInv'
  <2>1. CallAge(r)' /\ GateAge(r)'
    BY <1>11, <1>a DEF StoreAndAnswer, Answer, HandlerTypeOK, CallAge, GateAge
  <2>2. /\ verdict[r] # NoVerdict
        /\ verdict[r].source = "api" => now - verdict[r].at <= Timeout
    BY <1>11
       DEF StoreAndAnswer, AgeInv, CallAge, SafetyInv, DecisionInv, PointSound
  <2>3. verdict[r].source = "api" => now + TTL - verdict[r].at <= TTL + Timeout
    BY <2>2, Numbers
  <2>4. ASSUME NEW p \in DOMAIN entries', entries'[p].result.source = "api"
        PROVE  entries'[p].expiresAt - entries'[p].result.at <= TTL + Timeout
    <3>1. \/ p \in DOMAIN entries /\ entries'[p] = entries[p]
          \/ entries'[p] = [result |-> verdict[r], expiresAt |-> now + TTL]
      BY <1>11, <2>4 DEF StoreAndAnswer, Set, SetExisting, SetNew, Stored
    <3>2. CASE p \in DOMAIN entries /\ entries'[p] = entries[p]
      BY <2>4, <3>2 DEF AgeInv, EntryAge
    <3>3. CASE entries'[p] = [result |-> verdict[r], expiresAt |-> now + TTL]
      <4> DEFINE e == entries'[p]
      <4>1. e.result.source = verdict[r].source
        BY <3>3
      <4>2. e.result.at = verdict[r].at /\ e.expiresAt = now + TTL
        BY <3>3
      <4>3. verdict[r].at \in Int /\ now \in Int /\ TTL \in Int /\ Timeout \in Int
        BY <2>2, Numbers
      <4>4. now + TTL - verdict[r].at <= TTL + Timeout
        BY <2>3, <2>4, <4>1
      <4> HIDE DEF e
      <4>5. e.expiresAt - e.result.at <= TTL + Timeout
        BY <4>2, <4>3, <4>4
      <4> QED
        BY <4>5 DEF e
    <3> QED
      BY <3>1, <3>2, <3>3
  <2>5. EntryAge'
    BY <2>4 DEF EntryAge
  <2> QED
    BY <1>11, <1>a, <2>1, <2>5, AgeStepOfOne DEF StoreAndAnswer, Answer, HandlerTypeOK
<1>12. CASE SyncPolicy
  <2>1. lastSync' = now /\ now' = now /\ UNCHANGED <<config, pc, verdict, sent, entries>>
        /\ now # Never
    BY <1>12, <1>a
       DEF SyncPolicy, SafetyInv, TypeIInv, CacheInv, CacheTypeOK, Never
  <2>2. ASSUME NEW r \in Requests PROVE CallAge(r)' /\ GateAge(r)'
    <3>1. CallAge(r)'
      BY <2>1 DEF AgeInv, CallAge
    <3>2. lastSync <= now
      BY DEF AgeInv
    <3>3. GateAge(r)'
      BY <2>1, <3>2, Numbers DEF AgeInv, GateAge
    <3> QED
      BY <3>1, <3>3
  <2> QED
    BY <1>b, <2>1, <2>2, Numbers DEF AgeInv
<1>13. CASE Tick
  <2>1. /\ now' = now + 1
        /\ UNCHANGED <<config, pc, verdict, sent, lastSync, entries>>
        /\ \A r \in Requests : Waiting(r)
    BY <1>13 DEF Tick
  <2>2. ASSUME NEW r \in Requests PROVE CallAge(r)' /\ GateAge(r)'
    <3>1. Waiting(r)
      BY <2>1
    <3>2. CASE pc[r] \in {"new", "done"}
      BY <2>1, <3>2 DEF CallAge, GateAge
    <3>3. CASE pc[r] \in {"api", "replying"} /\ now - sent[r] < Timeout
      <4>1. pc[r] = "replying" => verdict[r] # NoVerdict
        BY DEF SafetyInv, DecisionInv, PointSound
      <4> QED
        BY <2>1, <3>3, <4>1, Numbers DEF AgeInv, CallAge, GateAge
    <3> QED
      BY <3>1, <3>2, <3>3 DEF Waiting
  <2> QED
    BY <1>b, <2>1, <2>2, Numbers DEF AgeInv
<1>14. CASE UNCHANGED vars
  BY <1>14 DEF vars, AgeInv, CallAge, GateAge, EntryAge
<1> QED
  BY <1>1, <1>2, <1>3, <1>4, <1>5, <1>6, <1>7, <1>8, <1>9, <1>10, <1>11, <1>12, <1>13, <1>14
     DEF Next, Handle

LEMMA AlwaysAged == Spec => [](SafetyInv /\ AgeInv)
<1>1. Init => SafetyInv /\ AgeInv
  BY InitTypeIInv, InitDecisionInv, InitAgeInv DEF SafetyInv
<1>2. SafetyInv /\ AgeInv /\ [Next]_vars => (SafetyInv /\ AgeInv)'
  BY NextTypeIInv, NextDecisionInv, NextAgeInv DEF SafetyInv
<1> QED
  BY <1>1, <1>2, PTL DEF Spec

\* The steps that can answer request r.
LEMMA WhoAnswers ==
  ASSUME SafetyInv, Next, NEW r \in Requests, Answers(r)
  PROVE  \/ RecordAndAnswer(r) \/ StoreAndAnswer(r) \/ CallFails(r)
         \/ pkg'[r] = Unmatched /\ verdict'[r] = NoVerdict
<1> USE DEF Answers, Goto, InCall
<1>a. HandlerTypeOK
  BY DEF SafetyInv, TypeIInv
<1>1. ASSUME NEW q \in Requests, NEW u \in Keys \cup {Unmatched}, Arrive(q, u)
      PROVE  pkg'[r] = Unmatched /\ verdict'[r] = NoVerdict
  BY <1>1, <1>a DEF Arrive, Passed, HandlerTypeOK, SafetyInv, DecisionInv, PointSound
<1>2. ASSUME NEW q \in Requests, NEW v \in Actions \cup {"absent"}, Evaluate(q, v) PROVE FALSE
  BY <1>2, <1>a DEF Evaluate, Hold, HandlerTypeOK
<1>3. ASSUME NEW q \in Requests,
             \/ CheckGate(q) \/ LookupHit(q) \/ MissInFeed(q) \/ MissCallAPI(q)
             \/ Receive(q) \/ RecordFresh(q)
      PROVE  FALSE
  <2>1. pc'[r] # "done" \/ pc'[r] = pc[r]
    BY <1>3, <1>a
       DEF CheckGate, LookupHit, MissInFeed, MissCallAPI, Receive, RecordFresh, Hold,
           HandlerTypeOK
  <2> QED
    BY <2>1
<1>4. ASSUME NEW q \in Requests, q # r,
             RecordAndAnswer(q) \/ StoreAndAnswer(q) \/ CallFails(q)
      PROVE  FALSE
  <2>1. pc'[r] = pc[r]
    BY <1>4, <1>a DEF RecordAndAnswer, StoreAndAnswer, CallFails, Answer, Passed, Hold,
                      HandlerTypeOK
  <2> QED
    BY <2>1
<1>5. ~SyncPolicy /\ ~Tick
  BY DEF SyncPolicy, Tick
<1> QED
  BY <1>1, <1>2, <1>3, <1>4, <1>5 DEF Next, Handle

\* No request is answered with a backend verdict older than the cache's TTL
\* plus the client's timeout, however calls, stores and lookups interleave.
THEOREM AnswersFresh == Spec => FreshAnswer
<1> DEFINE Fresh == \A r \in Requests :
                      Answers(r) /\ verdict'[r] # NoVerdict /\ verdict'[r].source = "api"
                        => now - verdict'[r].at <= TTL + Timeout
<1>1. SafetyInv /\ AgeInv /\ [Next]_vars => [Fresh]_vars
  <2> SUFFICES ASSUME SafetyInv, AgeInv, Next, NEW r \in Requests, Answers(r),
                      verdict'[r] # NoVerdict, verdict'[r].source = "api"
               PROVE  now - verdict'[r].at <= TTL + Timeout
    BY DEF vars
  <2>1. CASE RecordAndAnswer(r)
    <3>1. pc[r] = "hit" /\ verdict'[r] = verdict[r]
      BY <2>1 DEF RecordAndAnswer, SafetyInv, DecisionInv, PointSound
    <3> QED
      BY <3>1 DEF AgeInv, CallAge
  <2>2. CASE StoreAndAnswer(r)
    <3>1. pc[r] = "store" /\ verdict'[r] = verdict[r]
      BY <2>2 DEF StoreAndAnswer
    <3>2. now - verdict[r].at <= Timeout
      BY <3>1 DEF AgeInv, CallAge
    <3> QED
      BY <3>1, <3>2, Numbers
  <2>3. CASE CallFails(r)
    <3>1. verdict \in [Requests -> Result \cup {NoVerdict}]
      BY DEF SafetyInv, TypeIInv, HandlerTypeOK
    <3>2. StrictBlock("outage").source = "outage"
      BY DEF StrictBlock
    <3>3. verdict'[r] \in {StrictBlock("outage"), NoVerdict}
      BY <2>3, <3>1 DEF CallFails, Hold
    <3> QED
      BY <3>2, <3>3
  <2> QED
    BY <2>1, <2>2, <2>3, WhoAnswers
<1> QED
  BY <1>1, AlwaysAged, PTL DEF FreshAnswer, Spec

\* With freshness enforced, a matched package passes only while the policy is
\* no older than the threshold plus one call.
THEOREM GateEnforced == Spec => GateHolds
<1> DEFINE Held == \A r \in Requests :
                     Answers(r) /\ Decided(r)' /\ outcome'[r] = "passed" /\ config.gated
                       => lastSync # Never /\ now - lastSync <= StaleAfter + Timeout
<1>1. SafetyInv /\ AgeInv /\ [Next]_vars => [Held]_vars
  <2> SUFFICES ASSUME SafetyInv, AgeInv, Next, NEW r \in Requests, Answers(r),
                      Decided(r)', outcome'[r] = "passed", config.gated
               PROVE  lastSync # Never /\ now - lastSync <= StaleAfter + Timeout
    BY DEF vars
  <2>1. GateAge(r) /\ CallAge(r)
    BY DEF AgeInv
  <2>2. CASE RecordAndAnswer(r)
    <3>1. pc[r] = "hit"
      BY <2>2
         DEF RecordAndAnswer, Answer, Allowed, SafetyInv, TypeIInv, HandlerTypeOK,
             DecisionInv, PointSound
    <3> QED
      BY <2>1, <3>1 DEF GateAge
  <2>3. CASE StoreAndAnswer(r)
    BY <2>1, <2>3 DEF StoreAndAnswer, GateAge
  <2>4. CASE CallFails(r)
    <3>1. pc[r] \in {"api", "replying"}
      BY <2>4 DEF CallFails, InCall
    <3>2. lastSync # Never /\ sent[r] - lastSync <= StaleAfter /\ now - sent[r] <= Timeout
      BY <2>1, <3>1 DEF GateAge, CallAge
    <3> QED
      BY <3>2, Numbers
  <2>5. pkg'[r] # Unmatched
    BY HandlerAssumption DEF Decided
  <2> QED
    BY <2>2, <2>3, <2>4, <2>5, WhoAnswers
<1> QED
  BY <1>1, AlwaysAged, PTL DEF GateHolds, Spec

----------------------------------------------------------------------------
\* The handlers use the cache as its own specification says, whatever they do at
\* once: each of their steps is a lookup, a store or a tick of it, or leaves it
\* alone.
THEOREM HandlerImplementsCache == Spec => CacheSpec
<1>1. Init => CacheInit
  BY DEF Init
<1>2. TypeIInv /\ [Next]_vars => [CacheNext]_cacheVars
  <2> SUFFICES ASSUME TypeIInv, [Next]_vars, ~UNCHANGED cacheVars
               PROVE  CacheNext
    OBVIOUS
  <2>1. CASE Tick
    BY <2>1 DEF Tick, CacheNext, CacheTick
  <2>2. ASSUME NEW r \in Requests, LookupHit(r) PROVE CacheNext
    <3>1. pkg[r] \in Keys
      BY <2>2 DEF LookupHit, TypeIInv, HandlerTypeOK, Matched
    <3> QED
      BY <2>2, <3>1 DEF LookupHit, CacheNext
  <2>3. ASSUME NEW r \in Requests, MissInFeed(r) \/ MissCallAPI(r) PROVE CacheNext
    <3>1. pkg[r] \in Keys
      BY <2>3 DEF MissInFeed, MissCallAPI, TypeIInv, HandlerTypeOK, Matched
    <3> QED
      BY <2>3, <3>1 DEF MissInFeed, MissCallAPI, CacheNext
  <2>4. ASSUME NEW r \in Requests, StoreAndAnswer(r) PROVE CacheNext
    <3>1. pkg[r] \in Keys /\ verdict[r] \in Results
      BY <2>4, HandlerAssumption
         DEF StoreAndAnswer, TypeIInv, HandlerTypeOK, Matched, Holding
    <3> QED
      BY <2>4, <3>1 DEF StoreAndAnswer, CacheNext
  <2>5. \/ Tick
        \/ \E r \in Requests : \/ LookupHit(r) \/ MissInFeed(r) \/ MissCallAPI(r)
                               \/ StoreAndAnswer(r)
    BY DEF Next, Handle, vars, cacheVars, Arrive, Evaluate, CheckGate, Receive, CallFails,
           RecordAndAnswer, RecordFresh, SyncPolicy
  <2> QED
    BY <2>1, <2>2, <2>3, <2>4, <2>5
<1>3. Spec => []TypeIInv
  BY InitTypeIInv, NextTypeIInv, PTL DEF Spec
<1> QED
  BY <1>1, <1>2, <1>3, PTL DEF Spec, CacheSpec
============================================================================
