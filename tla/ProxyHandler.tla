---------------------------- MODULE ProxyHandler ---------------------------
(***************************************************************************)
(* RequestHandler.HandleRequest (internal/proxy/handler.go), run by one    *)
(* goroutine per intercepted request: the requests share the verdict       *)
(* cache, the report and the policy syncer's clock, and each may wait up   *)
(* to the client timeout for the firewall API.  One action is one access   *)
(* to shared state or one event of the API call; everything else a handler *)
(* does is local and belongs to the action before it.                      *)
(***************************************************************************)
EXTENDS ResultCache

CONSTANTS Requests,    \* the intercepted requests, one handler each
          Unmatched,   \* any URL no matcher recognises
          NoVerdict,   \* a nil *CheckResult; a package the feed does not list
          Actions,     \* the verdict strings the API and the feed use
          Configs,     \* the configurations the proxy may be started with
          Timeout,     \* http.Client.Timeout of the firewall client, in ticks
          StaleAfter   \* policy.Syncer.staleThreshold, in ticks

Never == -1            \* the zero time.Time of Syncer.lastSync

\* What an operator can configure: strict mode, fail_mode = closed, policy
\* freshness enforcement, a reporter, and a fallback feed (action or none).
ConfigType ==
  [strict : BOOLEAN, closed : BOOLEAN, gated : BOOLEAN, reporting : BOOLEAN,
   feed : [Keys -> Actions \cup {NoVerdict}]]

\* A check result: its action decides everything the handler does with it.
\* Where it came from and when the backend gave it are kept for the properties.
Result == [action : Actions, source : {"api", "feed", "outage", "policy"},
           at : 0 .. Horizon]

ASSUME HandlerAssumption ==
  /\ {"allow", "warn", "block"} \subseteq Actions
  /\ "absent" \notin Actions /\ NoVerdict \notin Actions \cup Result
  /\ Results = Result
  /\ Unmatched \notin Keys
  /\ Configs \subseteq ConfigType
  /\ Timeout \in Nat /\ StaleAfter \in Nat

VARIABLES config,     \* fixed when the process starts
          pc,         \* where each handler is
          pkg,        \* what its URL matched
          verdict,    \* the check result it holds
          sent,       \* when its API call started
          outcome,    \* what the package manager was answered
          report,     \* the reporter's records: <<request, action>>
          lastSync    \* the syncer's last successful policy download

vars == <<config, pc, pkg, verdict, sent, outcome, report, lastSync, entries, order, now>>

TypeOK ==
  /\ config \in Configs
  /\ pc \in [Requests -> {"new", "gate", "lookup", "api", "replying", "hit",
                          "fresh", "refused", "store", "done"}]
  /\ pkg \in [Requests -> Keys \cup {Unmatched}]
  /\ verdict \in [Requests -> Result \cup {NoVerdict}]
  /\ sent \in [Requests -> 0 .. Horizon]
  /\ outcome \in [Requests -> {"pending", "passed", "blocked"}]
  /\ report \subseteq Requests \X Actions
  /\ lastSync \in {Never} \cup 0 .. Horizon
  /\ CacheTypeOK

Init ==
  /\ config \in Configs
  /\ pc = [r \in Requests |-> "new"]
  /\ pkg = [r \in Requests |-> Unmatched]
  /\ verdict = [r \in Requests |-> NoVerdict]
  /\ sent = [r \in Requests |-> 0]
  /\ outcome = [r \in Requests |-> "pending"]
  /\ report = {}
  /\ lastSync = Never
  /\ CacheInit

----------------------------------------------------------------------------
\* Mutant: the zero time counts as fresh.
StaleOnlyOnceSynced == lastSync # Never /\ now - lastSync > StaleAfter

\* Syncer.IsHardStale
IsHardStale == lastSync = Never \/ now - lastSync > StaleAfter

\* StrictBlock: the synthetic result of a fail-closed decision.
StrictBlock(why) == [action |-> "block", source |-> why, at |-> 0]

\* Mutant: strict mode leaves warnings alone.
NeverStricter(result) == result

\* applyStrictMode
Effective(result) ==
  IF config.strict /\ result.action = "warn"
    THEN [result EXCEPT !.action = "block"]
    ELSE result

\* CheckResult.Allowed of every result that Check and StrictBlock build.
Allowed(result) == result.action # "block"

\* Mutant: an empty verdict is taken as it is.
FromAPIAsIs(v) == [action |-> v, source |-> "api", at |-> now]

\* Client.Check: an empty or absent verdict counts as "allow".
FromAPI(v) == [action |-> IF v = "absent" THEN "allow" ELSE v, source |-> "api", at |-> now]

InFeed(p) == config.feed[p] # NoVerdict
\* Mutant: being listed is enough to be allowed.
FromFeedAllowed(p) == [action |-> "allow", source |-> "feed", at |-> 0]

FromFeed(p) == [action |-> config.feed[p], source |-> "feed", at |-> 0]

Goto(r, label) == pc' = [pc EXCEPT ![r] = label]

Hold(r, result, label) ==
  /\ verdict' = [verdict EXCEPT ![r] = result]
  /\ Goto(r, label)

\* The return statement: 403 unless the result is allowed.
Answer(r) ==
  /\ outcome' = [outcome EXCEPT ![r] =
                   IF Allowed(verdict[r]) THEN "passed" ELSE "blocked"]
  /\ Goto(r, "done")

Passed(r) ==
  /\ outcome' = [outcome EXCEPT ![r] = "passed"]
  /\ Goto(r, "done")

----------------------------------------------------------------------------
\* A request arrives; a URL that no matcher knows is passed through.
Arrive(r, u) ==
  /\ pc[r] = "new"
  /\ pkg' = [pkg EXCEPT ![r] = u]
  /\ IF u = Unmatched
       THEN Passed(r)
       ELSE Goto(r, "gate") /\ UNCHANGED outcome
  /\ UNCHANGED <<config, verdict, sent, report, lastSync, entries, order, now>>

\* The policy gate, before any verdict is looked up.
CheckGate(r) ==
  /\ pc[r] = "gate"
  /\ IF config.gated /\ IsHardStale
       THEN Hold(r, StrictBlock("policy"), "refused")
       ELSE Goto(r, "lookup") /\ UNCHANGED verdict
  /\ UNCHANGED <<config, pkg, sent, outcome, report, lastSync, entries, order, now>>

LookupHit(r) ==
  /\ pc[r] = "lookup"
  /\ GetHit(pkg[r])
  /\ Hold(r, Effective(entries[pkg[r]].result), "hit")
  /\ UNCHANGED <<config, pkg, sent, outcome, report, lastSync, now>>

\* After a miss the fallback feed is asked; only if it does not list the
\* package is the API called.
MissInFeed(r) ==
  /\ pc[r] = "lookup"
  /\ GetMiss(pkg[r])
  /\ InFeed(pkg[r])
  /\ Hold(r, Effective(FromFeed(pkg[r])), "fresh")
  /\ UNCHANGED <<config, pkg, sent, outcome, report, lastSync, now>>

MissCallAPI(r) ==
  /\ pc[r] = "lookup"
  /\ GetMiss(pkg[r])
  /\ ~InFeed(pkg[r])
  /\ sent' = [sent EXCEPT ![r] = now]
  /\ Goto(r, "api")
  /\ UNCHANGED <<config, pkg, verdict, outcome, report, lastSync, now>>

\* The backend decides, at some moment of the call; it may decide otherwise
\* for another request.
Evaluate(r, v) ==
  /\ pc[r] = "api"
  /\ Hold(r, FromAPI(v), "replying")
  /\ UNCHANGED <<config, pkg, sent, outcome, report, lastSync, entries, order, now>>

\* Mutant: a call is over only when the backend has decided.
InCallOnceDecided(r) == pc[r] = "replying"

\* A goroutine is in its API call.
InCall(r) == pc[r] \in {"api", "replying"}

\* The call is over: its start no longer matters.
Returned(r) == sent' = [sent EXCEPT ![r] = 0]

Receive(r) ==
  /\ pc[r] = "replying"
  /\ Hold(r, Effective(verdict[r]), "fresh")
  /\ Returned(r)
  /\ UNCHANGED <<config, pkg, outcome, report, lastSync, entries, order, now>>

\* Mutant: the block of a failed call is handled like a verdict, and cached.
CallFailsPinned(r) ==
  /\ InCall(r)
  /\ IF config.strict \/ config.closed
       THEN Hold(r, StrictBlock("outage"), "fresh") /\ UNCHANGED outcome
       ELSE Passed(r) /\ verdict' = [verdict EXCEPT ![r] = NoVerdict]
  /\ Returned(r)
  /\ UNCHANGED <<config, pkg, report, lastSync, entries, order, now>>

\* The call fails: refused, timed out, not 200 or not JSON, and it may fail
\* after the backend has decided.
CallFails(r) ==
  /\ InCall(r)
  /\ IF config.strict \/ config.closed
       THEN Hold(r, StrictBlock("outage"), "refused") /\ UNCHANGED outcome
       ELSE Passed(r) /\ verdict' = [verdict EXCEPT ![r] = NoVerdict]
  /\ Returned(r)
  /\ UNCHANGED <<config, pkg, report, lastSync, entries, order, now>>

\* Mutant: blocks without a verdict of the backend or the feed go unrecorded.
RecordedVerdicts(r) ==
  report' = report \cup
    (IF config.reporting /\ verdict[r].source \in {"api", "feed"}
       THEN {<<r, verdict[r].action>>} ELSE {})

Recorded(r) ==
  report' = report \cup (IF config.reporting THEN {<<r, verdict[r].action>>} ELSE {})

\* recordResult and return, for a cached or a synthetic result.
RecordAndAnswer(r) ==
  /\ pc[r] \in {"hit", "refused"}
  /\ Recorded(r)
  /\ Answer(r)
  /\ UNCHANGED <<config, pkg, verdict, sent, lastSync, entries, order, now>>

\* A new result is recorded first, then cached, then answered.
RecordFresh(r) ==
  /\ pc[r] = "fresh"
  /\ Recorded(r)
  /\ Goto(r, "store")
  /\ UNCHANGED <<config, pkg, verdict, sent, outcome, lastSync, entries, order, now>>

StoreAndAnswer(r) ==
  /\ pc[r] = "store"
  /\ Set(pkg[r], verdict[r])
  /\ Answer(r)
  /\ UNCHANGED <<config, pkg, verdict, sent, report, lastSync, now>>

\* Syncer.fetch succeeds, in its own goroutine; the syncer is started only
\* when freshness is enforced.
SyncPolicy ==
  /\ config.gated
  /\ lastSync # now
  /\ lastSync' = now
  /\ UNCHANGED <<config, pc, pkg, verdict, sent, outcome, report, entries, order, now>>

\* Mutant: an HTTP client without a timeout.
WaitingForever(r) == pc[r] \in {"new", "done"} \/ InCall(r)

\* Local steps take no time at the scale of the TTL: the clock advances only
\* while every handler is idle or waits for the API, and the client gives up
\* a call after Timeout.
Waiting(r) ==
  \/ pc[r] \in {"new", "done"}
  \/ InCall(r) /\ now - sent[r] < Timeout

Tick ==
  /\ now < Horizon
  /\ \A r \in Requests : Waiting(r)
  /\ now' = now + 1
  /\ UNCHANGED <<config, pc, pkg, verdict, sent, outcome, report, lastSync, entries, order>>

Handle(r) ==
  \/ CheckGate(r) \/ LookupHit(r) \/ MissInFeed(r) \/ MissCallAPI(r)
  \/ Receive(r) \/ CallFails(r)
  \/ RecordAndAnswer(r) \/ RecordFresh(r) \/ StoreAndAnswer(r)

Next ==
  \/ \E r \in Requests :
       \/ \E u \in Keys \cup {Unmatched} : Arrive(r, u)
       \/ \E v \in Actions \cup {"absent"} : Evaluate(r, v)
       \/ Handle(r)
  \/ SyncPolicy
  \/ Tick

\* A goroutine that can run does run, and http.Client.Timeout ends every call.
Fairness == \A r \in Requests : WF_vars(Handle(r))

Spec == Init /\ [][Next]_vars /\ Fairness

----------------------------------------------------------------------------
Decided(r) == pc[r] = "done" /\ pkg[r] \in Keys

\* Fail-closed: in strict mode or with fail_mode=closed a matched package is
\* let through only on a verdict of the backend or the feed that permits it,
\* never because a call failed, and in strict mode never on a warning.
EnforcedPass ==
  \A r \in Requests :
    /\ Decided(r)
    /\ outcome[r] = "passed"
    /\ config.strict \/ config.closed
    => /\ verdict[r] # NoVerdict
       /\ verdict[r].source \in {"api", "feed"}
       /\ verdict[r].action \notin {"block"} \cup (IF config.strict THEN {"warn"} ELSE {})

\* A package the fallback feed blocks is blocked for every request, whatever
\* the backend would say, whatever is cached and whichever fail mode is set.
FeedBlocks ==
  \A r \in Requests :
    Decided(r) /\ config.feed[pkg[r]] = "block" => outcome[r] = "blocked"

\* The report is what the package managers saw: one record per request, a
\* "block" exactly for a 403.  Only an install let through because the API
\* failed in open mode leaves no record.
ReportAgrees ==
  config.reporting =>
    \A r \in Requests :
      Decided(r) =>
        LET recorded == {a \in Actions : <<r, a>> \in report}
        IN  IF verdict[r] = NoVerdict
              THEN recorded = {} /\ outcome[r] = "passed"
              ELSE \E a \in Actions :
                     recorded = {a} /\ (a = "block" <=> outcome[r] = "blocked")

\* "a transient outage must not pin a block for the cache TTL": the cache
\* holds verdicts of the backend or the feed only, and in strict mode none
\* that still is a warning.
OnlyVerdictsCached ==
  \A p \in DOMAIN entries :
    /\ entries[p].result.source \in {"api", "feed"}
    /\ config.strict => entries[p].result.action # "warn"

Answers(r) == pc[r] # "done" /\ pc'[r] = "done"

\* However slow calls, stores and lookups of several requests interleave, no
\* request is answered with a backend verdict older than the TTL plus the
\* client timeout (the call may be that old when its result is cached).
FreshAnswer ==
  [][\A r \in Requests :
       Answers(r) /\ verdict'[r] # NoVerdict /\ verdict'[r].source = "api"
         => now - verdict'[r].at <= TTL + Timeout]_vars

\* With freshness enforced, a matched package is let through only if a policy
\* was downloaded, and not longer ago than the threshold plus one call: the
\* gate is checked before the call, and not again after it.
GateHolds ==
  [][\A r \in Requests :
       Answers(r) /\ Decided(r)' /\ outcome'[r] = "passed" /\ config.gated
         => lastSync # Never /\ now - lastSync <= StaleAfter + Timeout]_vars

\* Every request that reached the gate is answered: no order of calls,
\* failures and cache accesses leaves a package manager without a response.
EveryRequestAnswered ==
  \A r \in Requests : pc[r] = "gate" ~> pc[r] = "done"

----------------------------------------------------------------------------
(***************************************************************************)
(* The inductive strengthening of the properties above: what each program  *)
(* point, cache entry and record guarantees.                               *)
(***************************************************************************)
\* A result that may be cached and may decide a request for package p.
Genuine(result, p) ==
  /\ result.source \in {"api", "feed"}
  /\ config.strict => result.action # "warn"
  /\ config.feed[p] = "block" => result.action = "block"

PointSound(r) ==
  /\ pc[r] = "new" => verdict[r] = NoVerdict
  /\ pc[r] \notin {"new", "done"} => pkg[r] \in Keys
  /\ pc[r] \in {"api", "replying"} => ~InFeed(pkg[r])
  /\ pc[r] = "replying" => verdict[r] # NoVerdict /\ verdict[r].source = "api"
  /\ pc[r] \in {"hit", "fresh", "store"} =>
       verdict[r] # NoVerdict /\ Genuine(verdict[r], pkg[r])
  /\ pc[r] = "refused" =>
       /\ verdict[r] # NoVerdict
       /\ verdict[r].action = "block" /\ verdict[r].source \in {"outage", "policy"}

DoneSound(r) ==
  /\ pc[r] = "done" /\ verdict[r] = NoVerdict =>
       /\ outcome[r] = "passed"
       /\ pkg[r] \in Keys => ~config.strict /\ ~config.closed /\ ~InFeed(pkg[r])
  /\ pc[r] = "done" /\ verdict[r] # NoVerdict =>
       /\ pkg[r] \in Keys
       /\ outcome[r] = IF Allowed(verdict[r]) THEN "passed" ELSE "blocked"
       /\ Allowed(verdict[r]) => Genuine(verdict[r], pkg[r])

EntriesSound == \A p \in DOMAIN entries : Genuine(entries[p].result, p)

\* A record is made once a result is held, and is the action of that result.
ReportSound ==
  /\ \A r \in Requests, a \in Actions : <<r, a>> \in report =>
       pc[r] \in {"store", "done"} /\ verdict[r] # NoVerdict /\ a = verdict[r].action
  /\ config.reporting =>
       \A r \in Requests : pc[r] \in {"store", "done"} /\ verdict[r] # NoVerdict =>
         <<r, verdict[r].action>> \in report

DecisionInv ==
  /\ \A r \in Requests : PointSound(r) /\ DoneSound(r)
  /\ EntriesSound
  /\ ReportSound

\* Ages: a call is at most Timeout old, a cached backend verdict was at most
\* that old when it was stored, and the gate was open when the call began.
CallAge(r) ==
  /\ pc[r] \in {"api", "replying"} => sent[r] <= now /\ now - sent[r] <= Timeout
  /\ pc[r] = "replying" => sent[r] <= verdict[r].at /\ verdict[r].at <= now
  /\ pc[r] \in {"fresh", "store"} /\ verdict[r].source = "api" =>
       now - verdict[r].at <= Timeout
  /\ pc[r] = "hit" /\ verdict[r].source = "api" =>
       now - verdict[r].at <= TTL + Timeout

EntryAge ==
  \A p \in DOMAIN entries :
    entries[p].result.source = "api" =>
      entries[p].expiresAt - entries[p].result.at <= TTL + Timeout

GateAge(r) ==
  config.gated =>
    /\ pc[r] \in {"lookup", "api", "replying", "hit", "fresh", "store"} => lastSync # Never
    /\ pc[r] = "lookup" => now - lastSync <= StaleAfter
    /\ pc[r] \in {"api", "replying"} => sent[r] - lastSync <= StaleAfter
    /\ pc[r] \in {"hit", "fresh", "store"} => now - lastSync <= StaleAfter + Timeout

AgeInv ==
  /\ lastSync <= now
  /\ \A r \in Requests : CallAge(r) /\ GateAge(r)
  /\ EntryAge
============================================================================
