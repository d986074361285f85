---------------------------- MODULE PolicySyncer ---------------------------
(***************************************************************************)
(* policy.Syncer (internal/policy/sync.go): one goroutine downloads the    *)
(* policy when it starts and whenever its ticker fires, and a failed       *)
(* download leaves the policy and the time of the last success alone.      *)
(* IsHardStale, which the request handler's gate asks, compares that time  *)
(* with the clock, so it matters how late downloads can be: each may take  *)
(* up to the client timeout, and the ticker's channel holds one tick and   *)
(* drops the ticks that find it full.                                      *)
(***************************************************************************)
EXTENDS Integers

CONSTANTS Interval,      \* the ticker's period, in ticks of the clock
          FetchTimeout,  \* httpClient.Timeout
          StaleAfter,    \* staleThreshold
          Versions,      \* the policies the backend may serve
          Horizon        \* bound: the clock is not followed past this tick

ASSUME SyncerAssumption ==
  /\ Interval \in Nat \ {0}
  /\ FetchTimeout \in 0 .. Interval
  /\ StaleAfter \in Nat /\ Horizon \in Nat
  /\ "none" \notin Versions

Never == -1

VARIABLES now,
          pc,        \* the loop: in fetch, at its select, or returned
          began,     \* when the current or last fetch began
          nextTick,  \* when the ticker fires next
          ticked,    \* a tick waits in the ticker's channel
          stopCh,    \* closed by Stop
          policy,    \* the active policy, or "none"
          lastSync,  \* when it was downloaded
          failures   \* history: failed fetches since the last success

syncVars == <<now, pc, began, nextTick, ticked, stopCh, policy, lastSync, failures>>

SyncTypeOK ==
  /\ now \in 0 .. Horizon
  /\ pc \in {"fetching", "waiting", "returned"}
  /\ began \in 0 .. Horizon
  /\ nextTick \in 1 .. Horizon + Interval
  /\ ticked \in BOOLEAN
  /\ stopCh \in BOOLEAN
  /\ policy \in Versions \cup {"none"}
  /\ lastSync \in {Never} \cup 0 .. Horizon
  /\ failures \in Nat

\* Start: the ticker is made, then the first fetch begins.
SyncInit ==
  /\ now = 0
  /\ pc = "fetching"
  /\ began = 0
  /\ nextTick = Interval
  /\ ticked = FALSE
  /\ stopCh = FALSE
  /\ policy = "none"
  /\ lastSync = Never
  /\ failures = 0

----------------------------------------------------------------------------
IsHardStale == lastSync = Never \/ now - lastSync > StaleAfter

FetchSucceeds(v) ==
  /\ pc = "fetching"
  /\ pc' = "waiting"
  /\ policy' = v
  /\ lastSync' = now
  /\ failures' = 0
  /\ UNCHANGED <<now, began, nextTick, ticked, stopCh>>

\* Mutant: an error page replaces the policy.
FetchOverwrites ==
  /\ pc = "fetching"
  /\ pc' = "waiting"
  /\ policy' = "error page"
  /\ failures' = failures + 1
  /\ UNCHANGED <<now, began, nextTick, ticked, stopCh, lastSync>>

\* No connection, the timeout, a status other than 200 or a body that is not
\* a policy: the error is dropped, and nothing is overwritten.
FetchFails ==
  /\ pc = "fetching"
  /\ pc' = "waiting"
  /\ failures' = failures + 1
  /\ UNCHANGED <<now, began, nextTick, ticked, stopCh, policy, lastSync>>

SelectTick ==
  /\ pc = "waiting"
  /\ ticked
  /\ ticked' = FALSE
  /\ pc' = "fetching"
  /\ began' = now
  /\ UNCHANGED <<now, nextTick, stopCh, policy, lastSync, failures>>

\* Mutant: Stop is honoured only once there is a policy.
SelectStopLater ==
  /\ pc = "waiting"
  /\ stopCh /\ policy # "none"
  /\ pc' = "returned"
  /\ UNCHANGED <<now, began, nextTick, ticked, stopCh, policy, lastSync, failures>>

SelectStop ==
  /\ pc = "waiting"
  /\ stopCh
  /\ pc' = "returned"
  /\ UNCHANGED <<now, began, nextTick, ticked, stopCh, policy, lastSync, failures>>

\* Stop, deferred by the command that started the syncer.
Stop ==
  /\ ~stopCh
  /\ stopCh' = TRUE
  /\ UNCHANGED <<now, pc, began, nextTick, ticked, policy, lastSync, failures>>

\* Time passes while the loop waits for the backend or at its select; the
\* client ends a fetch after FetchTimeout, and a ready select does not wait.
MayWait ==
  \/ pc = "fetching" /\ now - began < FetchTimeout
  \/ pc = "waiting" /\ ~ticked /\ ~stopCh
  \/ pc = "returned"

\* Mutant: a timer in place of the ticker fires once.
TimerFires == now + 1 = Interval

TickerFires == now + 1 = nextTick

TimePasses ==
  /\ now < Horizon
  /\ MayWait
  /\ now' = now + 1
  /\ nextTick' = IF TickerFires THEN nextTick + Interval ELSE nextTick
  /\ ticked' = (ticked \/ TickerFires)
  /\ UNCHANGED <<pc, began, stopCh, policy, lastSync, failures>>

SyncNext ==
  \/ \E v \in Versions : FetchSucceeds(v)
  \/ FetchFails
  \/ SelectTick
  \/ SelectStop
  \/ Stop
  \/ TimePasses

\* The client timeout ends every fetch, and a select whose channel is closed
\* returns; between two ready channels Go chooses at random.
SyncFairness ==
  /\ WF_syncVars(FetchFails \/ \E v \in Versions : FetchSucceeds(v))
  /\ SF_syncVars(SelectStop)

SyncSpec == SyncInit /\ [][SyncNext]_syncVars /\ SyncFairness

----------------------------------------------------------------------------
\* The fetches that surely begin and end within StaleAfter ticks.
Chances == (StaleAfter - FetchTimeout) \div Interval

\* "fail-closed when policy is stale": once a policy was downloaded, a running
\* syncer turns hard stale only after a whole threshold of failures.  Neither
\* slow downloads, nor ticks that fire during one, nor the phase of the ticker
\* let the gate close while the backend still answers now and then.
StaleMeansOutage ==
  pc # "returned" /\ lastSync # Never /\ IsHardStale => failures >= Chances

\* Stop ends the goroutine, even when it comes during a download.
StopEnds == stopCh ~> pc = "returned"
============================================================================
