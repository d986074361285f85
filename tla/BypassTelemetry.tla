-------------------------- MODULE BypassTelemetry --------------------------
(***************************************************************************)
(* The shims that stand in for package managers, and the heartbeats of the *)
(* endpoint daemons that report the installs they let through unscanned    *)
(* (internal/shim, internal/telemetry, cmd/bypass.go).  They share nothing *)
(* but the proxy port and two files, bypass.log and bypass.log.draining,   *)
(* and no lock: a shim appends through a descriptor it opened earlier, and *)
(* a daemon renames, reads and removes the file in three steps, whatever   *)
(* the other daemon is doing.                                              *)
(***************************************************************************)
EXTENDS Naturals, FiniteSets

CONSTANTS Installs   \* the runs of a shim, one per package-manager command

\* What may go wrong in a behaviour: heartbeat posts fail, the daemon dies,
\* file operations fail.  A fault is possible, never certain, so each of these
\* sets allows what the smaller ones allow.
FaultSets == {{}, {"post"}, {"post", "crash"}, {"post", "crash", "io"}}

\* The commands that send heartbeats, which a host may run at once: a service
\* and a proxy started by hand.
Daemons == {"proxy", "system"}

VARIABLES
  faults,      \* the kinds of fault this behaviour may have
  shim,        \* where each shim is
  ran,         \* how it ran the package manager, if it did
  fd,          \* which file its descriptor of bypass.log reaches by now
  wrote,       \* history: which file its line went to; "late" if the daemon
               \* had read that file, or removed it
  logFile,     \* bypass.log: {} or {its lines}
  drainFile,   \* bypass.log.draining: {} or {its lines}
  daemon,      \* where each heartbeat goroutine is; "down" without a process
  listener,    \* who answers on the proxy port
  batch,       \* the lines counted into the heartbeat each is posting
  mishaps,     \* history: a drain was disturbed by the other daemon, or cut
               \* short because the port was taken
  received     \* how often the backend was told of each install

shims == <<shim, ran, fd, wrote>>
files == <<logFile, drainFile>>
bypassVars == <<faults, shims, files, daemon, listener, batch, mishaps, received>>

BypassTypeOK ==
  /\ faults \in FaultSets
  /\ shim \in [Installs -> {"start", "found", "bypassing", "opened", "recorded", "over"}]
  /\ ran \in [Installs -> {"no", "authorized", "proxied", "unscanned"}]
  /\ fd \in [Installs -> {"none", "log", "draining", "removed"}]
  /\ wrote \in [Installs -> {"none", "log", "draining", "late"}]
  /\ \A f \in {logFile, drainFile} : f = {} \/ \E lines \in SUBSET Installs : f = {lines}
  /\ daemon \in [Daemons -> {"down", "sending", "renamed", "read", "posting", "idle"}]
  /\ listener \in {"nobody", "other"} \cup Daemons
  /\ batch \in [Daemons -> SUBSET Installs]
  /\ mishaps \subseteq {"clash", "taken"}
  /\ received \in [Installs -> Nat]

BypassInit ==
  /\ faults \in FaultSets
  /\ shim = [i \in Installs |-> "start"]
  /\ ran = [i \in Installs |-> "no"]
  /\ fd = [i \in Installs |-> "none"]
  /\ wrote = [i \in Installs |-> "none"]
  /\ logFile = {} /\ drainFile = {}
  /\ daemon = [d \in Daemons |-> "down"]
  /\ listener \in {"nobody", "other"}   \* such as a proxy without an API key
  /\ batch = [d \in Daemons |-> {}]
  /\ mishaps = {}
  /\ received = [i \in Installs |-> 0]

----------------------------------------------------------------------------
(* The shim. *)

At(i, from, to) == shim[i] = from /\ shim' = [shim EXCEPT ![i] = to]

\* The rest of a shim's run: it execs the package manager, or exits.
Runs(i, how) == ran' = [ran EXCEPT ![i] = how]

\* `bypass verify` exits 0 only if the backend answers that the token is good.
Authorized(i) ==
  /\ At(i, "start", "over")
  /\ Runs(i, "authorized")
  /\ UNCHANGED <<faults, fd, wrote, files, daemon, listener, batch, mishaps, received>>

\* No token, or one that is denied or cannot be verified: the shim looks for
\* the real package manager on PATH, and gives up if there is none.
FindReal(i) ==
  /\ At(i, "start", "found") \/ At(i, "start", "over")
  /\ UNCHANGED <<faults, ran, fd, wrote, files, daemon, listener, batch, mishaps, received>>

\* The handshake succeeds: only `phoenix-firewall proxy` serves the identity
\* document.  The package manager is run through the proxy.
Verified(i) ==
  /\ listener \in {"proxy", "other"}
  /\ At(i, "found", "over")
  /\ Runs(i, "proxied")
  /\ UNCHANGED <<faults, fd, wrote, files, daemon, listener, batch, mishaps, received>>

\* Mutant: an open shim runs the package manager without recording it.
UnverifiedQuiet(i, mode) ==
  /\ IF mode = "closed" THEN At(i, "found", "over") ELSE At(i, "found", "recorded")
  /\ UNCHANGED <<faults, ran, fd, wrote, files, daemon, listener, batch, mishaps, received>>

\* Whoever listens does not identify itself in time: the fail mode decides,
\* and PHOENIX_FAIL_MODE overrides the one baked into the shim.
Unverified(i, mode) ==
  /\ IF mode = "closed" THEN At(i, "found", "over") ELSE At(i, "found", "bypassing")
  /\ UNCHANGED <<faults, ran, fd, wrote, files, daemon, listener, batch, mishaps, received>>

\* Mutant: > for >> truncates the log.
OpenTruncated(i) ==
  /\ At(i, "bypassing", "opened")
  /\ fd' = [fd EXCEPT ![i] = "log"]
  /\ logFile' = {{}}
  /\ UNCHANGED <<faults, ran, wrote, drainFile, daemon, listener, batch, mishaps, received>>

\* The redirection `>> bypass.log` opens the file, creating it if need be ...
OpenLog(i) ==
  /\ At(i, "bypassing", "opened")
  /\ fd' = [fd EXCEPT ![i] = "log"]
  /\ logFile' = IF logFile = {} THEN {{}} ELSE logFile
  /\ UNCHANGED <<faults, ran, wrote, drainFile, daemon, listener, batch, mishaps, received>>

\* Mutant: the line goes to a file of its own.
AppendBeside(file, i) == file \cup {{i}}

Append(file, i) == {lines \cup {i} : lines \in file}

\* The file behind a descriptor will not be read any more.
Late(i) == \/ fd[i] = "removed"
           \/ fd[i] = "draining" /\ \E d \in Daemons : daemon[d] = "read"

\* ... and printf writes the line to wherever the file is by then.
WriteLine(i) ==
  /\ At(i, "opened", "recorded")
  /\ wrote' = [wrote EXCEPT ![i] = IF Late(i) THEN "late" ELSE fd[i]]
  /\ fd' = [fd EXCEPT ![i] = "none"]
  /\ logFile' = IF fd[i] = "log" THEN Append(logFile, i) ELSE logFile
  /\ drainFile' = IF fd[i] = "draining" THEN Append(drainFile, i) ELSE drainFile
  /\ UNCHANGED <<faults, ran, daemon, listener, batch, mishaps, received>>

\* Errors of mkdir and of the redirection go to /dev/null.
CannotRecord(i) ==
  /\ "io" \in faults
  /\ At(i, "bypassing", "recorded")
  /\ UNCHANGED <<faults, ran, fd, wrote, files, daemon, listener, batch, mishaps, received>>

RunUnscanned(i) ==
  /\ At(i, "recorded", "over")
  /\ Runs(i, "unscanned")
  /\ UNCHANGED <<faults, fd, wrote, files, daemon, listener, batch, mishaps, received>>

Shim(i) ==
  \/ Authorized(i) \/ FindReal(i) \/ Verified(i)
  \/ \E mode \in {"open", "closed"} : Unverified(i, mode)
  \/ OpenLog(i) \/ WriteLine(i) \/ CannotRecord(i) \/ RunUnscanned(i)

----------------------------------------------------------------------------
(* The daemons. *)

DaemonAt(d, from, to) == daemon[d] = from /\ daemon' = [daemon EXCEPT ![d] = to]

\* The lines d has counted.
Counts(d, lines) == batch' = [batch EXCEPT ![d] = lines]

\* The command starts the heartbeat goroutine, which sends at once.
StartDaemon(d) ==
  /\ DaemonAt(d, "down", "sending")
  /\ UNCHANGED <<faults, shims, files, listener, batch, mishaps, received>>

\* Only then does it listen, if the port is free.  One that finds it taken
\* ends, wherever its first heartbeat is: Stop does not wait for it.  (One that
\* was told to use another port goes on, without this step.)
Listen(d) ==
  /\ daemon[d] # "down"
  /\ \/ listener = "nobody" /\ listener' = d /\ UNCHANGED <<daemon, batch, mishaps>>
     \/ /\ listener \notin {"nobody", d}
        /\ daemon' = [daemon EXCEPT ![d] = "down"]
        /\ mishaps' = IF daemon[d] \in {"renamed", "read"} \/ batch[d] # {}
                      THEN mishaps \cup {"taken"} ELSE mishaps
        /\ Counts(d, {}) /\ UNCHANGED listener
  /\ UNCHANGED <<faults, shims, files, received>>

\* It is stopped or killed at any point of a heartbeat.
DaemonDies(d) ==
  /\ "crash" \in faults
  /\ daemon[d] # "down"
  /\ daemon' = [daemon EXCEPT ![d] = "down"]
  /\ listener' = IF listener = d THEN "nobody" ELSE listener
  /\ Counts(d, {})
  /\ UNCHANGED <<faults, shims, files, mishaps, received>>

\* Descriptors follow their file when it is renamed or removed.
Moved(from, to) == [i \in Installs |-> IF fd[i] = from THEN to ELSE fd[i]]

\* os.Rename: a .draining that is there is replaced, a leftover as well as one
\* that the other daemon has yet to read or to remove.
RenameLog(d) ==
  /\ DaemonAt(d, "sending", "renamed")
  /\ logFile # {}
  /\ drainFile' = logFile
  /\ logFile' = {}
  /\ fd' = [i \in Installs |->
              IF fd[i] = "draining" THEN "removed" ELSE Moved("log", "draining")[i]]
  /\ mishaps' = IF \E e \in Daemons \ {d} : daemon[e] \in {"renamed", "read"}
                THEN mishaps \cup {"clash"} ELSE mishaps
  /\ UNCHANGED <<faults, shim, ran, wrote, listener, batch, received>>

\* os.Rename fails, above all because there is no log: the count is 0.
NothingToDrain(d) ==
  /\ logFile = {} \/ "io" \in faults
  /\ DaemonAt(d, "sending", "posting")
  /\ Counts(d, {})
  /\ UNCHANGED <<faults, shims, files, listener, mishaps, received>>

\* Mutant: the original path is read, not the renamed file.
ReadLog(d) ==
  /\ DaemonAt(d, "renamed", "read")
  /\ Counts(d, UNION logFile)
  /\ UNCHANGED <<faults, shims, files, listener, mishaps, received>>

\* os.ReadFile, which fails if the other daemon has removed the file.
ReadDrained(d) ==
  /\ DaemonAt(d, "renamed", "read")
  /\ \/ Counts(d, UNION drainFile)
     \/ "io" \in faults /\ Counts(d, {})
  /\ UNCHANGED <<faults, shims, files, listener, mishaps, received>>

\* The deferred os.Remove, whatever was read.
RemoveDrained(d) ==
  /\ DaemonAt(d, "read", "posting")
  /\ drainFile' = {}
  /\ fd' = Moved("draining", "removed")
  /\ UNCHANGED <<faults, shim, ran, wrote, logFile, listener, batch, mishaps,
                 received>>

\* The backend is told of the lines d has counted.
Told(d) == received' = [i \in Installs |-> received[i] + (IF i \in batch[d] THEN 1 ELSE 0)]

\* Mutant: a post whose answer is lost is repeated.
PostRepeated(d) ==
  /\ \/ DaemonAt(d, "posting", "idle") /\ Counts(d, {})
     \/ daemon[d] = "posting" /\ UNCHANGED <<batch, daemon>>
  /\ Told(d)
  /\ UNCHANGED <<faults, shims, files, listener, mishaps>>

\* The post arrives; its answer may still be lost.
PostArrives(d) ==
  /\ DaemonAt(d, "posting", "idle")
  /\ Told(d)
  /\ Counts(d, {})
  /\ UNCHANGED <<faults, shims, files, listener, mishaps>>

\* No connection, or a status other than 2xx: the error goes to OnResult.
PostFails(d) ==
  /\ "post" \in faults
  /\ DaemonAt(d, "posting", "idle")
  /\ Counts(d, {})
  /\ UNCHANGED <<faults, shims, files, listener, mishaps, received>>

Beat(d) ==
  /\ DaemonAt(d, "idle", "sending")
  /\ UNCHANGED <<faults, shims, files, listener, batch, mishaps, received>>

Heartbeat(d) ==
  \/ RenameLog(d) \/ NothingToDrain(d) \/ ReadDrained(d) \/ RemoveDrained(d)
  \/ PostArrives(d) \/ PostFails(d) \/ Beat(d)

BypassNext ==
  \/ \E i \in Installs : Shim(i)
  \/ \E d \in Daemons : StartDaemon(d) \/ Listen(d) \/ DaemonDies(d) \/ Heartbeat(d)

\* Each ticker keeps firing and each post ends, within the client timeout.
BypassFairness == \A d \in Daemons : WF_bypassVars(Heartbeat(d))

BypassSpec == BypassInit /\ [][BypassNext]_bypassVars /\ BypassFairness

----------------------------------------------------------------------------
\* Where a line is while the backend has yet to be told of it: in a file that
\* will be read, or in a heartbeat.
Pending(i) ==
  \/ i \in UNION logFile
  \/ i \in UNION drainFile /\ \A d \in Daemons : daemon[d] # "read"
  \/ \E d \in Daemons : i \in batch[d]

\* However appends, drains, lost answers and restarts interleave, the backend
\* is told at most once of one install, also by two daemons: a heartbeat posted
\* again, or a leftover .draining file read again, would inflate the count of
\* unscanned installs.  Only a rename in the middle of the other daemon's drain
\* lets both count the same lines.
NeverCountedTwice == "clash" \notin mishaps => \A i \in Installs : received[i] <= 1

\* Without faults, the only line lost between shim and backend is one written
\* through an old descriptor after the daemon has read the renamed file.  Any
\* other, also one that lands in the renamed file, is at every step of a drain
\* in a file that will be read, in a heartbeat, or with the backend, unless two
\* drains clashed or a daemon found its port taken when it had drained already.
LinesAccounted ==
  faults = {} /\ mishaps = {} =>
    \A i \in Installs :
      wrote[i] \in {"log", "draining"} => Pending(i) \/ received[i] = 1

\* An install runs unscanned without authorization only after its line was
\* written, unless the file system refused it: the daemon cannot learn of an
\* install later than the install happens.
RecordedBeforeRun ==
  "io" \notin faults =>
    \A i \in Installs : ran[i] = "unscanned" => wrote[i] # "none"

\* Without faults, every line in bypass.log, and every one that reached the
\* renamed file in time, gets to the backend once a daemon serves, whichever
\* shims go on appending and whoever else drains meanwhile, unless a drain meets
\* one of the two mishaps.
LinesSurface ==
  \A i \in Installs :
    (faults = {} /\ wrote[i] \in {"log", "draining"} /\ listener \in Daemons)
      ~> (received[i] = 1 \/ mishaps # {})

\* bypass.go: "Renames the file before reading so a shim appending concurrently
\* always lands in a fresh file": a line that a shim has written is never lost
\* to the drain it runs beside.
AppendsLandFresh ==
  faults = {} /\ mishaps = {} =>
    \A i \in Installs : wrote[i] # "none" => Pending(i) \/ received[i] = 1

\* heartbeat.go: "Installs that ran without firewall evaluation since the last
\* heartbeat [...] Lets the backend flag hosts": an install whose line is in
\* bypass.log is kept for the backend while posts fail.
OutageKeepsCount ==
  faults \subseteq {"post"} /\ mishaps = {} =>
    \A i \in Installs : wrote[i] = "log" => Pending(i) \/ received[i] = 1
============================================================================
