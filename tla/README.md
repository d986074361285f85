# Blue Shield firewall: TLA+ models, model checking and proofs

Blue Shield (`phoenix-firewall`) puts itself between package managers and their
registries: shims on the PATH route a package manager through a local proxy,
the proxy asks the Phoenix API for a verdict on each package, and an endpoint
daemon reports to the backend. This directory has TLA+ models of the parts that
run concurrently, fail or restart, the TLC configurations that check them, and
proofs, checked by TLAPS, that the most important properties hold for every
value of the constants. `PROJECT.json` lists the runs, the lines each definition
models, the hazards and the theorems.

## Inventory

| Component | State it keeps | Operations | What is hard | What makes it correct |
|---|---|---|---|---|
| Verdict cache (`internal/proxy/cache.go`) | map of entries, slice of keys in order of use | Get, Set under one mutex | two structures kept in step by hand, expiry on lookup, capacity | structures agree, bounded, evicts by recency, a hit is the last stored result and not older than the TTL |
| Request handler (`internal/proxy/handler.go`) | none of its own; shares cache, report, policy clock | HandleRequest, one goroutine per request | concurrent requests for one package, 30 s calls, failures after a decision | fail-closed, feed blocks win, outage blocks are not cached, answers fresh, report faithful, every request answered |
| API client (`internal/client/firewall.go`) | base URL, key | Check, VerifyBypass | timeout, every kind of bad answer | an error is never taken for a verdict |
| Fallback feed (`internal/proxy/fallback.go`) | map read at start | Check | when it is asked | see handler |
| Policy syncer (`internal/policy/sync.go`) | policy, lastSync | loop, fetch, Stop, IsHardStale | slow downloads, dropped ticks, Stop during a download | hard stale only after an outage; Stop ends it |
| Proxy and system commands, server (`cmd/proxy.go`, `cmd/system.go`, `internal/proxy/server.go`) | listener, context, exit code | start, serve, shut down, write outputs | three goroutines and hijacked connections at shutdown | outputs agree, CI exit code, the process ends |
| Reporter (`internal/proxy/reporter.go`) | list of results | Record, Summary, Write, HasBlocked | read at three moments | complete for what was answered |
| Shims (`internal/shim/generator.go`) | bypass.log | run of one script per command | the log is shared with the daemon without a lock | recorded before run |
| Heartbeat (`internal/telemetry`, `cmd/heartbeat.go`) | bypass.log, .draining | drain, post, repeat | failed posts, lost answers, restarts between file operations, a second daemon on the same files and the same port, a shim that holds the renamed file open | no double count; without faults, a line is lost only in the ways that are named |
| Health endpoint (`internal/proxy/health.go`) | an atomic flag | GET | who really listens on the port | only the proxy is trusted |
| CA store (`internal/proxy/ca.go`, `trust.go`) | two files, the system's trust store | EnsureCA, GenerateCA, LoadCA, InjectCA | a crash or a second process between two writes | the pair matches; what a server signs with is what clients trust |
| Enrollment, init (`cmd/enroll.go`, `cmd/init_cmd.go`) | agent.toml, agent-bridge.json, shims | enroll, enroll with a token, init | single-use token, answers without a key, truncating writes, reads that fail, line edits in a sectioned file, two commands at once | the file says what the user configured; an issued key is accounted for |
| Configuration (`internal/config`, `cmd/config_helpers.go`, `cmd/root.go`) | flags, environment, agent.toml | initConfig, Load, applyHandlerConfig | read once at start, by every command; wired by two commands | what was configured is enforced, by both servers alike |
| Agent bridge (`cmd/agent_bridge.go`) | discovery file | evaluate | which source answers | decision follows local worker, backend, fail-open |
| Lockfile scan (`cmd/scan.go`) | list of results | parse, check, report | three formats, strict mode, errors per package | the exit code follows the verdicts of everything the parsers find, which is everything the file pins in a plain way |
| Rust proxy (`src/*.rs`) | tasks, LRU cache, report | a second implementation of the proxy | a mutex not held during the call, Ctrl-C, three settings that decide a failure, actions the proxy does not know | strict fails closed, audit only observes, the report is complete |
| Registry matchers (`internal/registry`) | none | Match | order, names spelled in several ways | a download that both proxies recognize is one question to both |
| Service managers, PATH installation, inventory, MDM, integrity, identity | little or none | parse, or run tools of the operating system | none a state machine shows | see the end |

Interactions. The command builds the server, the handler, the reporter and the
syncer and hands them to each other (`ConfigureHandler`, `applyHandlerConfig`).
Handlers call the cache, the feed, the client and the reporter, and ask the
syncer's clock; the syncer's goroutine changes that clock at any moment. A
signal reaches the server through a context. The shims know the daemon only by
the health endpoint on its port, and tell it of unscanned installs only through
`bypass.log`, which the heartbeat drains. All commands of one user share the
directory `~/.config/phoenix-firewall`: `init` and `enroll` write it, the servers
and the agent bridge read it when they start, and nothing locks it. The Rust proxy
and the scan share no state with the Go proxy, only the backend's rules and the
feed, and therefore the names they ask them about.

## Modules

| Module | Models | Extends |
|---|---|---|
| `ResultCache` | the cache, Get and Set atomic as their mutex makes them | |
| `VerdictMemo` | what a caller of the cache may rely on (abstract) | |
| `LRUHistory` | the cache with history variables, and the refinement mapping to `VerdictMemo` | `ResultCache` |
| `ProxyHandler` | concurrent `HandleRequest`s over the cache, report and policy clock | `ResultCache` |
| `PolicySyncer` | the syncer's goroutine against a clock and a ticker | |
| `ProxyProcess` | one proxy or system process from start to exit | |
| `BypassTelemetry` | shims, bypass.log and the heartbeats of two daemons | |
| `CAStore` | the CA files, by several processes that may die at every step | |
| `AgentToml` | the text of agent.toml: upserts and what a reader makes of it (operators) | |
| `Installation` | init, enroll, the servers and the agent bridge over one directory | `CAStore`, `AgentToml` |
| `Registries` | which package a URL downloads, for every matcher (operators) | |
| `RustProxy` | the Rust proxy: main, connections, cache, report | `Registries` |
| `LockfileScan` | the scan command and its parsers | `Registries` |
| `Frontends` | the two of them side by side, and what all three front ends ask about | `RustProxy`, `LockfileScan` |
| `ResultCacheProofs`, `LRUHistoryProofs`, `ProxyHandlerProofs`, `PolicySyncerProofs`, `ProxyProcessProofs`, `BypassTelemetryProofs`, `InstallationProofs` (with `CAStore`), `FrontendsProofs` | theorems | the module each is named for |
| `MC*` | instances for TLC | |

**ResultCache.** `entries` is the map, `order` the slice; `Touched`, `Removed`
and `Victim` are touchLocked, removeLocked and evictLocked; `GetHit`,
`GetExpired`, `GetAbsent`, `SetExisting` and `SetNew` are the paths through Get
and Set. `now` is what `time.Now()` reads: two calls in one operation read the
same tick. `LRUHistory` adds what the last lookup returned and which keys were
used since each key was.

**ProxyHandler.** Each request walks through `pc`: "gate", "lookup", then "api"
and "replying" (before and after the backend decided), "hit"/"fresh"/"refused"
(a result is held), "store", "done". One action is one access to something shared
(gate, cache lookup, record, store) or one event of the API call. "Local" work
belongs to the action before it. The configuration (strict, fail_mode=closed,
freshness enforcement, reporter, feed) is fixed at start and chosen from
`Configs`. A result keeps where it came from and when the backend gave it,
which the code does not need, and the properties do. `system` mode is the
configuration without a reporter and without fail_mode=closed, which it does not
set on its handler (`cmd/system.go:130`).

**PolicySyncer.** The loop is "fetching", "waiting" at its select or
"returned". The ticker fires every `Interval`; its channel holds one tick
(`ticked`) and drops others. `lastSync` is read by IsHardStale.

**ProxyProcess.** `main` walks from "setup" through "serving", "closed" (the
server returned), "written" (report), "counted" (summary) and "exiting" (exit code
chosen) to "ended". Beside it: the goroutine on the signal channel, the one on
the context, and the handlers. The tunnels are hijacked connections, so that
`closed` does not end them: `Decide`, `Record` and `Respond` go on until main has
ended.

**BypassTelemetry.** A shim's run is the script of `shimTemplate`: authorize,
find the package manager, handshake, then proxied, refused or unscanned, with the
fail mode chosen anew each time because PHOENIX_FAIL_MODE may override it. Opening
bypass.log and writing to it are two steps, and `fd` says which file the
descriptor reaches by now: rename and remove take it along. `wrote` records where the line went, with "late" for
one that came after the renamed file had been read. DrainBypassEvents is
`RenameLog`/`NothingToDrain`, `ReadDrained`, `RemoveDrained`. Two daemons, a
service and a proxy started by hand, run the same heartbeat over the same files.
Each sends before it listens (`cmd/proxy.go:99`), so that one that finds the port
taken (`Listen`) may end in the middle of its first heartbeat. `mishaps` records the
two events that lose or double lines although nothing failed: "clash", a rename
in the middle of the other daemon's drain, and "taken", the end of a daemon that
had drained. A late line is the third way to lose one; `LinesAccounted` and `LinesSurface`
speak of every other line, `AppendsLandFresh` of the late ones too. `faults` says which
kinds of fault a behaviour may have; the sets are nested, because a fault is
possible and never certain.

**CAStore, AgentToml, Installation.** A file is its content: the number of the key
pair it belongs to, or for agent.toml its lines, and each truncation, write and
read is a step. `CAStore` is a specification of its own, in which any process may
begin EnsureCA or leave at any point; `Installation` calls its actions from the
commands, and a theorem says that all it does to the CA is what `CAStore` allows. `pc` says where a command is, `seen` what it loaded when it started.
A process may die or fail on an I/O error at every step (`Dies`). `Start` and `ReadToml`
may fail to read a file that is there: the first goes on with the defaults, the second
rewrites the file from nothing, as the code does. `TokenAccepted` may answer without a key.
The history variables say what ought to be (`intent`, `wanted`), what the backend gave
(`issued`) and which event excuses a difference: `lost` (a write cut short or overlapped),
`unread` (enroll could not read the file), `misread` (a command started on a half-written or
unreadable file), `stale` (the mode was edited), `torn` and `raced` (the CA). `stale` ends
with an init that is `fresh`: it started after the last edit, while no init that wanted
another mode was at work. What that init baked does not matter, so an init that bakes the
wrong mode is caught when it ends.

**Registries, RustProxy, LockfileScan, Frontends.** A URL is a host, the shape of
its path, a name and a version; a name keeps what the code changes about it (scope,
case, separators). Each regular expression is the hosts, shapes and kinds of version
it accepts, and `Matchers` is their order. `RustProxy` has one task per
connection; a cache lookup, the call and the store are steps of their own because
the mutex is not held in between. Ctrl-C writes the report, and the end of the
runtime drops tasks wherever they are; `main` is there because the flush and the end
depend on it. The action "other" stands for every string of the backend or the feed that
the proxy does not know (`evaluate.rs:31`, and the last arm of `proxy.rs:492-497`, which lets
it through). `followed` remembers the answer that a task's action was made of. A
lockfile is a sequence of lines, and a parser is a function from the lines at which it
appends a package to the package. What the file pins is defined beside the parsers, from
the meaning of the format: `Pinned` is everything, under its real name; `Plainly` is what is
left without extras, nested dependencies of v1, npm aliases, names with "_" and
tables after the last crate.

## Runs

| Run | Shows | Bounds |
|---|---|---|
| `cache` | map and slice in step, capacity, evictions by true recency, and refinement of `VerdictMemo` | 3 keys on 2 places so that eviction has a choice; TTL 1, clock to 3, so that an entry is stored, expires and is stored again |
| `handler` | fail-closed, feed, report, cache and gate properties; freshness of answers when calls overlap and store in any order; each request answered | 2 requests, 2 packages on 1 place (so that stores evict), 16 configurations (strict, fail mode, gate, a feed that blocks one package or none), verdicts allow/warn/block and an empty one, calls of at most 1 tick, TTL 1, threshold 0, clock to 2. The constraint `ThirdFollows` lets a third request follow the two, and the clock go on to 3, in the plain configuration with one package: a late answer is stored over a newer one and the third request hits it |
| `syncer` | hard stale means an outage; Stop works | ticker 3, download up to 2, threshold 8, clock to 24: several thresholds long; the bound `Chances` is exact, demanding one failure more makes TLC find a counterexample |
| `process` | report, summary, exit code; the process ends | 2 connections, every configuration |
| `exit_code` | violation: exit 0 after a block was answered | 2 connections |
| `bypass` | counts and lines across drains, faults, restarts and a taken port | 2 installs: one in the drained file and one that appends meanwhile; 2 daemons |
| `late_append` | violation: a line written after the read is lost | 1 install, 2 daemons |
| `bypass_outage` | violation: a failed post loses the count | 1 install, 2 daemons |
| `install` | agent.toml, shims, CA and token after any overlap, any crash and any failed read | 2 interchangeable processes, 2 package managers (init can end between two shims), 3 commands or edits: two that overlap and one that finds what they left; agent.toml absent or in use (closed, without a key, a line of one of enroll's keys in a table) at the start. The constraint `OneExcuse` stops at a state where a second excuse of the five (`lost`, `unread`, `misread`, `torn`, `raced`) has joined a first: agent.toml and the CA do not depend on each other, and what excuses one of them goes on excusing it |
| `good_to_go` | violation: an enroll by token succeeds without a key | 1 process, 1 command |
| `frontends` | the Rust proxy's decisions and report, the scan's exit code, and that a download both proxies recognize is one question | 2 interchangeable connections and a cache of 1, so that entries are evicted and one package's calls overlap; each kind of URL and setting the code tells apart, a feed that blocks, warns about or does not list a package, every known action and an unknown one; a lockfile of each format with lines that its parser skips, 8 configurations of the scan and 3 of the matchers |
| `scan_all` | violation: a scan passes without having asked about all that is pinned | one lockfile for each way in which the parsers and the formats differ |

Why small instances suffice: packages interact only through the cache's places,
requests only through one package's entry and the report, installs only through
one file, commands only through one directory; two or three of each give every
pairwise interaction. `Horizon` bounds the clock: it is larger than the longest
interval a property speaks of (TTL + Timeout, StaleAfter + Timeout, several times
StaleAfter). `MaxCommands` bounds what is started; it stays a parameter of the
proofs. Symmetry is used in `install` and `frontends`, on
processes and connections that nothing distinguishes, and without liveness. The constraint
of `handler` cuts only the arrival of a request and ticks of the clock, which no fairness
asks for, so that what is left are behaviours of the specification. Runs with
a bounded clock, or of a process that ends, do not check deadlock.

What the violations are about:

* `exit_code`: `--ci` is documented (`cmd/root.go:39`) as "exit code 1 if any
  package blocked". Main waits neither for `Shutdown` nor for handlers in
  hijacked tunnels, so a block can be answered after `HasBlocked` was asked.
  `BlockFailsBuild` in `process` is what does hold: a block that was answered before the
  exit code was decided fails the build.
* `bypass_outage`: the heartbeat's field is documented (`heartbeat.go:141`) as the
  installs "since the last heartbeat"; the log is drained before the
  post, and the count of a failed post is gone. `NeverCountedTwice` is the
  other side of that design, and holds.
* `late_append`: `bypass.go:25` says that a shim appending concurrently "always lands in a
  fresh file". One that opened the log before the rename lands in the renamed file, and
  after the read its line is lost, without any fault. `LinesAccounted` in `bypass` is what
  does hold: every other line is kept.
* `good_to_go`: enroll ends with "you're good to go" (`cmd/enroll.go:184`), and with a
  token "enrollment must succeed (the token is single-use)" (`cmd/enroll.go:99`). A 2xx
  answer without a key is taken for success: the token is spent, nothing is saved, no error
  is reported. `IssuedKeyKept` in `install` is what does hold: a key that was issued is saved,
  or the command did not end as a success.
* `scan_all`: the command is to "check all packages" (`cmd/scan.go:22`). The run's trace is a
  pin with extras, which the expression of `scan.go:234` does not match. The other
  lockfiles of the run pass unchecked in their own ways: nested dependencies of v1
  (`scan.go:210`), an npm alias asked about under its installed name (195), "_" in a
  requirement, which the proxy normalizes (247), and a table after the last crate, whose
  name is taken for the crate's (285). `ScanTells` in `frontends` is what does hold.

What the modelling showed beside that, of which no run makes a point:

* A daemon that finds its port taken may have drained bypass.log already, and the
  lines are lost without any fault (`cmd/proxy.go:99`; `Stop` does not wait for the
  send). Two daemons whose drains overlap lose or double lines. Both are exceptions
  of the properties of `bypass`, by name.
* Two concurrent first starts can leave a certificate and a key that do not
  match; every later EnsureCA then fails until someone removes the files
  (`internal/proxy/ca.go:103`). A crash with the key file empty does the same.
* Once `init` has written the discovery file, `agent-bridge` takes it for a local
  worker and allows everything (`cmd/agent_bridge.go:58`).
* The Rust proxy takes the second word of a hyphenated sdist for its version
  (`src/proxy.rs:746`), a tarball path without a package panics its task
  (`src/proxy.rs:671`), and CONNECT tunnels pass unchecked (`src/proxy.rs:316`).
* Enroll takes any error of reading agent.toml for an absent file (`cmd/enroll.go:150`) and
  writes a new one: the user's settings, the fail mode included, are gone. `ConfigAsIntended`
  excepts it by name (`unread`).
* upsertTOMLLine replaces the first line with its key whatever section that is in
  (`cmd/enroll.go:197`), although new keys are meant not to be "silently placed inside a TOML
  table" (192): with api_key in a table and not above it, the enrolled key ends up in the
  table. `ConfigAsIntended` speaks of files that have their settings where config.Load looks
  for them.
* `cmd/system.go:128` says the settings are wired "so endpoint (service) mode enforces
  identically". `applyHandlerConfig` leaves the fail mode out, and only `proxy` sets it
  (`cmd/proxy.go:127`): with fail_mode=closed, `system` lets a package through in an outage.
  `OutageBlocks` is stated for what the code does.
* `config.go:30` describes the feed as "used when the API is unreachable"; the handler asks
  the feed first and the API only for a package it does not list (`handler.go:151`).
* The README's table of registries (`README.md:171-172`) lists registry.yarnpkg.com and
  `/simple/`. The Rust proxy asks about both, the Go proxy about neither (`npm.go:28`,
  `pypi.go:34`). `ReadByBoth` leaves them out of `SameQuestion`.
* A server, an init or a bridge that cannot read agent.toml, or reads it while another
  command has it truncated, runs with the defaults after a warning: fail_mode open
  (`cmd/root.go:72`). The properties of `install` except what follows from it, by name
  (`misread`).
* An init that was already at work when the mode was edited may write the old mode after an
  init that started later; the shims then keep it until the next init.
* The Rust proxy lets an action through that it does not know, in strict and in enforce
  mode (`src/proxy.rs:492`). No document says what it should do; `Permits` in
  `RustFailsClosed` says so openly.
* The readings of the proxies differ further on versions of one
  number, tarballs of npm whose version is not three numbers, old .tar.bz2 sdists, and metadata.
  `ReadByBoth` is the part on which they do not.
* A custom registry drops the scope of an npm name and keeps a wheel's tags in the
  version (`internal/registry/custom.go:57`); gitlab.com is matched only when some
  other GitLab host or registry is configured (`internal/registry/matchers.go:45`).
* `--api-url` given with the value of the default is overridden by agent.toml
  (`cmd/config_helpers.go:71`).

## Fairness

* `ProxyHandler`: weak fairness of each handler. A goroutine that can run does, no
  lock is held across a call, and `http.Client.Timeout` (30 s) ends every call. No
  fairness of the backend, the syncer or the clock.
* `PolicySyncer`: weak fairness of the end of a download (client timeout, 10 s);
  strong fairness of `SelectStop`, because Go's select chooses at random between
  ready cases, and a tick may be ready each time.
* `ProxyProcess`: weak fairness of main and of the two waiting goroutines. None of
  the handlers: a package manager or the API may leave one waiting. None of a listener that
  fails (`ListenFails`) either, which is no part of `Main`: nothing forces an accept to
  fail, so it is the signal that has to end the process.
* `BypassTelemetry`: weak fairness of each daemon's heartbeat goroutine: its ticker
  keeps firing and its posts end within the client's timeout. None of the shims, nor
  that a daemon is ever started.
* `Installation` and `Frontends` state safety only: commands are started by a user and
  may be interrupted at any step, and no task of the Rust proxy waits for another.

Time. In `ProxyHandler` the clock advances only while every handler is idle or in its
call: the local steps take microseconds, the TTL is minutes. In `PolicySyncer` a
select with a ready channel does not wait, for the same reason.

## Proofs

Every invariant and action property that a passing run checks is also a theorem, and so
is the refinement of `VerdictMemo`; only liveness is left to TLC. Below, for each module,
the inductive invariant and why it is needed.

`ResultCacheProofs`: `CacheCoherent` (types and coherence, inductive together:
the slice has no duplicates, so the victim is in the map and the others stay) and
`CacheBounded`, for every number of keys, `MaxSize` and `TTL`.

`LRUHistoryProofs`: `LeastRecentEvicted` and `CacheKeepsPromise`. Recency is a fact about
all earlier steps, and the invariant ties it to the slice: of two keys in `order`, the later
one was used since the earlier one (`Ranked`). Moving a key to the end keeps that, so
the head is what every other key was used after. The refinement maps the map of entries
to the memo and forgets the slice; each path through Get and Set is then a step of the
memo, an eviction included, because it happens only when the cache is full.

`ProxyHandlerProofs` proves the handler's six safety properties, and its typing,
for any set of requests and packages, any configurations and any TTL, timeout
and threshold, from the constants' assumptions `CacheAssumption` and
`HandlerAssumption`. The properties are not inductive: `EnforcedPass` speaks only of
finished requests, and a cache hit finishes a request with what another one
stored. The invariant is built in three layers, each proved with the one
before as a known invariant:

1. `TypeIInv`: types (with the cache's typing);
2. `DecisionInv`: what a handler holds at each program point (`PointSound`,
   `DoneSound`), that every cached result is one that this configuration would
   decide afresh (`EntriesSound`), and that the records are the results held
   (`ReportSound`). It gives `EnforcedPass`, `FeedBlocks`, `ReportAgrees` and
   `OnlyVerdictsCached`;
3. `AgeInv`: a call is at most `Timeout` old, a cached backend verdict was at most
   that old when it was stored, and the gate was open when the call began. It gives
   the action properties `FreshAnswer` and `GateHolds`.

All three are stated in `ProxyHandler`. `HandlerImplementsCache` adds the composition: the
handlers, whatever they do at once, use the cache only as `ResultCache` specifies.

`ProxyProcessProofs`: `ProcInv` says that the report, the summary and the exit code are
taken once each and in this order, from records that only grow, and that a
request has a record from the step after its decision on. `OutputsAgree`,
`BlockFailsBuild` and `ReportComplete` follow for any number of connections.

`PolicySyncerProofs`: `StaleMeansOutage` counts failures against time, so its
invariant does too. `OnTime` says that after n failures since the last success the
next download begins within n + 1 intervals of it; the ticker's phase (`TimeInv`)
and the assumption that a download fits into an interval are what keeps it.
`DivBound` turns that into the quotient of the property.

`BypassTelemetryProofs`: the invariant `LinesInv` says that a line is in at most one
of the log, the drained file, a batch and the backend, and, without faults and
mishaps, in one of them unless it was written late. Shims keep it because a descriptor reaches the file it was
opened on; daemons because rename, read and remove pass a line along. For any number of
installs.

`InstallationProofs`, on the CA: `CAInv` says what the two files may hold
while a process is at each step of GenerateCA, if nothing raced and no key file was
torn. It is inductive for `CASpec`. `InstallImplementsCA` shows that each step of
`Installation` is a step of `CAStore` or leaves it alone, which carries
`CAFailureExplained` and `ServedIsTrusted` over without proving them again among
the commands. `IssuedKeyAccounted` follows the key of a token through enroll.

`InstallationProofs`, on agent.toml, in three layers:

1. The text. `Settled` allows any lines and tables, as long as there is at most one api_key
   line, above all sections, and at most one mode line, inside `[fail_mode]`. Only on such
   texts do the line searches of upsertTOMLLine and of the reader mean the same, so that the theorems have the hypothesis
   `SettledTexts`: the texts at the start are settled. That the commands keep them so is
   proved, not assumed:
   `UpsertSettled` (an upsert keeps it) and `UpsertLoads` (after it, the file loads as before
   with the one setting changed).
2. `InstTyped`: the types, which include that the file and every text in flight are
   settled, and at which steps each command can be. It gives `InstallTyped`.
3. `ConfInv`: a command about to write holds a text that turns what it *read* into what it
   means (`Pending`), and, unless a write was lost, the file says what was configured or
   the only writer is about to make it so again (`Kept`), if the read did not fail. `ConfigAsIntended` alone is not
   inductive, because it says nothing while the file is truncated. With it follow `Wanted`
   (a command runs with the mode that was configured when it started) and `Ruled` for
   `OutageEnforced`, and `Baking` for `ShimsConfigured`: without a stale mode, every init at work
   is to bake the configured mode (`InitsAgree`) and each finished shim has it; while the mode
   is stale, the same holds of what a fresh init has written so far (`Righted`), so that the
   end of that init makes the first half true.

These invariants were checked with TLC on the instance of `install` before they were proved.

`FrontendsProofs`: `RustInv` says which actions audit mode can produce and that a task
past `Record` is in the report; it gives `AuditOnlyObserves` and `FlushedReport`.
`StrictInv` says that everything in the LRU cache was ruled by the backend, that its use
keeps it within its capacity, and that in strict mode a task's action is a block or what
the mode makes of the answer it followed, which the backend gave about that package
(`Earned`); it gives `RustFailsClosed` in every mode. `ScanInv` follows what
is left to check: every package found is in `todo` or was answered, and every answer has
its record, in whatever order a Go map gave them. `ScanTellsAll` needs no assumption about the
parsers: `PlainFound` shows, for any lines, that each plain pin is at a line at which the
parser appends a package of that name and version (for a Cargo.lock, at the header of its
block, the last one included), and `Recognized` that the Go proxy reads the same reference in
each of its download URLs: for every configuration the list of matchers begins with the
built-in ones (`MatchersStart`), the first that takes the URL is the one of its ecosystem
(`FirstTakes`), and the ways PyPI spells a name normalize to one (`Respelled`). `OneQuestion`
starts from the other end, a URL that a client sends: on each one that both recognize,
`Extract` and `Match` give the same reference, and `Reported`, a part of `RustInv`, puts it
into the report with the action of the answer.

Assumptions: those on the constants (`CacheAssumption`, `HandlerAssumption`,
`SyncerAssumption`, `ProcessAssumption`, `InstallAssumption`, `RegistriesAssumption`,
`RustAssumption`, `ScanAssumption`), which TLC evaluates in the runs, as it does
`TextsAreSettled` for the texts of `install`.

Model-checked only: all liveness (`EveryRequestAnswered`, `StopEnds`, `SignalEnds`,
`LinesSurface`), which is beyond the prover.

## Plan

Done: the cache, the handler, the syncer, the process, the bypass telemetry with two
daemons, the CA and the configuration directory, the front ends, and proofs about each
of them. What could follow:

1. `ConfigSources`: flags, environment and agent.toml for each setting, against the
   order `config_helpers.go:46-48` states.
2. The Rust cache against an abstract memo, as `LRUHistory` has it for the Go cache.
3. The agent bridge's reading of a command line.

## Not modelled, and why

* The precedence of flags, environment and file: viper and cobra decide it, and the
  back-fill of `config_helpers.go` repeats it for each setting. The models take the
  settings as they end up.
* The regular expressions of the matchers, percent-encoding and the normalization of
  URLs: character by character work. `Registries` has what each accepts.
* The agent bridge's parsing of command lines, and the activity events that enroll and
  the bridge post: nothing reads them back. It takes only the first package of a
  command and does not split "==" (`cmd/agent_bridge.go:241`).
* Trust-store injection beyond its one effect, service managers, PATH entries: they run
  tools of the operating system, whose state is not the program's. RemoveCA and
  UninstallPATH have no caller.
* The parsing of feed files. Go and Rust read different fields (`package_name` and
  `name`) and default a missing action differently (allow and block).
* Inventory, endpoint identity, integrity hashes, MDM, rules, env, version: they
  collect or print once.
* Integrations and scripts run the binary; `phoenix-firewall/` is an older copy of
  this program that nothing here imports.
