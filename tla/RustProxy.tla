------------------------------ MODULE RustProxy -----------------------------
(***************************************************************************)
(* The proxy written in Rust (src/*.rs): main generates a CA, installs     *)
(* shims with --ci and starts an HTTP proxy; each connection is a tokio    *)
(* task, the tasks share the client's LRU cache (evaluate.rs) and the      *)
(* report, and Ctrl-C writes the report and returns from main, which drops *)
(* the tasks that are still running.  URLs are those of Registries.        *)
(* Simplifications: one request per connection; what is forwarded upstream *)
(* is passed on whatever upstream answers; a host is one of REGISTRY_HOSTS *)
(* or has none of them in it (the code looks for a substring); a scope is  *)
(* spelled "@", never "%40"; the scripts of --ci are read by nothing here. *)
(***************************************************************************)
EXTENDS Registries

CONSTANTS Tasks,       \* the connections
          Inputs,      \* the requests a client may send: [connect, url]
          RustConfigs, \* the configurations the proxy may be started with
          CacheSize    \* capacity of the LRU cache

\* Strings of the backend and the feed, with one that the proxy does not know.
RustActions == {"allow", "audit", "warn", "require_approval", "block", "other"}

\* What --strict, --mode, --fail-on, --ci and --fallback-feed say; a feed that
\* cannot be read or parsed lists nothing.
RustConfigType(feeds) ==
  [strict : BOOLEAN, mode : {"enforce", "warn", "audit"}, failOn : {"block", "warn", "any"},
   ci : BOOLEAN, feed : feeds]

ASSUME RustAssumption ==
  /\ CacheSize \in Nat \ {0}
  /\ \A c \in RustConfigs : /\ c \in RustConfigType({c.feed})
                            /\ \A ref \in DOMAIN c.feed : c.feed[ref] \in RustActions

VARIABLES rconfig,
          main,      \* where main is
          task,      \* where each connection's task is
          input,     \* the request it serves
          action,    \* what resolve_action returned
          lru,       \* EvaluateClient.cache, the most recent first
          entries,   \* the report in memory: <<task, ref, action>>
          file,      \* the report on disk, {} if there is none
          ruled,     \* history: <<ref, action>> the backend answered
          followed   \* history: the answer a task's action was made of, if any

rustVars == <<rconfig, main, task, input, action, lru, entries, file, ruled, followed>>

NoInput == [connect |-> FALSE, url |-> Url("", "", NoName, "")]

----------------------------------------------------------------------------
(* extract_package_info                                                    *)
RegistryHosts == {"registry.npmjs.org", "registry.yarnpkg.com", "pypi.org",
                  "files.pythonhosted.org"}

\* Mutant: a scoped package is asked about without its scope.
ExtractUnscoped(url) ==
  CASE url.shape = "tarball"  -> Ref("npm", [url.name EXCEPT !.scope = ""], url.version)
    [] url.shape = "metadata" -> Ref("npm", [url.name EXCEPT !.scope = ""], "*")
    [] OTHER -> NoRef

\* A tarball names a version of any form; metadata stands for all versions.
ExtractNpm(url) ==
  CASE url.shape = "tarball"  -> Ref("npm", url.name, url.version)
    [] url.shape = "metadata" -> Ref("npm", url.name, "*")
    [] OTHER -> NoRef

\* parse_pypi_filename cuts a file at its first two hyphens: one in the name of
\* an sdist ends the name, and the next word is taken for the version.
ExtractPypi(url) ==
  CASE url.shape = "index" -> Ref("pypi", Normal(url.name), "*")
    [] url.shape \in {"sdist", "old sdist"} /\ url.name.sep = "-" ->
         Ref("pypi", [Lower(url.name) EXCEPT !.sep = ""], "second word")
    [] url.shape \in {"sdist", "old sdist", "wheel"} -> Ref("pypi", Normal(url.name), url.version)
    [] OTHER -> NoRef

Extract(url) == IF url.host \in {"pypi.org", "files.pythonhosted.org"} THEN ExtractPypi(url)
                ELSE IF url.host \in RegistryHosts THEN ExtractNpm(url)
                ELSE NoRef

\* A tarball path without a package indexes an empty slice.
Panics(url) == /\ url.host \in RegistryHosts \ {"pypi.org", "files.pythonhosted.org"}
               /\ url.shape = "tarball" /\ url.name = NoName

RefOfTask(t) == Extract(input[t].url)
Intercepted(t) == ~input[t].connect /\ RefOfTask(t) # NoRef

----------------------------------------------------------------------------
RustInit ==
  /\ rconfig \in RustConfigs
  /\ main = "generate"
  /\ task = [t \in Tasks |-> "none"]
  /\ input = [t \in Tasks |-> NoInput]
  /\ action = [t \in Tasks |-> Unlisted]
  /\ lru = <<>> /\ entries = {} /\ file = {} /\ ruled = {}
  /\ followed = [t \in Tasks |-> "none"]

\* main: the CA, the shims of --ci, then the certificate file and the listener;
\* an error ends the program.
Starts(from, to) ==
  /\ main = from /\ main' \in {to, "ended"}
  /\ UNCHANGED <<rconfig, task, input, action, lru, entries, file, ruled, followed>>

GenerateCA == Starts("generate", IF rconfig.ci THEN "shims" ELSE "bind")
InstallShims == Starts("shims", "bind")
Bind == Starts("bind", "accepting")

Moves(t, from, to) == task[t] = from /\ task' = [task EXCEPT ![t] = to]

\* A request on a connection, handle_request up to resolve_action: a tunnel, a
\* registry host or not, a package or not, or a panic that ends the task.
Accept(t, i) ==
  /\ main \in {"accepting", "flushed"}
  /\ Moves(t, "none", IF i.connect THEN "tunnelled"
                      ELSE IF Panics(i.url) THEN "dropped"
                      ELSE IF Extract(i.url) = NoRef THEN "passed"
                      ELSE "check")
  /\ input' = [input EXCEPT ![t] = i]
  /\ UNCHANGED <<rconfig, main, action, lru, entries, file, ruled, followed>>

----------------------------------------------------------------------------
(* check_package, without the mutex during the call                        *)
Cached(ref) == SelectInSeq(lru, LAMBDA e : e.ref = ref)

Without(ref) == IF Cached(ref) = 0 THEN lru ELSE RemoveAt(lru, Cached(ref))

\* Mutant: a cache without a limit.
UsedUnlimited(e) == <<e>> \o Without(e.ref)

\* get and put move the entry to the front; put drops the last one if need be.
Used(e) ==
  LET all == <<e>> \o Without(e.ref)
  IN  SubSeq(all, 1, Min({Len(all), CacheSize}))

\* apply_mode_override
Override(a) == CASE rconfig.mode = "audit" -> "audit"
                 [] rconfig.mode = "warn" /\ a \in {"block", "require_approval"} -> "warn"
                 [] OTHER -> a

\* The action a task goes on with, and the backend's action it is made of.
Resolve(t, a, answer) ==
  action' = [action EXCEPT ![t] = a] /\ followed' = [followed EXCEPT ![t] = answer]

CheckHit(t) ==
  /\ Moves(t, "check", "resolved")
  /\ Cached(RefOfTask(t)) # 0
  /\ LET e == lru[Cached(RefOfTask(t))]
     IN  lru' = Used(e) /\ Resolve(t, Override(e.action), e.action)
  /\ UNCHANGED <<rconfig, main, input, entries, file, ruled>>

CheckMiss(t) ==
  /\ Moves(t, "check", "calling")
  /\ Cached(RefOfTask(t)) = 0
  /\ UNCHANGED <<rconfig, main, input, action, lru, entries, file, ruled, followed>>

Evaluated(t, a) ==
  /\ Moves(t, "calling", "resolved")
  /\ lru' = Used([ref |-> RefOfTask(t), action |-> a])
  /\ ruled' = ruled \cup {<<RefOfTask(t), a>>}
  /\ Resolve(t, Override(a), a)
  /\ UNCHANGED <<rconfig, main, input, entries, file>>

\* Mutant: the feed is asked before strict mode, and taken as it is.
FeedBeforeStrict(ref) ==
  LET listed == InFeed(rconfig.feed, ref)
  IN  IF listed # Unlisted THEN listed ELSE IF rconfig.strict THEN "block" ELSE "allow"

\* resolve_action when the call fails: no answer, no JSON, or no result.
Unreachable(ref) ==
  LET listed == InFeed(rconfig.feed, ref)
  IN  IF rconfig.strict THEN "block"
      ELSE IF listed # Unlisted THEN Override(listed) ELSE "allow"

EvaluateFails(t) ==
  /\ Moves(t, "calling", "resolved")
  /\ Resolve(t, Unreachable(RefOfTask(t)), "none")
  /\ UNCHANGED <<rconfig, main, input, lru, entries, file, ruled>>

----------------------------------------------------------------------------
Record(t) ==
  /\ Moves(t, "resolved", "recorded")
  /\ entries' = entries \cup {<<t, RefOfTask(t), action[t]>>}
  /\ UNCHANGED <<rconfig, main, input, action, lru, file, ruled, followed>>

\* The response: 403, or the request is forwarded, as for any unknown action.
Refused(a) == \/ a \in {"block", "require_approval"}
              \/ a = "warn" /\ rconfig.failOn \in {"warn", "any"}

\* Mutant: the record is left for later.
RespondFirst(t) ==
  /\ Moves(t, "resolved", IF Refused(action[t]) THEN "refused" ELSE "passed")
  /\ UNCHANGED <<rconfig, main, input, action, lru, entries, file, ruled, followed>>

RespondTo(t) ==
  /\ Moves(t, "recorded", IF Refused(action[t]) THEN "refused" ELSE "passed")
  /\ UNCHANGED <<rconfig, main, input, action, lru, entries, file, ruled, followed>>

\* Ctrl-C: flush_report, which writes nothing if nothing was intercepted and
\* only logs that it could not write.
CtrlC ==
  /\ main = "accepting"
  /\ main' = "flushed"
  /\ \/ file' = entries
     \/ file' = {}
  /\ UNCHANGED <<rconfig, task, input, action, lru, entries, ruled, followed>>

\* main returns and the runtime drops every task at its next await.
RuntimeEnds ==
  /\ main = "flushed"
  /\ main' = "ended"
  /\ task' = [t \in Tasks |-> IF task[t] \in {"refused", "passed", "none"} THEN task[t]
                              ELSE "dropped"]
  /\ UNCHANGED <<rconfig, input, action, lru, entries, file, ruled, followed>>

RustNext ==
  \/ GenerateCA \/ InstallShims \/ Bind \/ CtrlC \/ RuntimeEnds
  \/ \E t \in Tasks : \/ \E i \in Inputs : Accept(t, i)
                      \/ CheckHit(t) \/ CheckMiss(t) \/ EvaluateFails(t)
                      \/ \E a \in RustActions : Evaluated(t, a)
                      \/ Record(t) \/ RespondTo(t)

----------------------------------------------------------------------------
RustTypeOK ==
  /\ rconfig \in RustConfigs
  /\ main \in {"generate", "shims", "bind", "accepting", "flushed", "ended"}
  /\ task \in [Tasks -> {"none", "check", "calling", "resolved", "recorded", "refused",
                         "passed", "tunnelled", "dropped"}]
  /\ input \in [Tasks -> Inputs \cup {NoInput}]
  /\ action \in [Tasks -> RustActions \cup {Unlisted}]
  /\ followed \in [Tasks -> RustActions \cup {"none"}]
  /\ Len(lru) <= CacheSize /\ \A e \in ToSet(lru) : <<e.ref, e.action>> \in ruled
  /\ \A e \in file \cup entries : e[1] \in Tasks /\ e[2] # NoRef /\ e[3] \in RustActions

\* What the settings make of an answer of the backend: audit mode refuses
\* nothing; warn mode makes a warning of every refusal, which --fail-on may
\* refuse again; an action that is not known is as good as "allow".
Permits(a) ==
  CASE rconfig.mode = "audit" -> TRUE
    [] rconfig.mode = "warn" ->
         a \in {"block", "require_approval", "warn"} => rconfig.failOn = "block"
    [] rconfig.mode = "enforce" ->
         a \notin {"block", "require_approval"} /\ (a = "warn" => rconfig.failOn = "block")

\* "Strict mode: if the evaluate API is unreachable, block all installs": a
\* package request over HTTP goes through only by an answer that the backend
\* gave about that package and that --mode and --fail-on permit, whichever
\* tasks filled the cache.  Tunnels (CONNECT) are not inspected.
RustFailsClosed ==
  \A t \in Tasks : rconfig.strict /\ Intercepted(t) /\ task[t] = "passed" =>
    <<RefOfTask(t), followed[t]>> \in ruled /\ Permits(followed[t])

\* "in "audit" mode, downgrade everything to audit": audit mode refuses nothing,
\* whether the action came from the call, the cache or the feed; only strict
\* mode still blocks while the backend cannot be reached.
AuditOnlyObserves ==
  \A t \in Tasks : rconfig.mode = "audit" /\ task[t] = "refused" =>
    rconfig.strict /\ <<t, RefOfTask(t), "block">> \in entries

\* The report that Ctrl-C writes has every package request that was answered
\* by then, with the action the answer followed.
FlushedReport ==
  [][file' # file /\ file' # {} =>
       \A t \in Tasks : Intercepted(t) /\ task[t] \in {"refused", "passed"} =>
         <<t, RefOfTask(t), action[t]>> \in file']_rustVars
=============================================================================
