---------------------------- MODULE Installation ----------------------------
(***************************************************************************)
(* The commands that share ~/.config/phoenix-firewall: init, enroll, the   *)
(* two servers (proxy and system) and agent-bridge (cmd/).  Each runs in a *)
(* process of its own, may run beside another one, and may die, or fail on *)
(* an I/O error, between any two of its file operations.  os.WriteFile is  *)
(* two steps, truncate and write.  The CA is CAStore, the text of          *)
(* agent.toml is AgentToml.                                                *)
(* Simplifications: one package is all an outage is asked about, and of    *)
(* the settings only the key, the fail mode and --strict are followed.     *)
(***************************************************************************)
EXTENDS CAStore, AgentToml

CONSTANTS Texts,        \* what agent.toml may say to begin with
          Managers,     \* how many package managers get a shim
          MaxCommands   \* bound: commands started and edits made

ASSUME InstallAssumption == Managers \in Nat \ {0} /\ MaxCommands \in Nat

NoFile == << Line("no file", "") >>

\* The commands, with --strict for the servers; "enroll" is given the key
\* "given", "token" a bootstrap token, and the backend issues "device".
Commands == [name : {"init", "enroll", "token", "bridge"}, strict : {FALSE}]
              \cup [name : {"proxy", "system"}, strict : BOOLEAN]
None == [name |-> "none", strict |-> FALSE]

VARIABLES toml, bridge,  \* agent.toml and agent-bridge.json
          shims,         \* what each shim has baked in
          cmd, pc,       \* the command each process runs, and where it is
          seen,          \* the configuration it loaded when it started
          base, text,    \* agent.toml as it was read, and as it shall become
          key,           \* the key enroll is about to save
          at,            \* the shim that init writes next
          ruling,        \* what was answered: a server in an outage, a bridge
          token,         \* the single-use bootstrap token, at the backend
          commands       \* how many commands and edits there were

\* History: what the user has configured, and how it may have been missed.
VARIABLES intent,        \* the key and mode that agent.toml ought to have
          wanted,        \* the mode intended when each command started
          lost,          \* a write was cut short, or undid another one
          unread,        \* enroll failed to read agent.toml and went on
          misread,       \* a command started with agent.toml truncated or unread
          stale,         \* no fresh init has ended since the mode was edited
          fresh,         \* which inits are fresh: started since the last edit,
                         \* with no init at work that wanted another mode
          issued,        \* the backend issued a key for the token ...
          tokenSaved, tokenReported   \* ... and what became of it

files == <<toml, bridge, shims>>
locals == <<base, text, key, at, ruling>>
process == <<cmd, pc, seen, wanted, fresh, locals>>
tokenHistory == <<issued, tokenSaved, tokenReported>>
history == <<intent, lost, unread, misread, stale, tokenHistory>>
vars == <<caVars, files, process, token, commands, history>>

InstallTypeOK ==
  /\ CATypeOK
  /\ \A l \in ToSet(toml) : DOMAIN l = {"key", "val"}
  /\ bridge \in {"absent", "empty", "written"}
  /\ shims \in [1 .. Managers -> {"absent", "empty", "open", "closed"}]
  /\ cmd \in [Procs -> Commands \cup {None}]
  /\ pc \in [Procs -> {"idle", "stat", "truncate", "write", "ca", "createBridge",
                       "writeBridge", "createShim", "writeShim", "path", "ask",
                       "read", "serving", "discover"}]
  /\ \A p \in Procs : (pc[p] = "idle") = (cmd[p] = None)
  /\ \A p \in Procs : {intent.mode, seen[p].mode, wanted[p]} \subseteq {"open", "closed"}
  /\ at \in [Procs -> 1 .. Managers]
  /\ ruling \in [Procs -> {"none", "allow", "block"}]
  /\ token \in {"fresh", "spent"}
  /\ commands \in 0 .. MaxCommands
  /\ fresh \in [Procs -> BOOLEAN]
  /\ {lost, unread, misread, stale, issued, tokenSaved, tokenReported} \subseteq BOOLEAN

Init ==
  /\ CAInit
  /\ toml \in {NoFile} \cup Texts
  /\ bridge = "absent"
  /\ shims = [i \in 1 .. Managers |-> "absent"]
  /\ cmd = [p \in Procs |-> None] /\ pc = [p \in Procs |-> "idle"]
  /\ intent = Load(toml)
  /\ seen = [p \in Procs |-> intent] /\ wanted = [p \in Procs |-> "open"]
  /\ base = [p \in Procs |-> <<>>] /\ text = [p \in Procs |-> <<>>]
  /\ key = [p \in Procs |-> ""] /\ at = [p \in Procs |-> 1]
  /\ ruling = [p \in Procs |-> "none"]
  /\ token = "fresh"
  /\ commands = 0
  /\ fresh = [p \in Procs |-> FALSE]
  /\ lost = FALSE /\ unread = FALSE /\ misread = FALSE /\ stale = FALSE
  /\ issued = FALSE /\ tokenSaved = FALSE /\ tokenReported = FALSE

Goes(p, from, to) == pc[p] = from /\ pc' = [pc EXCEPT ![p] = to]

FirstStep(c) == CASE c.name = "init" -> "stat"
                  [] c.name \in {"enroll", "token"} -> "ask"
                  [] c.name \in {"proxy", "system"} -> "ca"
                  [] c.name = "bridge" -> "discover"

----------------------------------------------------------------------------
\* A command starts: initConfig loads agent.toml before anything else.  An
\* error is a warning, and leaves the defaults (which matters to the commands
\* that use a setting followed here, if it is not the default).
Start(p, c) ==
  /\ commands < MaxCommands
  /\ commands' = commands + 1
  /\ Goes(p, "idle", FirstStep(c))
  /\ cmd' = [cmd EXCEPT ![p] = c]
  /\ wanted' = [wanted EXCEPT ![p] = intent.mode]
  /\ fresh' = [fresh EXCEPT ![p] =
                 /\ c.name = "init" /\ stale
                 /\ \A q \in Procs : cmd[q].name = "init" => wanted[q] = intent.mode]
  /\ \/ /\ seen' = [seen EXCEPT ![p] = Load(toml)]
        /\ misread' = (misread \/ \E q \in Procs : pc[q] = "write")
     \/ /\ c.name \in {"init", "proxy", "bridge"} /\ Load(toml) # Load(<<>>)
        /\ seen' = [seen EXCEPT ![p] = Load(<<>>)]
        /\ misread' = TRUE
  /\ UNCHANGED <<caVars, files, locals, token, intent, lost, unread, stale, tokenHistory>>

\* The process is gone, and what it kept in memory with it.
Ends(p) ==
  /\ pc' = [pc EXCEPT ![p] = "idle"] /\ cmd' = [cmd EXCEPT ![p] = None]
  /\ seen' = [seen EXCEPT ![p] = intent] /\ wanted' = [wanted EXCEPT ![p] = "open"]
  /\ fresh' = [fresh EXCEPT ![p] = FALSE]
  /\ base' = [base EXCEPT ![p] = <<>>] /\ text' = [text EXCEPT ![p] = <<>>]
  /\ key' = [key EXCEPT ![p] = ""] /\ at' = [at EXCEPT ![p] = 1]
  /\ ruling' = [ruling EXCEPT ![p] = "none"]
  /\ LeaveCA(p)

\* The backend took its token, and it has not written agent.toml yet ...
Redeemed(p) == cmd[p].name = "token" /\ pc[p] \in {"read", "truncate", "write"}

\* ... where it is to save the key that was issued.
InFlight(p) == Redeemed(p) /\ key[p] # ""

\* A crash or an I/O error, at any step.
Dies(p) ==
  /\ pc[p] # "idle"
  /\ Ends(p)
  /\ lost' = (lost \/ pc[p] = "write")
  /\ tokenReported' = (tokenReported \/ Redeemed(p))
  /\ UNCHANGED <<files, token, commands, intent, unread, misread, stale, issued, tokenSaved>>

\* The user sets [fail_mode] mode with an editor.
EditMode(mode) ==
  /\ commands < MaxCommands
  /\ commands' = commands + 1
  /\ LineOf(toml, "mode") # 0 /\ mode # Load(toml).mode
  /\ toml' = Upsert(toml, "mode", mode)
  /\ intent' = [intent EXCEPT !.mode = mode]
  /\ stale' = TRUE /\ fresh' = [p \in Procs |-> FALSE]
  /\ UNCHANGED <<caVars, bridge, shims, cmd, pc, seen, wanted, locals, token, lost, unread,
                 misread, tokenHistory>>

----------------------------------------------------------------------------
(* agent.toml is written by os.WriteFile: open with O_TRUNC, then write.   *)
Truncate(p) ==
  /\ Goes(p, "truncate", "write")
  /\ toml' = <<>>
  /\ lost' = (lost \/ toml # base[p])
  /\ UNCHANGED <<caVars, bridge, shims, cmd, seen, wanted, fresh, locals, token, commands,
                 intent, unread, misread, stale, tokenHistory>>

Written(p) ==
  /\ pc[p] = "write"
  /\ toml' = text[p]
  /\ lost' = (lost \/ toml # <<>>)
  /\ UNCHANGED <<bridge, shims, token, commands, unread, misread, stale, issued,
                 tokenReported>>

(* runInit *)
InitStat(p) ==
  /\ Goes(p, "stat", IF toml = NoFile THEN "truncate" ELSE "ca")
  /\ base' = [base EXCEPT ![p] = IF toml = NoFile THEN NoFile ELSE <<>>]
  /\ text' = [text EXCEPT ![p] = IF toml = NoFile THEN Template ELSE <<>>]
  /\ UNCHANGED <<caVars, files, cmd, seen, wanted, fresh, key, at, ruling, token, commands,
                 history>>

InitWrite(p) ==
  /\ cmd[p].name = "init"
  /\ Goes(p, "write", "ca")
  /\ Written(p)
  /\ base' = [base EXCEPT ![p] = <<>>] /\ text' = [text EXCEPT ![p] = <<>>]
  /\ UNCHANGED <<caVars, cmd, seen, wanted, fresh, key, at, ruling, intent, tokenSaved>>

\* EnsureCA, for init and for the servers.
UseCA(p) ==
  /\ pc[p] = "ca"
  /\ CAStep(p)
  /\ UNCHANGED <<files, process, token, commands, history>>

CAFails(p) ==
  /\ pc[p] = "ca" /\ caPc[p] = "failed"
  /\ Ends(p)
  /\ UNCHANGED <<files, token, commands, history>>

InitHasCA(p) ==
  /\ cmd[p].name = "init" /\ caPc[p] = "loaded"
  /\ Goes(p, "ca", "createBridge")
  /\ LeaveCA(p)
  /\ UNCHANGED <<files, cmd, seen, wanted, fresh, locals, token, commands, history>>

WriteBridge(p) ==
  /\ \/ Goes(p, "createBridge", "writeBridge") /\ bridge' = "empty"
     \/ Goes(p, "writeBridge", "createShim") /\ bridge' = "written"
  /\ UNCHANGED <<caVars, toml, shims, cmd, seen, wanted, fresh, locals, token, commands,
                 history>>

\* Mutant: every shim is open by default.
BakedOpen(p) == "open"

\* readFailMode: the configuration was loaded when the command started.
Baked(p) == seen[p].mode

\* Generator.Generate: each script is truncated, then executed into the file.
CreateShim(p) ==
  /\ Goes(p, "createShim", "writeShim")
  /\ shims' = [shims EXCEPT ![at[p]] = "empty"]
  /\ UNCHANGED <<caVars, toml, bridge, cmd, seen, wanted, fresh, locals, token, commands,
                 history>>

WriteShim(p) ==
  /\ shims' = [shims EXCEPT ![at[p]] = Baked(p)]
  /\ IF at[p] < Managers
     THEN Goes(p, "writeShim", "createShim") /\ at' = [at EXCEPT ![p] = @ + 1]
     ELSE Goes(p, "writeShim", "path") /\ UNCHANGED at
  /\ UNCHANGED <<caVars, toml, bridge, cmd, seen, wanted, fresh, base, text, key, ruling,
                 token, commands, history>>

\* InstallPATH ends with the shell profiles, whose errors are skipped.
InitEnds(p) ==
  /\ pc[p] = "path"
  /\ Ends(p)
  /\ stale' = (stale /\ ~fresh[p])
  /\ UNCHANGED <<files, token, commands, intent, lost, unread, misread, tokenHistory>>

----------------------------------------------------------------------------
(* runEnrollWithOptions *)
Answered(p, k) ==
  /\ Goes(p, "ask", "read")
  /\ key' = [key EXCEPT ![p] = k]
  /\ UNCHANGED <<caVars, files, cmd, seen, wanted, fresh, base, text, at, ruling, commands,
                 intent, lost, unread, misread, stale, tokenSaved, tokenReported>>

Fails(p) ==
  /\ pc[p] = "ask"
  /\ Ends(p)
  /\ UNCHANGED <<files, commands, intent, lost, unread, misread, stale, tokenSaved>>

\* The backend accepts the key, and may answer with a device-bound one.
KeyAccepted(p) ==
  /\ cmd[p].name = "enroll"
  /\ \E k \in {"given", "device"} : Answered(p, k)
  /\ UNCHANGED <<token, issued>>

\* 401 or 403: the command fails, and local config is left unchanged.
KeyRejected(p) ==
  /\ cmd[p].name = "enroll"
  /\ Fails(p)
  /\ UNCHANGED <<token, issued, tokenReported>>

\* Any other failure is tolerated: the key is saved unverified.
KeyUnverified(p) ==
  /\ cmd[p].name = "enroll"
  /\ Answered(p, "given")
  /\ UNCHANGED <<token, issued>>

\* Any 2xx answer is success; it need not have a key.
TokenAccepted(p) ==
  /\ cmd[p].name = "token" /\ token = "fresh"
  /\ token' = "spent"
  /\ \E k \in {"device", ""} : Answered(p, k) /\ issued' = (k # "")

\* Mutant: a failed call with a token is tolerated like one with a key.
TokenTolerated(p) ==
  /\ cmd[p].name = "token"
  /\ token' \in {token, "spent"}
  /\ issued' = (issued \/ token' # token)
  /\ Fails(p)
  /\ UNCHANGED tokenReported

\* Any error is returned, also when the backend did spend the token and only
\* its answer was lost.
TokenFails(p) ==
  /\ cmd[p].name = "token"
  /\ token' \in {token, "spent"}
  /\ issued' = (issued \/ token' # token)
  /\ Fails(p)
  /\ tokenReported' = TRUE

\* os.ReadFile: a file that cannot be read is taken for one that is not there.
ReadToml(p) ==
  /\ Goes(p, "read", "truncate")
  /\ base' = [base EXCEPT ![p] = toml]
  /\ \/ /\ text' = [text EXCEPT ![p] =
                       Enrolled(IF toml = NoFile THEN <<>> ELSE toml, key[p], "dev")]
        /\ UNCHANGED unread
     \/ /\ toml \notin {NoFile, <<>>}
        /\ text' = [text EXCEPT ![p] = Enrolled(<<>>, key[p], "dev")]
        /\ unread' = TRUE
  /\ UNCHANGED <<caVars, files, cmd, seen, wanted, fresh, key, at, ruling, token, commands,
                 intent, lost, misread, stale, tokenHistory>>

\* The command ends as a success, whether or not it had a key to save.
EnrollWrite(p) ==
  /\ cmd[p].name \in {"enroll", "token"}
  /\ Written(p)
  /\ intent' = IF key[p] = "" THEN intent ELSE [intent EXCEPT !.key = key[p]]
  /\ tokenSaved' = (tokenSaved \/ InFlight(p))
  /\ Ends(p)

----------------------------------------------------------------------------
(* The servers.  proxy may put the CA into the trust store first.          *)
Serve(p) ==
  /\ cmd[p].name \in {"proxy", "system"} /\ caPc[p] = "loaded"
  /\ Goes(p, "ca", "serving")
  /\ \/ cmd[p].name = "proxy" /\ InjectCA(p)
     \/ UNCHANGED caVars
  /\ UNCHANGED <<files, cmd, seen, wanted, fresh, locals, token, commands, history>>

\* Mutant: the settings wired for both servers leave out strict mode.
StrictDropped(p) == FALSE

\* applyHandlerConfig, shared by both commands, sets strict mode ...
Strict(p) == cmd[p].strict

\* ... and the fail mode is set by `proxy` only.
HandlerMode(p) == IF cmd[p].name = "proxy" THEN seen[p].mode ELSE ""

\* A request whose API call fails.
Outage(p) ==
  /\ pc[p] = "serving" /\ ruling[p] = "none"
  /\ ruling' = [ruling EXCEPT ![p] =
                  IF Strict(p) \/ HandlerMode(p) = "closed" THEN "block" ELSE "allow"]
  /\ UNCHANGED <<caVars, files, cmd, pc, seen, wanted, fresh, base, text, key, at, token,
                 commands, history>>

\* runAgentBridge: a readable discovery file counts as a local worker, which
\* allows; without one the backend rules if there is a key and it answers.
Bridge(p) ==
  /\ pc[p] = "discover" /\ ruling[p] = "none"
  /\ \/ ruling' = [ruling EXCEPT ![p] = "allow"]
     \/ /\ bridge # "written" /\ seen[p].key # ""
        /\ ruling' = [ruling EXCEPT ![p] = "block"]
  /\ UNCHANGED <<caVars, files, cmd, pc, seen, wanted, fresh, base, text, key, at, token,
                 commands, history>>

----------------------------------------------------------------------------
InitCmd(p) == \/ InitStat(p) \/ InitWrite(p) \/ InitHasCA(p) \/ WriteBridge(p)
              \/ CreateShim(p) \/ WriteShim(p) \/ InitEnds(p)
Enroll(p) == \/ KeyAccepted(p) \/ KeyRejected(p) \/ KeyUnverified(p)
             \/ TokenAccepted(p) \/ TokenFails(p) \/ ReadToml(p) \/ EnrollWrite(p)
Server(p) == Serve(p) \/ Outage(p)

Next ==
  \/ \E p \in Procs :
       \/ \E c \in Commands : Start(p, c)
       \/ InitCmd(p) \/ Enroll(p) \/ Server(p) \/ Bridge(p)
       \/ Truncate(p) \/ UseCA(p) \/ CAFails(p)
       \/ Dies(p)
  \/ \E mode \in {"open", "closed"} : EditMode(mode)

Spec == Init /\ [][Next]_vars

----------------------------------------------------------------------------
\* What was configured is what the file says: the key of the last enrollment
\* and the mode the user last set survive every enroll and init, if the file
\* had them where config.Load looks for them.  Three things can undo that: a
\* write that was cut short, two commands that rewrote the file at once, and an
\* enroll that could not read the file it rewrote.
ConfigAsIntended ==
  ~lost /\ ~unread /\ (\A p \in Procs : pc[p] # "write") => Load(toml) = intent

\* "bake the configured fail_mode into each shim": a shim that was written
\* differs from agent.toml only if the mode was edited and no fresh init has
\* ended since, or the file was damaged or not read.  An init that started
\* before the edit, and one with such an init still at work beside it, may
\* leave the old mode; any other one puts every shim right.
ShimsAsConfigured ==
  ~lost /\ ~unread /\ ~misread /\ ~stale =>
    \A i \in 1 .. Managers : shims[i] \in {"open", "closed"} => shims[i] = intent.mode

\* A key that the backend issued for the single-use token is saved, is being
\* saved, or the command did not end as a success, wherever it was interrupted
\* and whatever the others do to the token and to the file meanwhile.
IssuedKeyKept ==
  issued => tokenSaved \/ tokenReported \/ \E p \in Procs : InFlight(p)

\* What a server does in an outage follows from what was configured when it
\* started: --strict blocks in both commands, fail_mode=closed in `proxy`.
OutageBlocks ==
  ~lost /\ ~unread /\ ~misread => \A p \in Procs :
    pc[p] = "serving" /\ ruling[p] = "allow" =>
      ~cmd[p].strict /\ (wanted[p] = "open" \/ cmd[p].name = "system")

\* enroll.go: "you're good to go - shims will evaluate packages via Phoenix": when
\* an enroll by token ends as a success, agent.toml has a key that config.Load
\* finds.
GoodToGo ==
  [][\A p \in Procs : cmd[p].name = "token" /\ EnrollWrite(p) => Load(toml').key # ""]_vars
=============================================================================
