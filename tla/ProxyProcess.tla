---------------------------- MODULE ProxyProcess ---------------------------
(***************************************************************************)
(* The life of one `phoenix-firewall proxy` or `system` process (cmd and   *)
(* internal/proxy/server.go): the main goroutine sets the server up,       *)
(* serves, and, once the server is closed, writes the report, prints the   *)
(* summary, decides the exit code and ends the process.  Beside it run the *)
(* goroutine that waits for a signal, the one that shuts the server down,  *)
(* and the handlers of intercepted connections.  Those connections are     *)
(* hijacked for interception, so a closed server neither ends them nor     *)
(* waits for them, and main does not wait for Shutdown to return.          *)
(***************************************************************************)
EXTENDS FiniteSets, Naturals

CONSTANTS Requests,   \* the intercepted requests, one handler each
          Unwritten   \* a report or a summary that does not exist yet

ASSUME ProcessAssumption == \A records \in SUBSET Requests : records # Unwritten

\* What a handler decides; "unchecked" lets an install through because the
\* API failed in open mode, and leaves no record.
Rulings == {"allow", "warn", "block", "unchecked"}
Nothing == "nothing"

\* What decides the outputs: --ci, --report-path, and whether the process is
\* runSystemMode, which attaches no reporter.
ConfigType == [ci : BOOLEAN, path : BOOLEAN, system : BOOLEAN]

VARIABLES config,     \* fixed when the process starts
          main,       \* where the main goroutine is
          signal,     \* "none", "pending" in sigCh, or "received"
          cancelled,  \* the context that StartWithContext watches
          closed,     \* httpSrv.Shutdown has begun: the listener is closed
          srvErr,     \* ListenAndServe returned an error to report
          conn,       \* where each request's connection and handler are
          ruling,     \* what the handler decided
          answeredAt, \* history: where main was when the request was answered
          results,    \* the reporter's records
          file,       \* the records in the report file, or Unwritten
          summary,    \* the records the printed summary counts, or Unwritten
          code        \* the exit code

outputs == <<results, file, summary, code>>
handlers == <<conn, ruling, answeredAt>>
control == <<signal, cancelled, closed>>
procVars == <<config, main, srvErr, control, handlers, outputs>>

MainAt == {"setup", "configured", "serving", "closed", "written", "counted",
           "exiting", "ended"}

ProcTypeOK ==
  /\ config \in ConfigType
  /\ main \in MainAt
  /\ signal \in {"none", "pending", "received"}
  /\ cancelled \in BOOLEAN /\ closed \in BOOLEAN /\ srvErr \in BOOLEAN
  /\ conn \in [Requests -> {"none", "tunnel", "decided", "recorded", "answered"}]
  /\ ruling \in [Requests -> Rulings \cup {Nothing}]
  /\ answeredAt \in [Requests -> MainAt \cup {Nothing}]
  /\ results \subseteq Requests
  /\ file \in (SUBSET Requests) \cup {Unwritten}
  /\ summary \in (SUBSET Requests) \cup {Unwritten}
  /\ code \in {"undecided", "0", "1", "killed"}

ProcInit ==
  /\ config \in ConfigType
  /\ main = "setup"
  /\ signal = "none"
  /\ cancelled = FALSE /\ closed = FALSE /\ srvErr = FALSE
  /\ conn = [r \in Requests |-> "none"]
  /\ ruling = [r \in Requests |-> Nothing]
  /\ answeredAt = [r \in Requests |-> Nothing]
  /\ results = {}
  /\ file = Unwritten /\ summary = Unwritten
  /\ code = "undecided"

Running == main # "ended"
Reporting == ~config.system /\ (config.path \/ config.ci)

\* Reporter.HasBlocked
HasBlocked(records) == \E r \in records : ruling[r] = "block"

----------------------------------------------------------------------------
\* EnsureCA, the fallback feed and the reporter: an unusable file ends the
\* command with its error.
SetUp ==
  /\ main = "setup"
  /\ \/ main' = "configured" /\ UNCHANGED code
     \/ main' = "ended" /\ code' = "1"
  /\ UNCHANGED <<config, srvErr, control, handlers, results, file, summary>>

\* ListenAndServe begins; it returns at once if Shutdown came first.
Listen ==
  /\ main = "configured"
  /\ main' = IF closed THEN "closed" ELSE "serving"
  /\ UNCHANGED <<config, srvErr, control, handlers, outputs>>

\* The port is taken, or accepting fails for good.  No part of Main: it may
\* happen, and nothing makes it happen.
ListenFails ==
  /\ main \in {"configured", "serving"}
  /\ ~closed
  /\ main' = "closed"
  /\ srvErr' = TRUE
  /\ UNCHANGED <<config, control, handlers, outputs>>

\* Mutant: main waits for the open connections.
ServerDrained ==
  /\ main = "serving"
  /\ closed /\ \A r \in Requests : conn[r] \in {"none", "answered"}
  /\ main' = "closed"
  /\ UNCHANGED <<config, srvErr, control, handlers, outputs>>

\* ListenAndServe returns ErrServerClosed as soon as Shutdown has begun.
ServerClosed ==
  /\ main = "serving"
  /\ closed
  /\ main' = "closed"
  /\ UNCHANGED <<config, srvErr, control, handlers, outputs>>

\* Mutant: only the blocked packages are written.
WriteBlocked ==
  /\ main = "closed"
  /\ main' = "written"
  /\ \/ Reporting /\ config.path /\ file' = {r \in results : ruling[r] = "block"}
     \/ UNCHANGED file
  /\ UNCHANGED <<config, srvErr, control, handlers, results, summary, code>>

\* Reporter.Write; a write error is only logged.
WriteReport ==
  /\ main = "closed"
  /\ main' = "written"
  /\ \/ Reporting /\ config.path /\ file' = results
     \/ UNCHANGED file
  /\ UNCHANGED <<config, srvErr, control, handlers, results, summary, code>>

PrintSummary ==
  /\ main = "written"
  /\ main' = "counted"
  /\ summary' = IF Reporting THEN results ELSE summary
  /\ UNCHANGED <<config, srvErr, control, handlers, results, file, code>>

\* Mutant: the exit code is decided from the report that was written.
DecideFromFile ==
  /\ main = "counted"
  /\ main' = "exiting"
  /\ code' = IF (config.ci /\ file # Unwritten /\ HasBlocked(file)) \/ srvErr THEN "1" ELSE "0"
  /\ UNCHANGED <<config, srvErr, control, handlers, results, file, summary>>

\* Mutant: the exit code is decided from the summary that was printed.
DecideFromSummary ==
  /\ main = "counted"
  /\ main' = "exiting"
  /\ code' = IF (config.ci /\ Reporting /\ HasBlocked(summary)) \/ srvErr THEN "1" ELSE "0"
  /\ UNCHANGED <<config, srvErr, control, handlers, results, file, summary>>

\* HasBlocked decides between os.Exit(1) and the server's own error.
DecideExit ==
  /\ main = "counted"
  /\ main' = "exiting"
  /\ code' = IF (config.ci /\ Reporting /\ HasBlocked(results)) \/ srvErr THEN "1" ELSE "0"
  /\ UNCHANGED <<config, srvErr, control, handlers, results, file, summary>>

End ==
  /\ main = "exiting"
  /\ main' = "ended"
  /\ UNCHANGED <<config, srvErr, control, handlers, outputs>>

Main ==
  \/ SetUp \/ Listen \/ ServerClosed
  \/ WriteReport \/ PrintSummary \/ DecideExit \/ End

----------------------------------------------------------------------------
\* SIGINT or SIGTERM once signal.Notify was called; later ones are dropped.
Signal ==
  /\ main \notin {"setup", "ended"}
  /\ signal = "none"
  /\ signal' = "pending"
  /\ UNCHANGED <<config, main, srvErr, cancelled, closed, handlers, outputs>>

\* SIGKILL, a crash, or a signal before signal.Notify.
Killed ==
  /\ Running
  /\ main' = "ended"
  /\ code' = "killed"
  /\ UNCHANGED <<config, srvErr, control, handlers, results, file, summary>>

\* The goroutine blocked on sigCh cancels the context.
SignalReceived ==
  /\ Running
  /\ signal = "pending"
  /\ signal' = "received"
  /\ cancelled' = TRUE
  /\ UNCHANGED <<config, main, srvErr, closed, handlers, outputs>>

\* The goroutine blocked on the context calls Shutdown.
ShutdownBegins ==
  /\ Running
  /\ cancelled
  /\ ~closed
  /\ closed' = TRUE
  /\ UNCHANGED <<config, main, srvErr, signal, cancelled, handlers, outputs>>

----------------------------------------------------------------------------
\* A package manager opens a tunnel through the proxy.
Connect(r) ==
  /\ main = "serving" /\ ~closed
  /\ conn[r] = "none"
  /\ conn' = [conn EXCEPT ![r] = "tunnel"]
  /\ UNCHANGED <<config, main, srvErr, control, ruling, answeredAt, outputs>>

\* A request arrives in the tunnel, open though the server may be closed by
\* now, and its handler comes to a decision.
Decide(r, d) ==
  /\ Running
  /\ conn[r] = "tunnel"
  /\ conn' = [conn EXCEPT ![r] = "decided"]
  /\ ruling' = [ruling EXCEPT ![r] = d]
  /\ UNCHANGED <<config, main, srvErr, control, answeredAt, outputs>>

\* Mutant: the decision is recorded without the package.
RecordRuling(r) ==
  /\ Running
  /\ conn[r] = "decided"
  /\ conn' = [conn EXCEPT ![r] = "recorded"]
  /\ results' = IF Reporting THEN results \cup {ruling[r]} ELSE results
  /\ UNCHANGED <<config, main, srvErr, control, ruling, answeredAt, file, summary, code>>

\* Reporter.Record, before the answer.
Record(r) ==
  /\ Running
  /\ conn[r] = "decided"
  /\ conn' = [conn EXCEPT ![r] = "recorded"]
  /\ results' = IF Reporting /\ ruling[r] # "unchecked" THEN results \cup {r} ELSE results
  /\ UNCHANGED <<config, main, srvErr, control, ruling, answeredAt, file, summary, code>>

Respond(r) ==
  /\ Running
  /\ conn[r] = "recorded"
  /\ conn' = [conn EXCEPT ![r] = "answered"]
  /\ answeredAt' = [answeredAt EXCEPT ![r] = main]
  /\ UNCHANGED <<config, main, srvErr, control, ruling, outputs>>

Handler(r) ==
  Connect(r) \/ (\E d \in Rulings : Decide(r, d)) \/ Record(r) \/ Respond(r)

ProcNext ==
  \/ Main \/ ListenFails
  \/ Signal \/ Killed
  \/ SignalReceived \/ ShutdownBegins
  \/ \E r \in Requests : Handler(r)

\* Main and the two goroutines run whenever they can.  Nothing is assumed of
\* the handlers, which a package manager or the API may leave waiting, nor of
\* the network: an accept need never fail, so a process that serves goes on
\* until a signal has come all the way to Shutdown.
ProcFairness ==
  /\ WF_procVars(Main)
  /\ WF_procVars(SignalReceived)
  /\ WF_procVars(ShutdownBegins)

ProcSpec == ProcInit /\ [][ProcNext]_procVars /\ ProcFairness

----------------------------------------------------------------------------
\* The outputs never contradict each other in the dangerous direction: what
\* the file lists the summary counts, and in CI mode the exit code is not 0
\* when either of them shows a blocked package, although all three are taken
\* at different moments while handlers go on recording.
OutputsAgree ==
  /\ file # Unwritten /\ summary # Unwritten => file \subseteq summary
  /\ config.ci /\ code = "0" =>
       /\ file # Unwritten => ~HasBlocked(file)
       /\ summary # Unwritten => ~HasBlocked(summary)

\* In CI mode a package that was blocked before the exit code was decided
\* fails the build, even one answered after the report was written.
BlockFailsBuild ==
  config.ci /\ ~config.system /\ code = "0" =>
    \A r \in Requests :
      answeredAt[r] \in {"serving", "closed", "written", "counted"} => ruling[r] # "block"

\* The report lists every decision answered before the server was closed; the
\* only installs it misses are those let through unchecked.
ReportComplete ==
  file # Unwritten =>
    \A r \in Requests :
      answeredAt[r] = "serving" /\ ruling[r] # "unchecked" => r \in file

\* A signal ends the process, whatever its handlers and connections do: it
\* passes through sigCh, the context and Shutdown, and none of them waits for
\* a hijacked connection.
SignalEnds == signal = "pending" ~> main = "ended"

\* root.go: "CI mode: non-interactive, exit code 1 if any package blocked": a
\* CI-mode proxy that ends with code 0 has answered no package manager with a
\* block.
CIExitCode ==
  main = "ended" /\ code = "0" /\ config.ci /\ ~config.system =>
    \A r \in Requests : conn[r] = "answered" => ruling[r] # "block"
============================================================================
