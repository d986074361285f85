------------------------- MODULE ProxyProcessProofs ------------------------
(***************************************************************************)
(* The report, the summary and the exit code of a process, for any number  *)
(* of requests and every configuration.                                    *)
(***************************************************************************)
EXTENDS ProxyProcess, TLAPS

(* Why the outputs agree although they are taken at three moments: the     *)
(* records only grow, a recorded ruling never changes, and each output is  *)
(* taken once, in this order.                                              *)

\* What main has done, and when the outputs were taken.
MainOrder ==
  /\ file # Unwritten => Reporting /\ main \in {"written", "counted", "exiting", "ended"}
  /\ summary # Unwritten => Reporting /\ main \in {"counted", "exiting", "ended"}
  /\ code # "undecided" => main \in {"exiting", "ended"}

\* The records are of requests that came past Record, all of them that had a
\* ruling to record.
RecordsComplete ==
  /\ \A r \in results : conn[r] \in {"recorded", "answered"}
  /\ \A r \in Requests :
       Reporting /\ conn[r] \in {"recorded", "answered"} /\ ruling[r] # "unchecked"
         => r \in results
  /\ \A r \in Requests : answeredAt[r] # Nothing => conn[r] = "answered"

OutputsRecorded ==
  /\ file # Unwritten => file \subseteq results
  /\ summary # Unwritten => summary \subseteq results

ProcInv == /\ ProcTypeOK /\ MainOrder /\ RecordsComplete /\ OutputsRecorded
           /\ OutputsAgree /\ BlockFailsBuild /\ ReportComplete

LEMMA ProcInitInv == ProcInit => ProcInv
<1> SUFFICES ASSUME ProcInit PROVE ProcInv
  OBVIOUS
<1> USE DEF ProcInit
<1>1. ProcTypeOK
  BY DEF ProcTypeOK, MainAt, Nothing, Rulings
<1>2. MainOrder /\ OutputsRecorded /\ ReportComplete
  BY DEF MainOrder, OutputsRecorded, ReportComplete
<1>3. RecordsComplete
  BY DEF RecordsComplete, Nothing
<1>4. OutputsAgree /\ BlockFailsBuild
  BY DEF OutputsAgree, BlockFailsBuild
<1> QED
  BY <1>1, <1>2, <1>3, <1>4 DEF ProcInv

LEMMA ProcTypeStep == ProcTypeOK /\ [ProcNext]_procVars => ProcTypeOK'
<1> SUFFICES ASSUME ProcTypeOK, [ProcNext]_procVars PROVE ProcTypeOK'
  OBVIOUS
<1> USE DEF ProcTypeOK, MainAt, Rulings, Nothing, outputs, handlers, control
<1>1. CASE Main
  <2>1. CASE SetUp
    BY <2>1 DEF SetUp
  <2>2. CASE Listen
    BY <2>2 DEF Listen
  <2>4. CASE ServerClosed
    BY <2>4 DEF ServerClosed
  <2>5. CASE WriteReport
    BY <2>5 DEF WriteReport
  <2>6. CASE PrintSummary
    BY <2>6 DEF PrintSummary
  <2>7. CASE DecideExit
    BY <2>7 DEF DecideExit
  <2>8. CASE End
    BY <2>8 DEF End
  <2> QED
    BY <1>1, <2>1, <2>2, <2>4, <2>5, <2>6, <2>7, <2>8 DEF Main
<1>2. CASE Signal \/ Killed \/ SignalReceived \/ ShutdownBegins \/ ListenFails
  <2>1. CASE Signal
    BY <2>1 DEF Signal
  <2>2. CASE SignalReceived
    BY <2>2 DEF SignalReceived
  <2>3. CASE ShutdownBegins
    BY <2>3 DEF ShutdownBegins
  <2>4. CASE Killed
    BY <2>4 DEF Killed
  <2>5. CASE ListenFails
    BY <2>5 DEF ListenFails
  <2> QED
    BY <1>2, <2>1, <2>2, <2>3, <2>4, <2>5
<1>3. ASSUME NEW r \in Requests, Handler(r) PROVE ProcTypeOK'
  <2>1. CASE Connect(r) \/ Respond(r)
    BY <2>1 DEF Connect, Respond
  <2>2. CASE \E d \in Rulings : Decide(r, d)
    BY <2>2 DEF Decide
  <2>3. CASE Record(r)
    BY <2>3 DEF Record
  <2> QED
    BY <1>3, <2>1, <2>2, <2>3 DEF Handler
<1>4. CASE UNCHANGED procVars
  BY <1>4 DEF procVars
<1> QED
  BY <1>1, <1>2, <1>3, <1>4 DEF ProcNext

LEMMA ProcInvStep == ProcInv /\ [ProcNext]_procVars => ProcInv'
<1> SUFFICES ASSUME ProcInv, [ProcNext]_procVars PROVE ProcInv'
  OBVIOUS
<1>0. ProcTypeOK /\ ProcTypeOK'
  BY ProcTypeStep DEF ProcInv
<1> USE <1>0, ProcessAssumption
        DEF ProcInv, ProcTypeOK, MainOrder, RecordsComplete, OutputsRecorded, OutputsAgree,
            BlockFailsBuild, ReportComplete, HasBlocked, Reporting, Running, MainAt, Rulings,
            Nothing, ConfigType, outputs, handlers, control
<1>1. CASE SetUp
  BY <1>1 DEF SetUp
<1>2. CASE Listen \/ ListenFails \/ ServerClosed
  BY <1>2 DEF Listen, ListenFails, ServerClosed
<1>3. CASE WriteReport
  BY <1>3 DEF WriteReport
<1>4. CASE PrintSummary
  BY <1>4 DEF PrintSummary
<1>5. CASE DecideExit
  BY <1>5 DEF DecideExit
<1>6. CASE End \/ Killed
  BY <1>6 DEF End, Killed
<1>7. CASE Signal \/ SignalReceived \/ ShutdownBegins
  BY <1>7 DEF Signal, SignalReceived, ShutdownBegins
<1>8. ASSUME NEW r \in Requests, Connect(r) PROVE ProcInv'
  BY <1>8 DEF Connect
<1>9. ASSUME NEW r \in Requests, NEW d \in Rulings, Decide(r, d) PROVE ProcInv'
  BY <1>9 DEF Decide
<1>10. ASSUME NEW r \in Requests, Record(r) PROVE ProcInv'
  BY <1>10 DEF Record
<1>11. ASSUME NEW r \in Requests, Respond(r) PROVE ProcInv'
  BY <1>11 DEF Respond
<1>12. CASE UNCHANGED procVars
  BY <1>12 DEF procVars
<1> HIDE DEF ProcInv
<1> QED
  BY <1>1, <1>2, <1>3, <1>4, <1>5, <1>6, <1>7, <1>8, <1>9, <1>10, <1>11, <1>12
  DEF ProcNext, Main, Handler

\* The process's state is of its type, and its outputs are taken in order.
THEOREM ProcInvariant == ProcSpec => []ProcInv
BY ProcInitInv, ProcInvStep, PTL DEF ProcSpec

\* The process's state is of its type in every interleaving of main, the signal
\* and the handlers.
THEOREM ProcTyped == ProcSpec => []ProcTypeOK
BY ProcInvariant, PTL DEF ProcInv

\* Report, summary and exit code do not contradict each other.
THEOREM OutputsConsistent == ProcSpec => []OutputsAgree
BY ProcInvariant, PTL DEF ProcInv

\* In CI mode a block answered before the exit code was decided fails the build.
THEOREM BlockedBuildFails == ProcSpec => []BlockFailsBuild
BY ProcInvariant, PTL DEF ProcInv

\* The report misses no decision that was answered while the server was open.
THEOREM ReportHasAll == ProcSpec => []ReportComplete
BY ProcInvariant, PTL DEF ProcInv
=============================================================================
