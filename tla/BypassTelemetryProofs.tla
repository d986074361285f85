----------------------- MODULE BypassTelemetryProofs -----------------------
(***************************************************************************)
(* The lines of bypass.log, for any number of installs and two daemons: a  *)
(* line is in one place at a time, and each step of a drain moves it on.   *)
(***************************************************************************)
EXTENDS BypassTelemetry, TLAPS

FileTyped(f) == f = {} \/ \E lines \in SUBSET Installs : f = {lines}

\* What an append to a file does to its lines.
LEMMA Appended ==
  ASSUME NEW f, FileTyped(f), NEW i \in Installs
  PROVE  /\ FileTyped(Append(f, i))
         /\ Append(f, i) = {} <=> f = {}
         /\ f # {} => UNION Append(f, i) = (UNION f) \cup {i}
         /\ UNION Append(f, i) \subseteq (UNION f) \cup {i}
<1>1. CASE f = {}
  <2>1. Append(f, i) = {}
    BY <1>1 DEF Append
  <2> QED
    BY <1>1, <2>1 DEF FileTyped
<1>2. CASE f # {}
  <2>1. PICK lines \in SUBSET Installs : f = {lines}
    BY <1>2 DEF FileTyped
  <2>2. Append(f, i) = {lines \cup {i}}
    BY <2>1 DEF Append
  <2>3. UNION f = lines /\ UNION Append(f, i) = lines \cup {i}
    BY <2>1, <2>2
  <2>4. FileTyped(Append(f, i))
    BY <2>2 DEF FileTyped
  <2>5. Append(f, i) # {}
    BY <2>2
  <2>6. UNION Append(f, i) = (UNION f) \cup {i}
    BY <2>3
  <2> QED
    BY <1>2, <2>4, <2>5, <2>6
<1> QED
  BY <1>1, <1>2

LEMMA Subsets == ASSUME NEW f, FileTyped(f) PROVE UNION f \subseteq Installs
BY DEF FileTyped

----------------------------------------------------------------------------
(* Types. *)

\* The types but those of the files.
OthersTyped ==
  /\ faults \in FaultSets
  /\ shim \in [Installs -> {"start", "found", "bypassing", "opened", "recorded", "over"}]
  /\ ran \in [Installs -> {"no", "authorized", "proxied", "unscanned"}]
  /\ fd \in [Installs -> {"none", "log", "draining", "removed"}]
  /\ wrote \in [Installs -> {"none", "log", "draining", "late"}]
  /\ daemon \in [Daemons -> {"down", "sending", "renamed", "read", "posting", "idle"}]
  /\ listener \in {"nobody", "other"} \cup Daemons
  /\ batch \in [Daemons -> SUBSET Installs]
  /\ mishaps \subseteq {"clash", "taken"}
  /\ received \in [Installs -> Nat]

LEMMA TypeParts == BypassTypeOK <=> OthersTyped /\ FileTyped(logFile) /\ FileTyped(drainFile)
BY DEF BypassTypeOK, OthersTyped, FileTyped

LEMMA TypePartsNext ==
  ASSUME OthersTyped', FileTyped(logFile'), FileTyped(drainFile')
  PROVE  BypassTypeOK'
BY DEF BypassTypeOK, OthersTyped, FileTyped

LEMMA TypeInit == BypassInit => BypassTypeOK
<1> SUFFICES ASSUME BypassInit PROVE OthersTyped /\ FileTyped(logFile) /\ FileTyped(drainFile)
  BY TypeParts
<1>1. FileTyped(logFile) /\ FileTyped(drainFile)
  BY DEF BypassInit, FileTyped
<1>2. OthersTyped
  BY DEF BypassInit, OthersTyped
<1> QED
  BY <1>1, <1>2

\* The steps of a shim that leave the files alone, with what they do.
ShimOnly(i) == Authorized(i) \/ FindReal(i) \/ Verified(i) \/ CannotRecord(i)
                 \/ RunUnscanned(i) \/ \E mode \in {"open", "closed"} : Unverified(i, mode)

LEMMA TypeStep == BypassTypeOK /\ [BypassNext]_bypassVars => BypassTypeOK'
<1> SUFFICES ASSUME BypassTypeOK, [BypassNext]_bypassVars PROVE BypassTypeOK'
  OBVIOUS
<1>0. OthersTyped /\ FileTyped(logFile) /\ FileTyped(drainFile)
  BY TypeParts
<1>1. FileTyped(logFile') /\ FileTyped(drainFile')
  <2>1. ASSUME NEW i \in Installs, Shim(i) PROVE FileTyped(logFile') /\ FileTyped(drainFile')
    <3>1. CASE ShimOnly(i)
      <4>1. UNCHANGED files
        BY <3>1 DEF ShimOnly, Authorized, FindReal, Verified, CannotRecord, RunUnscanned,
                    Unverified
      <4> QED
        BY <1>0, <4>1 DEF files
    <3>2. CASE OpenLog(i)
      <4>1. logFile' = {{}} \/ logFile' = logFile
        BY <3>2 DEF OpenLog
      <4>2. drainFile' = drainFile
        BY <3>2 DEF OpenLog
      <4>3. FileTyped({{}})
        BY DEF FileTyped
      <4> QED
        BY <1>0, <4>1, <4>2, <4>3
    <3>3. CASE WriteLine(i)
      <4>1. /\ logFile' = logFile \/ logFile' = Append(logFile, i)
            /\ drainFile' = drainFile \/ drainFile' = Append(drainFile, i)
        BY <3>3 DEF WriteLine
      <4> QED
        BY <1>0, <4>1, Appended
    <3> QED
      BY <2>1, <3>1, <3>2, <3>3 DEF Shim, ShimOnly
  <2>2. ASSUME NEW d \in Daemons, StartDaemon(d) \/ Listen(d) \/ DaemonDies(d) \/ Heartbeat(d)
        PROVE  FileTyped(logFile') /\ FileTyped(drainFile')
    <3>1. \/ UNCHANGED <<logFile, drainFile>>
          \/ drainFile' = logFile /\ logFile' = {}
          \/ drainFile' = {} /\ logFile' = logFile
      BY <2>2 DEF StartDaemon, Listen, DaemonDies, Heartbeat, RenameLog, NothingToDrain,
                  ReadDrained, RemoveDrained, PostArrives, PostFails, Beat, files
    <3>2. FileTyped({})
      BY DEF FileTyped
    <3> QED
      BY <1>0, <3>1, <3>2
  <2>3. CASE UNCHANGED bypassVars
    BY <1>0, <2>3 DEF bypassVars, files
  <2> QED
    BY <2>1, <2>2, <2>3 DEF BypassNext
<1>2. OthersTyped'
  <2> USE <1>0 DEF OthersTyped
  <2>1. ASSUME NEW i \in Installs, Shim(i) PROVE OthersTyped'
    <3>1. CASE Authorized(i)
      BY <3>1 DEF Authorized, At, Runs
    <3>2. CASE FindReal(i)
      BY <3>2 DEF FindReal, At
    <3>3. CASE Verified(i)
      BY <3>3 DEF Verified, At, Runs
    <3>4. ASSUME NEW mode \in {"open", "closed"}, Unverified(i, mode) PROVE OthersTyped'
      BY <3>4 DEF Unverified, At
    <3>5. CASE OpenLog(i)
      BY <3>5 DEF OpenLog, At
    <3>6. CASE WriteLine(i)
      <4> DEFINE into == IF Late(i) THEN "late" ELSE fd[i]
      <4>1. into \in {"none", "log", "draining", "late"}
        BY DEF Late
      <4>2. /\ shim' = [shim EXCEPT ![i] = "recorded"]
            /\ wrote' = [wrote EXCEPT ![i] = into]
            /\ fd' = [fd EXCEPT ![i] = "none"]
            /\ UNCHANGED <<faults, ran, daemon, listener, batch, mishaps, received>>
        BY <3>6 DEF WriteLine, At
      <4> HIDE DEF into
      <4> QED
        BY <4>1, <4>2
    <3>7. CASE CannotRecord(i)
      BY <3>7 DEF CannotRecord, At
    <3>8. CASE RunUnscanned(i)
      BY <3>8 DEF RunUnscanned, At, Runs
    <3> QED
      BY <2>1, <3>1, <3>2, <3>3, <3>4, <3>5, <3>6, <3>7, <3>8 DEF Shim
  <2>2. ASSUME NEW d \in Daemons, StartDaemon(d) PROVE OthersTyped'
    BY <2>2 DEF StartDaemon, DaemonAt, shims
  <2>3. ASSUME NEW d \in Daemons, Listen(d) PROVE OthersTyped'
    <3>1. CASE listener = "nobody"
      BY <2>3, <3>1 DEF Listen, shims
    <3>2. CASE listener # "nobody"
      <4>1. mishaps' \subseteq {"clash", "taken"} /\ UNCHANGED <<faults, shims, listener, received>>
        BY <2>3, <3>2 DEF Listen
      <4>2. /\ daemon' = [daemon EXCEPT ![d] = "down"]
            /\ batch' = [batch EXCEPT ![d] = {}]
        BY <2>3, <3>2 DEF Listen, Counts
      <4> QED
        BY <4>1, <4>2 DEF shims
    <3> QED
      BY <3>1, <3>2
  <2>4. ASSUME NEW d \in Daemons, DaemonDies(d) PROVE OthersTyped'
    BY <2>4 DEF DaemonDies, Counts, shims
  <2>5. ASSUME NEW d \in Daemons, RenameLog(d) PROVE OthersTyped'
    BY <2>5 DEF RenameLog, DaemonAt, Moved
  <2>6. ASSUME NEW d \in Daemons, RemoveDrained(d) PROVE OthersTyped'
    BY <2>6 DEF RemoveDrained, DaemonAt, Moved
  <2>7. ASSUME NEW d \in Daemons, ReadDrained(d) PROVE OthersTyped'
    <3>1. UNION drainFile \in SUBSET Installs
      BY Subsets
    <3> QED
      BY <2>7, <3>1 DEF ReadDrained, DaemonAt, Counts, shims
  <2>8. ASSUME NEW d \in Daemons, NothingToDrain(d) \/ PostFails(d) \/ Beat(d) PROVE OthersTyped'
    <3>1. CASE NothingToDrain(d)
      BY <3>1 DEF NothingToDrain, DaemonAt, Counts, shims
    <3>2. CASE PostFails(d)
      BY <3>2 DEF PostFails, DaemonAt, Counts, shims
    <3>3. CASE Beat(d)
      BY <3>3 DEF Beat, DaemonAt, shims
    <3> QED
      BY <2>8, <3>1, <3>2, <3>3
  <2>9. ASSUME NEW d \in Daemons, PostArrives(d) PROVE OthersTyped'
    BY <2>9 DEF PostArrives, DaemonAt, Counts, Told, shims
  <2>10. CASE UNCHANGED bypassVars
    BY <2>10 DEF bypassVars, shims
  <2> QED
    BY <2>1, <2>2, <2>3, <2>4, <2>5, <2>6, <2>7, <2>8, <2>9, <2>10 DEF BypassNext, Heartbeat
<1> QED
  BY <1>1, <1>2, TypePartsNext

\* The telemetry's state is of its type.
THEOREM BypassTyped == BypassSpec => []BypassTypeOK
BY TypeInit, TypeStep, PTL DEF BypassSpec

----------------------------------------------------------------------------
(* Where the shims are. *)

ShimsInOrder ==
  \A i \in Installs :
    /\ shim[i] \in {"start", "found", "bypassing", "opened"} => wrote[i] = "none"
    /\ shim[i] = "opened" => fd[i] # "none"
    /\ fd[i] = "log" => logFile # {}
    /\ fd[i] = "draining" => drainFile # {}
    /\ "io" \notin faults /\ (shim[i] = "recorded" \/ ran[i] = "unscanned")
         => wrote[i] # "none"

LEMMA ShimsInit == BypassInit => ShimsInOrder
BY DEF BypassInit, ShimsInOrder

LEMMA ShimsStep ==
  BypassTypeOK /\ ShimsInOrder /\ [BypassNext]_bypassVars => ShimsInOrder'
<1> SUFFICES ASSUME BypassTypeOK, ShimsInOrder, [BypassNext]_bypassVars PROVE ShimsInOrder'
  OBVIOUS
<1>0. OthersTyped /\ FileTyped(logFile) /\ FileTyped(drainFile)
  BY TypeParts
<1> USE <1>0 DEF OthersTyped, ShimsInOrder
<1>1. ASSUME NEW i \in Installs, Authorized(i) \/ Verified(i) PROVE ShimsInOrder'
  BY <1>1 DEF Authorized, Verified, At, Runs, files
<1>2. ASSUME NEW i \in Installs, FindReal(i) PROVE ShimsInOrder'
  BY <1>2 DEF FindReal, At, files
<1>3. ASSUME NEW i \in Installs, NEW mode \in {"open", "closed"}, Unverified(i, mode)
      PROVE  ShimsInOrder'
  BY <1>3 DEF Unverified, At, files
<1>4. ASSUME NEW i \in Installs, OpenLog(i) PROVE ShimsInOrder'
  <2>1. logFile' # {}
    BY <1>4 DEF OpenLog
  <2> QED
    BY <1>4, <2>1 DEF OpenLog, At
<1>5. ASSUME NEW i \in Installs, WriteLine(i) PROVE ShimsInOrder'
  <2>1. logFile' = {} <=> logFile = {}
    BY <1>5, Appended DEF WriteLine
  <2>2. shim[i] = "opened" /\ shim' = [shim EXCEPT ![i] = "recorded"]
        /\ wrote' = [wrote EXCEPT ![i] = IF Late(i) THEN "late" ELSE fd[i]]
        /\ fd' = [fd EXCEPT ![i] = "none"] /\ ran' = ran /\ faults' = faults
        /\ (drainFile' = {} <=> drainFile = {})
    BY <1>5, Appended DEF WriteLine, At
  <2> QED
    BY <2>1, <2>2
<1>6. ASSUME NEW i \in Installs, CannotRecord(i) \/ RunUnscanned(i) PROVE ShimsInOrder'
  BY <1>6 DEF CannotRecord, RunUnscanned, At, Runs, files
<1>7. ASSUME NEW d \in Daemons, RenameLog(d) PROVE ShimsInOrder'
  <2>1. /\ drainFile' # {}
        /\ \A i \in Installs : fd'[i] # "log" /\ (fd[i] # "none" => fd'[i] # "none")
    BY <1>7 DEF RenameLog, Moved
  <2> QED
    BY <1>7, <2>1 DEF RenameLog
<1>8. ASSUME NEW d \in Daemons, RemoveDrained(d) PROVE ShimsInOrder'
  <2>1. \A i \in Installs : /\ fd'[i] # "draining" /\ (fd'[i] = "log" => fd[i] = "log")
                            /\ (fd[i] # "none" => fd'[i] # "none")
    BY <1>8 DEF RemoveDrained, Moved
  <2> QED
    BY <1>8, <2>1 DEF RemoveDrained
<1>9. ASSUME NEW d \in Daemons,
             \/ StartDaemon(d) \/ Listen(d) \/ DaemonDies(d) \/ NothingToDrain(d)
             \/ ReadDrained(d) \/ PostArrives(d) \/ PostFails(d) \/ Beat(d)
      PROVE  ShimsInOrder'
  <2>1. UNCHANGED <<faults, shims, files>>
    BY <1>9 DEF StartDaemon, Listen, DaemonDies, NothingToDrain, ReadDrained, PostArrives,
                PostFails, Beat
  <2> QED
    BY <2>1 DEF shims, files
<1>10. CASE UNCHANGED bypassVars
  BY <1>10 DEF bypassVars, shims, files
<1> QED
  BY <1>1, <1>2, <1>3, <1>4, <1>5, <1>6, <1>7, <1>8, <1>9, <1>10
  DEF BypassNext, Shim, Heartbeat

\* Nothing runs unscanned before its line was written.
THEOREM RecordedFirst == BypassSpec => []RecordedBeforeRun
<1>1. ShimsInOrder => RecordedBeforeRun
  BY DEF ShimsInOrder, RecordedBeforeRun
<1> QED
  BY <1>1, TypeInit, TypeStep, ShimsInit, ShimsStep, PTL DEF BypassSpec

----------------------------------------------------------------------------
(* Where a line is. *)

LogLines == UNION logFile
DrainLines == UNION drainFile
Draining(d) == daemon[d] \in {"renamed", "read"}

\* What has not been written is nowhere; only a drain or a post holds a batch.
Fresh ==
  /\ \A i \in Installs : wrote[i] = "none" =>
       /\ i \notin LogLines /\ i \notin DrainLines /\ received[i] = 0
       /\ \A d \in Daemons : i \notin batch[d]
  /\ \A d \in Daemons : batch[d] # {} => daemon[d] \in {"read", "posting"}

\* Until two drains clash, a line that can still be counted has not been, and
\* is in one place: in the log, in the file of the one drain, or in one batch.
OnePlace ==
  "clash" \notin mishaps =>
    /\ \A d, e \in Daemons : Draining(d) /\ Draining(e) => d = e
    /\ \A i \in Installs : received[i] <= 1
    /\ \A i \in LogLines :
         i \notin DrainLines /\ received[i] = 0 /\ \A d \in Daemons : i \notin batch[d]
    /\ \A i \in DrainLines, d \in Daemons :
         daemon[d] = "renamed" => received[i] = 0 /\ \A e \in Daemons : i \notin batch[e]
    /\ \A d, e \in Daemons, i \in Installs :
         i \in batch[d] => received[i] = 0 /\ (i \in batch[e] => d = e)

\* Without faults a .draining file belongs to a drain, and no line is dropped.
NoneDropped ==
  faults = {} /\ mishaps = {} =>
    /\ drainFile # {} => \E d \in Daemons : Draining(d)
    /\ \A i \in Installs : wrote[i] \in {"log", "draining"} =>
         \/ i \in LogLines
         \/ i \in DrainLines /\ \A d \in Daemons : daemon[d] # "read"
         \/ \E d \in Daemons : i \in batch[d]
         \/ received[i] = 1

LinesInv == Fresh /\ OnePlace /\ NoneDropped

LEMMA LinesInit == BypassInit => LinesInv
<1> SUFFICES ASSUME BypassInit PROVE LinesInv
  OBVIOUS
<1>1. LogLines = {} /\ DrainLines = {}
  BY DEF BypassInit, LogLines, DrainLines
<1> QED
  BY <1>1 DEF BypassInit, LinesInv, Fresh, OnePlace, NoneDropped, Draining

\* The steps of the shims.
LEMMA LinesShim ==
  ASSUME BypassTypeOK, ShimsInOrder, LinesInv, NEW i \in Installs, Shim(i)
  PROVE  LinesInv'
<1>0. OthersTyped /\ FileTyped(logFile) /\ FileTyped(drainFile)
  BY TypeParts
<1> USE DEF LinesInv, Fresh, OnePlace, NoneDropped, Draining
<1>1. CASE ShimOnly(i)
  <2>1. UNCHANGED <<faults, wrote, files, daemon, batch, mishaps, received>>
    BY <1>1 DEF ShimOnly, Authorized, FindReal, Verified, CannotRecord, RunUnscanned, Unverified
  <2>2. LogLines' = LogLines /\ DrainLines' = DrainLines
    BY <2>1 DEF files, LogLines, DrainLines
  <2> QED
    BY <2>1, <2>2 DEF files
<1>2. CASE OpenLog(i)
  <2>1. UNCHANGED <<faults, wrote, drainFile, daemon, batch, mishaps, received>>
    BY <1>2 DEF OpenLog
  <2>2. LogLines' = LogLines /\ DrainLines' = DrainLines
    BY <1>2 DEF OpenLog, LogLines, DrainLines
  <2> QED
    BY <2>1, <2>2
<1>3. CASE WriteLine(i)
  <2>1. UNCHANGED <<faults, daemon, batch, mishaps, received>>
    BY <1>3 DEF WriteLine
  <2>2. /\ wrote[i] = "none" /\ fd[i] # "none"
        /\ wrote' = [wrote EXCEPT ![i] = IF Late(i) THEN "late" ELSE fd[i]]
        /\ (fd[i] = "log" => logFile # {}) /\ (fd[i] = "draining" => drainFile # {})
    BY <1>3 DEF WriteLine, At, ShimsInOrder
  <2>3. LogLines' = IF fd[i] = "log" THEN LogLines \cup {i} ELSE LogLines
    <3>1. CASE fd[i] = "log"
      <4>1. logFile' = Append(logFile, i) /\ logFile # {}
        BY <1>3, <2>2, <3>1 DEF WriteLine
      <4> QED
        BY <1>0, <3>1, <4>1, Appended DEF LogLines
    <3>2. CASE fd[i] # "log"
      BY <1>3, <3>2 DEF WriteLine, LogLines
    <3> QED
      BY <3>1, <3>2
  <2>4. \/ DrainLines' = DrainLines
        \/ fd[i] = "draining" /\ DrainLines' \subseteq DrainLines \cup {i}
    BY <1>0, <1>3, Appended DEF WriteLine, DrainLines
  <2>5. DrainLines \subseteq DrainLines'
    <3>1. CASE drainFile = {}
      BY <3>1 DEF DrainLines
    <3>2. CASE drainFile # {}
      BY <1>0, <1>3, <3>2, Appended DEF WriteLine, DrainLines
    <3> QED
      BY <3>1, <3>2
  <2>6. drainFile' # {} => drainFile # {}
    BY <1>0, <1>3, Appended DEF WriteLine
  <2>10. fd[i] = "draining" => i \in DrainLines'
    BY <1>0, <1>3, <2>2, Appended DEF WriteLine, DrainLines
  <2>11. wrote'[i] = "draining" => fd[i] = "draining" /\ \A d \in Daemons : daemon[d] # "read"
    BY <1>0, <2>2 DEF Late, OthersTyped
  <2>12. wrote'[i] = "log" => fd[i] = "log"
    BY <1>0, <2>2 DEF OthersTyped
  <2> USE <1>0 DEF OthersTyped
  <2>7. Fresh'
    BY <2>1, <2>2, <2>3, <2>4
  <2>8. OnePlace'
    BY <2>1, <2>2, <2>3, <2>4
  <2>9. NoneDropped'
    BY <2>1, <2>2, <2>3, <2>5, <2>6, <2>10, <2>11, <2>12
  <2> QED
    BY <2>7, <2>8, <2>9
<1> QED
  BY <1>1, <1>2, <1>3 DEF Shim, ShimOnly

\* The steps of a daemon.
LEMMA LinesDaemon ==
  ASSUME BypassTypeOK, LinesInv, NEW d \in Daemons,
         StartDaemon(d) \/ Listen(d) \/ DaemonDies(d) \/ Heartbeat(d)
  PROVE  LinesInv'
<1>0. OthersTyped /\ FileTyped(logFile) /\ FileTyped(drainFile)
  BY TypeParts
<1>00. LogLines \subseteq Installs /\ DrainLines \subseteq Installs
  BY <1>0, Subsets DEF LogLines, DrainLines
<1> USE <1>0, <1>00 DEF OthersTyped, LinesInv, Fresh, OnePlace, NoneDropped, Draining
<1>1. CASE RenameLog(d)
  <2>1. /\ daemon[d] = "sending" /\ daemon' = [daemon EXCEPT ![d] = "renamed"]
        /\ UNCHANGED <<faults, wrote, batch, received>>
        /\ LogLines' = {} /\ DrainLines' = LogLines
    BY <1>1 DEF RenameLog, DaemonAt, LogLines, DrainLines
  <2>2. /\ mishaps \subseteq mishaps'
        /\ "clash" \notin mishaps' => \A e \in Daemons \ {d} : ~Draining(e)
    BY <1>1 DEF RenameLog
  <2>3. faults = {} /\ mishaps' = {} => mishaps = {} /\ drainFile = {} /\ DrainLines = {}
    BY <2>1, <2>2 DEF DrainLines
  <2>4. Fresh'
    BY <2>1
  <2>5. OnePlace'
    BY <2>1, <2>2
  <2>6. NoneDropped'
    BY <2>1, <2>2, <2>3
  <2> QED
    BY <2>4, <2>5, <2>6
<1>2. CASE ReadDrained(d)
  <2>1. /\ daemon[d] = "renamed" /\ daemon' = [daemon EXCEPT ![d] = "read"]
        /\ UNCHANGED <<faults, wrote, files, mishaps, received>>
        /\ LogLines' = LogLines /\ DrainLines' = DrainLines
    BY <1>2 DEF ReadDrained, DaemonAt, shims, files, LogLines, DrainLines
  <2>2. PICK lines \in SUBSET Installs : batch' = [batch EXCEPT ![d] = lines]
                                         /\ lines \subseteq DrainLines
                                         /\ (faults = {} => lines = DrainLines)
    BY <1>2 DEF ReadDrained, Counts, DrainLines
  <2>4. Fresh'
    BY <2>1, <2>2
  <2>5. OnePlace'
    BY <2>1, <2>2
  <2>6. NoneDropped'
    BY <2>1, <2>2 DEF files
  <2> QED
    BY <2>4, <2>5, <2>6
<1>3. CASE RemoveDrained(d)
  <2>1. /\ daemon[d] = "read" /\ daemon' = [daemon EXCEPT ![d] = "posting"]
        /\ UNCHANGED <<faults, wrote, batch, mishaps, received>>
        /\ drainFile' = {} /\ LogLines' = LogLines /\ DrainLines' = {}
    BY <1>3 DEF RemoveDrained, DaemonAt, LogLines, DrainLines
  <2>4. Fresh'
    BY <2>1
  <2>5. OnePlace'
    BY <2>1
  <2>6. NoneDropped'
    BY <2>1
  <2> QED
    BY <2>4, <2>5, <2>6
<1>4. CASE PostArrives(d)
  <2>1. /\ daemon[d] = "posting" /\ daemon' = [daemon EXCEPT ![d] = "idle"]
        /\ UNCHANGED <<faults, wrote, files, mishaps>>
        /\ LogLines' = LogLines /\ DrainLines' = DrainLines
        /\ batch' = [batch EXCEPT ![d] = {}]
    BY <1>4 DEF PostArrives, DaemonAt, Counts, shims, files, LogLines, DrainLines
  <2>2. \A i \in Installs : received'[i] = IF i \in batch[d] THEN received[i] + 1 ELSE received[i]
    BY <1>4 DEF PostArrives, Told
  <2>4. Fresh'
    BY <2>1, <2>2
  <2>5. OnePlace'
    BY <2>1, <2>2
  <2>6. NoneDropped'
    BY <2>1, <2>2 DEF files
  <2> QED
    BY <2>4, <2>5, <2>6
<1>5. CASE StartDaemon(d) \/ NothingToDrain(d) \/ PostFails(d) \/ Beat(d)
  <2>1. /\ UNCHANGED <<faults, wrote, files, mishaps, received>>
        /\ LogLines' = LogLines /\ DrainLines' = DrainLines
    BY <1>5 DEF StartDaemon, NothingToDrain, PostFails, Beat, shims, files, LogLines, DrainLines
  <2>2. /\ ~Draining(d)
        /\ \/ daemon' = [daemon EXCEPT ![d] = "sending"]
           \/ daemon' = [daemon EXCEPT ![d] = "posting"]
           \/ daemon' = [daemon EXCEPT ![d] = "idle"]
    BY <1>5 DEF StartDaemon, NothingToDrain, PostFails, Beat, DaemonAt
  <2>3. /\ batch' = [batch EXCEPT ![d] = {}] \/ (batch' = batch /\ batch[d] = {})
        /\ faults = {} => batch[d] = {}
    <3>1. CASE StartDaemon(d) \/ Beat(d)
      BY <3>1 DEF StartDaemon, Beat, DaemonAt
    <3>2. CASE NothingToDrain(d)
      <4>1. daemon[d] = "sending" /\ batch' = [batch EXCEPT ![d] = {}]
        BY <3>2 DEF NothingToDrain, DaemonAt, Counts
      <4> QED
        BY <4>1
    <3>3. CASE PostFails(d)
      <4>1. "post" \in faults /\ batch' = [batch EXCEPT ![d] = {}]
        BY <3>3 DEF PostFails, Counts
      <4>2. faults # {}
        BY <4>1
      <4> QED
        BY <4>1, <4>2, Zenon
    <3> QED
      BY <1>5, <3>1, <3>2, <3>3
  <2>4. Fresh'
    BY <2>1, <2>2, <2>3
  <2>5. OnePlace'
    BY <2>1, <2>2, <2>3
  <2>6. NoneDropped'
    BY <2>1, <2>2, <2>3 DEF files
  <2> QED
    BY <2>4, <2>5, <2>6
<1>6. CASE DaemonDies(d) \/ Listen(d)
  <2>1. /\ UNCHANGED <<faults, wrote, files, received>>
        /\ LogLines' = LogLines /\ DrainLines' = DrainLines
        /\ mishaps \subseteq mishaps' /\ ("clash" \in mishaps' => "clash" \in mishaps)
    BY <1>6 DEF DaemonDies, Listen, shims, files, LogLines, DrainLines
  <2>2. \/ UNCHANGED <<daemon, batch>>
        \/ /\ daemon' = [daemon EXCEPT ![d] = "down"] /\ batch' = [batch EXCEPT ![d] = {}]
           /\ faults = {} /\ mishaps' = {} => ~Draining(d) /\ batch[d] = {}
    BY <1>6 DEF DaemonDies, Listen, Counts
  <2>4. Fresh'
    BY <2>1, <2>2
  <2>5. OnePlace'
    BY <2>1, <2>2
  <2>6. NoneDropped'
    BY <2>1, <2>2 DEF files
  <2> QED
    BY <2>4, <2>5, <2>6
<1> QED
  BY <1>1, <1>2, <1>3, <1>4, <1>5, <1>6 DEF Heartbeat

LEMMA LinesStep ==
  BypassTypeOK /\ ShimsInOrder /\ LinesInv /\ [BypassNext]_bypassVars => LinesInv'
<1> SUFFICES ASSUME BypassTypeOK, ShimsInOrder, LinesInv, [BypassNext]_bypassVars
             PROVE  LinesInv'
  OBVIOUS
<1>1. CASE UNCHANGED bypassVars
  BY <1>1 DEF bypassVars, shims, files, LinesInv, Fresh, OnePlace, NoneDropped, Draining,
              LogLines, DrainLines
<1> QED
  BY <1>1, LinesShim, LinesDaemon DEF BypassNext

LEMMA LinesAlways == BypassSpec => []LinesInv
BY TypeInit, TypeStep, ShimsInit, ShimsStep, LinesInit, LinesStep, PTL DEF BypassSpec

\* No install is reported twice, whatever is lost, repeated or restarted, as
\* long as two drains do not clash.
THEOREM CountedOnce == BypassSpec => []NeverCountedTwice
<1>1. LinesInv => NeverCountedTwice
  BY DEF LinesInv, OnePlace, NeverCountedTwice
<1> QED
  BY <1>1, LinesAlways, PTL

\* Without faults every line written before its file was read is on its way or
\* counted.
THEOREM LinesKept == BypassSpec => []LinesAccounted
<1>1. LinesInv => LinesAccounted
  BY DEF LinesInv, NoneDropped, LinesAccounted, Pending, LogLines, DrainLines
<1> QED
  BY <1>1, LinesAlways, PTL
=============================================================================
