--------------------------- MODULE FrontendsProofs -------------------------
(***************************************************************************)
(* The Rust proxy's modes, cache and report, for any connections,          *)
(* requests, configurations and cache size; what a scan's exit code says   *)
(* of the plain pins of any lockfile; and that both ask about a package as *)
(* the Go proxy does, for any registry configuration.                      *)
(***************************************************************************)
EXTENDS Frontends, TLAPS, SequenceTheorems, WellFoundedInduction

\* The functions over the connections.
TaskFunctions == DOMAIN task = Tasks /\ DOMAIN action = Tasks /\ DOMAIN input = Tasks

\* In audit mode an action refuses only if strict mode blocked it.
AuditActions ==
  rconfig.mode = "audit" =>
    \A t \in Tasks : action[t] \in {Unlisted, "audit", "allow"}
                       \/ (rconfig.strict /\ action[t] = "block")

Answered == {"recorded", "refused", "passed"}

\* A package request is in the report once its task is past Record, with the
\* action it was answered by; one that is refused is a package request.
Reported ==
  \A t \in Tasks :
    /\ Intercepted(t) /\ task[t] \in Answered => <<t, RefOfTask(t), action[t]>> \in entries
    /\ task[t] = "recorded" => <<t, RefOfTask(t), action[t]>> \in entries
    /\ task[t] = "refused" => /\ <<t, RefOfTask(t), action[t]>> \in entries
                              /\ Refused(action[t])

RustInv == TaskFunctions /\ AuditActions /\ Reported

LEMMA RustInvInit == RustInit => RustInv
BY DEF RustInit, RustInv, TaskFunctions, AuditActions, Reported, Answered

\* A step that only moves a task, to a point where nothing is in the report yet.
LEMMA RustMoves ==
  ASSUME RustInv, NEW t \in Tasks, NEW to, task' = [task EXCEPT ![t] = to],
         to \notin Answered, UNCHANGED <<rconfig, input, entries>>,
         \/ UNCHANGED action
         \/ \E a : action' = [action EXCEPT ![t] = a]
                     /\ (rconfig.mode = "audit" => \/ a \in {"audit", "allow"}
                                                   \/ rconfig.strict /\ a = "block")
  PROVE  RustInv'
BY DEF RustInv, TaskFunctions, AuditActions, Reported, Answered, Intercepted, RefOfTask,
       Refused

LEMMA RustInvStep == RustInv /\ [RustNext]_rustVars => RustInv'
<1> SUFFICES ASSUME RustInv, [RustNext]_rustVars PROVE RustInv'
  OBVIOUS
<1>1. CASE GenerateCA \/ InstallShims \/ Bind \/ CtrlC \/ UNCHANGED rustVars
  <2>1. UNCHANGED <<rconfig, task, input, action, entries>>
    BY <1>1 DEF GenerateCA, InstallShims, Bind, CtrlC, Starts, rustVars
  <2> QED
    BY <2>1 DEF RustInv, TaskFunctions, AuditActions, Reported, Intercepted, RefOfTask, Refused
<1>2. CASE RuntimeEnds
  <2>1. /\ UNCHANGED <<rconfig, input, action, entries>>
        /\ DOMAIN task' = Tasks
        /\ \A t \in Tasks : task'[t] = task[t] \/ task'[t] = "dropped"
    BY <1>2 DEF RuntimeEnds
  <2> QED
    BY <2>1 DEF RustInv, TaskFunctions, AuditActions, Reported, Intercepted, RefOfTask, Refused,
                Answered
<1>3. ASSUME NEW t \in Tasks, NEW i \in Inputs, Accept(t, i) PROVE RustInv'
  <2> DEFINE to == IF i.connect THEN "tunnelled"
                   ELSE IF Panics(i.url) THEN "dropped"
                   ELSE IF Extract(i.url) = NoRef THEN "passed"
                   ELSE "check"
  <2>1. /\ to \notin {"recorded", "refused"}
        /\ (to = "passed") => (Extract(i.url) = NoRef)
    OBVIOUS
  <2>2. task' = [task EXCEPT ![t] = to]
    BY <1>3 DEF Accept, Moves
  <2> HIDE DEF to
  <2>3. input' = [input EXCEPT ![t] = i] /\ UNCHANGED <<rconfig, action, entries>>
    BY <1>3 DEF Accept
  <2> QED
    BY <2>1, <2>2, <2>3 DEF RustInv, TaskFunctions, AuditActions, Reported, Intercepted,
                           RefOfTask, Refused, Answered
<1>4. ASSUME NEW t \in Tasks, CheckHit(t) PROVE RustInv'
  <2> DEFINE a == Override(lru[Cached(RefOfTask(t))].action)
  <2>1. rconfig.mode = "audit" => a = "audit"
    BY DEF Override
  <2> HIDE DEF a
  <2>2. action' = [action EXCEPT ![t] = a] /\ task' = [task EXCEPT ![t] = "resolved"]
        /\ UNCHANGED <<rconfig, input, entries>>
    BY <1>4 DEF CheckHit, Moves, Resolve, a
  <2> QED
    BY <2>1, <2>2, RustMoves DEF Answered
<1>5. ASSUME NEW t \in Tasks, CheckMiss(t) PROVE RustInv'
  BY <1>5, RustMoves DEF CheckMiss, Moves, Answered
<1>6. ASSUME NEW t \in Tasks, NEW b \in RustActions, Evaluated(t, b) PROVE RustInv'
  <2>1. rconfig.mode = "audit" => Override(b) = "audit"
    BY DEF Override
  <2>2. action' = [action EXCEPT ![t] = Override(b)] /\ task' = [task EXCEPT ![t] = "resolved"]
        /\ UNCHANGED <<rconfig, input, entries>>
    BY <1>6 DEF Evaluated, Moves, Resolve
  <2> QED
    BY <2>1, <2>2, RustMoves DEF Answered
<1>7. ASSUME NEW t \in Tasks, EvaluateFails(t) PROVE RustInv'
  <2> DEFINE a == Unreachable(RefOfTask(t))
  <2>1. rconfig.mode = "audit" =>
          \/ a \in {"audit", "allow"}
          \/ rconfig.strict /\ a = "block"
    BY DEF Unreachable, Override
  <2> HIDE DEF a
  <2>2. action' = [action EXCEPT ![t] = a] /\ task' = [task EXCEPT ![t] = "resolved"]
        /\ UNCHANGED <<rconfig, input, entries>>
    BY <1>7 DEF EvaluateFails, Moves, Resolve, a
  <2> QED
    BY <2>1, <2>2, RustMoves DEF Answered
<1>8. ASSUME NEW t \in Tasks, Record(t) PROVE RustInv'
  BY <1>8 DEF Record, Moves, RustInv, TaskFunctions, AuditActions, Reported, Intercepted,
              RefOfTask, Refused, Answered
<1>9. ASSUME NEW t \in Tasks, RespondTo(t) PROVE RustInv'
  BY <1>9 DEF RespondTo, Moves, RustInv, TaskFunctions, AuditActions, Reported, Intercepted,
              RefOfTask, Refused, Answered
<1> QED
  BY <1>1, <1>2, <1>3, <1>4, <1>5, <1>6, <1>7, <1>8, <1>9 DEF RustNext

LEMMA RustAlways == FrontSpec => []RustInv
<1>1. FrontInit => RustInv
  BY RustInvInit DEF FrontInit
<1>2. RustInv /\ [FrontNext]_frontVars => RustInv'
  <2> SUFFICES ASSUME RustInv, [FrontNext]_frontVars PROVE RustInv'
    OBVIOUS
  <2>1. [RustNext]_rustVars
    BY DEF FrontNext, Rust, Scan, frontVars
  <2> QED
    BY <2>1, RustInvStep
<1> QED
  BY <1>1, <1>2, PTL DEF FrontSpec

\* Audit mode refuses nothing but what strict mode blocks, in any interleaving
\* of connections over the cache.
THEOREM AuditObserves == FrontSpec => []AuditOnlyObserves
<1>1. RustInv => AuditOnlyObserves
  <2> SUFFICES ASSUME RustInv, NEW t \in Tasks, rconfig.mode = "audit", task[t] = "refused"
               PROVE  rconfig.strict /\ <<t, RefOfTask(t), "block">> \in entries
    BY DEF AuditOnlyObserves
  <2>1. Refused(action[t]) /\ <<t, RefOfTask(t), action[t]>> \in entries
    BY DEF RustInv, Reported
  <2>2. action[t] \notin {Unlisted, "audit", "allow"}
    BY <2>1 DEF Refused, Unlisted
  <2> QED
    BY <2>1, <2>2 DEF RustInv, AuditActions
<1> QED
  BY <1>1, RustAlways, PTL

\* The report that Ctrl-C writes has every answered package request.
THEOREM ReportFlushed == FrontSpec => FlushedReport
<1> DEFINE Flushed == file' # file /\ file' # {} =>
                        \A t \in Tasks : Intercepted(t) /\ task[t] \in {"refused", "passed"} =>
                          <<t, RefOfTask(t), action[t]>> \in file'
<1>1. RustInv /\ [FrontNext]_frontVars => [Flushed]_rustVars
  <2> SUFFICES ASSUME RustInv, [FrontNext]_frontVars PROVE [Flushed]_rustVars
    OBVIOUS
  <2>1. [RustNext]_rustVars
    BY DEF FrontNext, Rust, Scan, frontVars
  <2>2. file' = file \/ file' = {} \/ file' = entries
    BY <2>1 DEF RustNext, rustVars, GenerateCA, InstallShims, Bind, Starts, CtrlC, RuntimeEnds,
                Accept, CheckHit, CheckMiss, EvaluateFails, Evaluated, Record, RespondTo
  <2> QED
    BY <2>2 DEF RustInv, Reported, Answered
<1> QED
  BY <1>1, RustAlways, PTL DEF FrontSpec, FlushedReport

----------------------------------------------------------------------------
(* The cache of the Rust proxy.                                            *)

\* An entry of the cache: a reference that some request names, and an action.
LruEntry == [ref : {Extract(i.url) : i \in Inputs \cup {NoInput}}, action : RustActions]

\* A set of naturals has a least element, the one that Min chooses.
LEMMA MinIs ==
  ASSUME NEW T \in SUBSET Nat, T # {}
  PROVE  Min(T) \in T /\ \A n \in T : Min(T) <= n
<1> DEFINE R == {ss \in Nat \X Nat : ss[1] < ss[2]}
<1>1. IsWellFoundedOn(R, Nat)
  BY NatLessThanWellFounded DEF OpToRel
<1>2. PICK m \in T : \A n \in T : ~(<<n, m>> \in R)
  <2> HIDE DEF R
  <2> QED
    BY <1>1, WFMin
<1>3. ASSUME NEW n \in T PROVE m <= n
  <2>1. m \in Nat /\ n \in Nat /\ ~(<<n, m>> \in R)
    BY <1>2
  <2>2. ~(n < m)
    BY <2>1
  <2> QED
    BY <2>1, <2>2
<1> QED
  BY <1>3 DEF Min

LEMMA CachedIs ==
  ASSUME lru \in Seq(LruEntry), NEW ref
  PROVE  /\ Cached(ref) \in 0 .. Len(lru)
         /\ Cached(ref) # 0 => lru[Cached(ref)].ref = ref
<1> DEFINE I == {i \in 1 .. Len(lru) : lru[i].ref = ref}
<1>0. Len(lru) \in Nat
  BY LenProperties
<1>1. Cached(ref) = IF I # {} THEN Min(I) ELSE 0
  BY DEF Cached, SelectInSeq
<1>2. I # {} => Min(I) \in I
  <2>1. I \in SUBSET Nat
    BY <1>0
  <2> HIDE DEF I
  <2> QED
    BY <2>1, MinIs
<1> QED
  BY <1>0, <1>1, <1>2

\* A prefix of a sequence is one of the same elements.
LEMMA Prefix ==
  ASSUME NEW S, NEW s \in Seq(S), NEW n \in 0 .. Len(s)
  PROVE  /\ SubSeq(s, 1, n) \in Seq(S) /\ Len(SubSeq(s, 1, n)) = n
         /\ \A i \in 1 .. n : SubSeq(s, 1, n)[i] = s[i]
<1>1. Len(s) \in Nat /\ \A i \in 1 .. n : s[i] \in S
  BY LenProperties, ElementOfSeq
<1>2. /\ SubSeq(s, 1, n) \in Seq(S)
      /\ Len(SubSeq(s, 1, n)) = IF 1 <= n THEN n - 1 + 1 ELSE 0
      /\ \A i \in 1 .. n - 1 + 1 : SubSeq(s, 1, n)[i] = s[1 + i - 1]
  BY <1>1, SubSeqProperties
<1> QED
  BY <1>1, <1>2

\* A use puts its entry first; whatever else is cached was cached before.
LEMMA UsedIs ==
  ASSUME lru \in Seq(LruEntry), NEW e \in LruEntry
  PROVE  /\ Used(e) \in Seq(LruEntry) /\ Len(Used(e)) <= CacheSize
         /\ \A x \in ToSet(Used(e)) : x = e \/ x \in ToSet(lru)
<1> DEFINE at == Cached(e.ref)
           rest == Without(e.ref)
           all == <<e>> \o rest
           n == Min({Len(all), CacheSize})
<1>0. Len(lru) \in Nat /\ at \in 0 .. Len(lru) /\ \A i \in 1 .. Len(lru) : lru[i] \in LruEntry
  BY CachedIs, LenProperties, ElementOfSeq
<1>1. rest \in Seq(LruEntry) /\ \A i \in 1 .. Len(rest) : rest[i] \in ToSet(lru)
  <2>1. CASE at = 0
    <3>1. rest = lru
      BY <2>1 DEF Without
    <3> QED
      BY <1>0, <3>1, LenProperties DEF ToSet
  <2>2. CASE at # 0
    <3> DEFINE a == SubSeq(lru, 1, at - 1)
               b == SubSeq(lru, at + 1, Len(lru))
    <3>1. a \in Seq(LruEntry) /\ Len(a) = at - 1 /\ \A i \in 1 .. at - 1 : a[i] = lru[i]
      BY <1>0, <2>2, Prefix
    <3>2. /\ b \in Seq(LruEntry) /\ Len(b) = Len(lru) - at
          /\ \A i \in 1 .. Len(lru) - at : b[i] = lru[at + i]
      BY <1>0, <2>2, SubSeqProperties
    <3>3. rest = a \o b
      BY <2>2 DEF Without, RemoveAt
    <3> HIDE DEF a, b, rest, at
    <3>4. /\ rest \in Seq(LruEntry) /\ Len(rest) = Len(lru) - 1
          /\ \A i \in 1 .. Len(lru) - 1 : rest[i] = IF i <= Len(a) THEN a[i] ELSE b[i - Len(a)]
      <4>1. /\ a \o b \in Seq(LruEntry) /\ Len(a \o b) = Len(a) + Len(b)
            /\ \A i \in 1 .. Len(a) + Len(b) :
                 (a \o b)[i] = IF i <= Len(a) THEN a[i] ELSE b[i - Len(a)]
        BY <3>1, <3>2, ConcatProperties
      <4>2. Len(a) + Len(b) = Len(lru) - 1
        BY <1>0, <2>2, <3>1, <3>2
      <4> QED
        BY <3>3, <4>1, <4>2
    <3>5. ASSUME NEW i \in 1 .. Len(lru) - 1 PROVE \E j \in 1 .. Len(lru) : rest[i] = lru[j]
      <4>1. CASE i <= Len(a)
        BY <1>0, <2>2, <3>1, <3>4, <4>1
      <4>2. CASE i > Len(a)
        <5>1. i - Len(a) \in 1 .. Len(lru) - at /\ rest[i] = b[i - Len(a)]
          BY <1>0, <2>2, <3>1, <3>4, <4>2
        <5>2. b[i - Len(a)] = lru[at + (i - Len(a))] /\ at + (i - Len(a)) \in 1 .. Len(lru)
          BY <1>0, <2>2, <3>1, <3>2, <5>1
        <5> QED
          BY <5>1, <5>2
      <4> QED
        BY <1>0, <2>2, <3>1, <4>1, <4>2
    <3> QED
      BY <1>0, <3>4, <3>5, LenProperties DEF ToSet
  <2> QED
    BY <2>1, <2>2
<1> HIDE DEF rest, at
<1>2. /\ all \in Seq(LruEntry) /\ Len(all) = 1 + Len(rest) /\ Len(rest) \in Nat
      /\ \A i \in 1 .. Len(all) : all[i] = e \/ all[i] \in ToSet(lru)
  <2>1. <<e>> \in Seq(LruEntry) /\ Len(<<e>>) = 1 /\ <<e>>[1] = e /\ Len(rest) \in Nat
    BY <1>1, LenProperties
  <2>2. /\ all \in Seq(LruEntry) /\ Len(all) = 1 + Len(rest)
        /\ \A i \in 1 .. 1 + Len(rest) : all[i] = IF i <= 1 THEN <<e>>[i] ELSE rest[i - 1]
    BY <1>1, <2>1, ConcatProperties
  <2> HIDE DEF all
  <2>3. ASSUME NEW i \in 1 .. Len(all) PROVE all[i] = e \/ all[i] \in ToSet(lru)
    <3>1. CASE i = 1
      BY <2>1, <2>2, <3>1
    <3>2. CASE i > 1
      <4>1. i - 1 \in 1 .. Len(rest) /\ all[i] = rest[i - 1]
        BY <2>1, <2>2, <3>2
      <4> QED
        BY <1>1, <4>1
    <3> QED
      BY <2>1, <2>2, <3>1, <3>2
  <2> QED
    BY <2>1, <2>2, <2>3
<1>3. n \in 0 .. Len(all) /\ n <= CacheSize
  <2>1. Len(all) \in Nat /\ CacheSize \in Nat
    BY <1>2, RustAssumption
  <2>2. n \in {Len(all), CacheSize} /\ n <= Len(all) /\ n <= CacheSize
    BY <2>1, MinIs
  <2> QED
    BY <2>1, <2>2
<1>4. Used(e) = SubSeq(all, 1, n)
  BY DEF Used, rest
<1> HIDE DEF all, n
<1>5. /\ Used(e) \in Seq(LruEntry) /\ Len(Used(e)) = n
      /\ \A i \in 1 .. n : Used(e)[i] = all[i]
  BY <1>2, <1>3, <1>4, Prefix
<1> QED
  BY <1>2, <1>3, <1>5, LenProperties DEF ToSet

----------------------------------------------------------------------------
(* Its types, and strict mode.                                             *)

\* A task past extract_package_info has a package.
Asking == {"check", "calling", "resolved", "recorded"}

\* Everything that is cached was ruled by the backend.
RustTyped ==
  /\ rconfig \in RustConfigs
  /\ main \in {"generate", "shims", "bind", "accepting", "flushed", "ended"}
  /\ task \in [Tasks -> Asking \cup {"none", "refused", "passed", "tunnelled", "dropped"}]
  /\ input \in [Tasks -> Inputs \cup {NoInput}]
  /\ action \in [Tasks -> RustActions \cup {Unlisted}]
  /\ followed \in [Tasks -> RustActions \cup {"none"}]
  /\ lru \in Seq(LruEntry) /\ Len(lru) <= CacheSize
  /\ \A e \in ToSet(lru) : <<e.ref, e.action>> \in ruled
  /\ \A r \in ruled : r[2] \in RustActions
  /\ \A e \in file \cup entries : e[1] \in Tasks /\ e[2] # NoRef /\ e[3] \in RustActions
  /\ \A t \in Tasks : task[t] \in Asking =>
       RefOfTask(t) # NoRef /\ (task[t] \in {"resolved", "recorded"} => action[t] \in RustActions)

\* The action of a task is what strict mode says without a ruling, or what the
\* mode makes of the answer it followed.
Earned(t) ==
  \/ action[t] = "block"
  \/ <<RefOfTask(t), followed[t]>> \in ruled /\ action[t] = Override(followed[t])

StrictRuled ==
  rconfig.strict => \A t \in Tasks :
    /\ task[t] \in {"resolved", "recorded"} => Earned(t)
    /\ task[t] = "passed" /\ Intercepted(t) => Earned(t) /\ ~Refused(action[t])

StrictInv == RustTyped /\ StrictRuled

LEMMA StrictInit == RustInit => StrictInv
<1> SUFFICES ASSUME RustInit PROVE StrictInv
  OBVIOUS
<1>1. lru \in Seq(LruEntry) /\ Len(lru) <= CacheSize /\ ToSet(lru) = {}
  BY EmptySeq, RustAssumption DEF RustInit, ToSet
<1> QED
  BY <1>1 DEF RustInit, StrictInv, RustTyped, StrictRuled, Asking

LEMMA ActionsStay ==
  /\ \A a \in RustActions : Override(a) \in RustActions
  /\ rconfig \in RustConfigs => \A ref : Unreachable(ref) \in RustActions
<1>1. \A a \in RustActions : Override(a) \in RustActions
  BY DEF Override, RustActions
<1>2. ASSUME rconfig \in RustConfigs, NEW ref
      PROVE  InFeed(rconfig.feed, ref) \in RustActions \cup {Unlisted}
  BY <1>2, RustAssumption DEF InFeed
<1>3. "block" \in RustActions /\ "allow" \in RustActions
  BY DEF RustActions
<1> QED
  BY <1>1, <1>2, <1>3 DEF Unreachable

\* Every way a task comes to an action.
LEMMA Resolving ==
  ASSUME StrictInv, NEW t \in Tasks, NEW from \in {"check", "calling"},
         Moves(t, from, "resolved"), NEW a \in RustActions,
         NEW b \in RustActions \cup {"none"}, Resolve(t, a, b),
         UNCHANGED <<rconfig, main, input, entries, file>>,
         ruled \subseteq ruled', \A r \in ruled' : r[2] \in RustActions,
         lru' \in Seq(LruEntry), Len(lru') <= CacheSize,
         \A e \in ToSet(lru') : <<e.ref, e.action>> \in ruled',
         rconfig.strict => a = "block" \/ (<<RefOfTask(t), b>> \in ruled' /\ a = Override(b))
  PROVE  StrictInv'
<1>1. /\ task[t] \in Asking
      /\ task' = [task EXCEPT ![t] = "resolved"] /\ action' = [action EXCEPT ![t] = a]
      /\ followed' = [followed EXCEPT ![t] = b]
      /\ \A u : RefOfTask(u)' = RefOfTask(u)
      /\ \A u : Intercepted(u)' = Intercepted(u)
      /\ \A c : Override(c)' = Override(c) /\ Refused(c)' = Refused(c)
  BY DEF Moves, Resolve, Asking, RefOfTask, Intercepted, Override, Refused
<1>2. RustTyped'
  BY <1>1 DEF StrictInv, RustTyped, Asking
<1>3. ASSUME NEW u \in Tasks, rconfig.strict, task'[u] \in {"resolved", "recorded", "passed"},
             u # t => Earned(u)
      PROVE  Earned(u)'
  <2>1. CASE u = t
    <3>1. action'[t] = a /\ followed'[t] = b
      BY <1>1 DEF StrictInv, RustTyped
    <3> QED
      BY <1>1, <1>3, <2>1, <3>1 DEF Earned
  <2>2. CASE u # t
    <3>1. action'[u] = action[u] /\ followed'[u] = followed[u]
      BY <1>1, <2>2 DEF StrictInv, RustTyped
    <3> QED
      BY <1>1, <1>3, <2>2, <3>1 DEF Earned
  <2> QED
    BY <2>1, <2>2
<1>4. StrictRuled'
  <2>1. \A u \in Tasks \ {t} : task'[u] = task[u] /\ action'[u] = action[u]
    BY <1>1 DEF StrictInv, RustTyped
  <2>2. task'[t] = "resolved"
    BY <1>1 DEF StrictInv, RustTyped
  <2> QED
    BY <1>1, <1>3, <2>1, <2>2 DEF StrictInv, StrictRuled
<1> QED
  BY <1>2, <1>4 DEF StrictInv

\* A task whose request and action stay keeps what it earned.
LEMMA EarnedKept ==
  ASSUME NEW u, Earned(u), input'[u] = input[u], action'[u] = action[u],
         followed'[u] = followed[u], rconfig' = rconfig, ruled \subseteq ruled'
  PROVE  Earned(u)'
BY DEF Earned, RefOfTask, Override

\* A step that only moves tasks, to the call or out of the program.
LEMMA StrictMoves ==
  ASSUME StrictInv, UNCHANGED <<rconfig, input, action, lru, entries, ruled, followed>>,
         main' \in {"generate", "shims", "bind", "accepting", "flushed", "ended"},
         file' \in {file, entries, {}},
         DOMAIN task' = Tasks, task' = [t \in Tasks |-> task'[t]],
         \A t \in Tasks : \/ task'[t] \in {task[t], "dropped"}
                          \/ task[t] = "check" /\ task'[t] = "calling"
  PROVE  StrictInv'
<1>1. \A u : /\ RefOfTask(u)' = RefOfTask(u) /\ Intercepted(u)' = Intercepted(u)
             /\ Refused(action[u])' = Refused(action[u])
  BY DEF RefOfTask, Intercepted, Refused
<1>2. \A t \in Tasks : task'[t] \in Asking => task[t] \in Asking
  BY DEF Asking
<1>3. task' \in [Tasks -> Asking \cup {"none", "refused", "passed", "tunnelled", "dropped"}]
  BY DEF StrictInv, RustTyped, Asking
<1>4. RustTyped'
  <2>1. \A t \in Tasks : task'[t] \in Asking =>
          RefOfTask(t)' # NoRef /\ (task'[t] \in {"resolved", "recorded"} => action'[t] \in RustActions)
    BY <1>1, <1>2 DEF StrictInv, RustTyped, Asking
  <2>2. \A e \in file' \cup entries' : e[1] \in Tasks /\ e[2] # NoRef /\ e[3] \in RustActions
    BY DEF StrictInv, RustTyped
  <2> QED
    BY <1>3, <2>1, <2>2 DEF StrictInv, RustTyped, Asking
<1>5. \A u \in Tasks : Earned(u) => Earned(u)'
  BY EarnedKept
<1>6. StrictRuled'
  BY <1>1, <1>5 DEF StrictInv, StrictRuled
<1> QED
  BY <1>4, <1>6 DEF StrictInv

LEMMA StrictStep == StrictInv /\ [RustNext]_rustVars => StrictInv'
<1> SUFFICES ASSUME StrictInv, [RustNext]_rustVars PROVE StrictInv'
  OBVIOUS
<1> USE DEF StrictInv, RustTyped, Asking, StrictRuled
<1>1. CASE GenerateCA \/ InstallShims \/ Bind \/ CtrlC \/ UNCHANGED rustVars
  <2>1. /\ UNCHANGED <<rconfig, task, input, action, lru, entries, ruled, followed>>
        /\ main' \in {"generate", "shims", "bind", "accepting", "flushed", "ended"}
        /\ file' \in {file, entries, {}}
    BY <1>1 DEF GenerateCA, InstallShims, Bind, CtrlC, Starts, rustVars
  <2>2. DOMAIN task' = Tasks /\ task' = [t \in Tasks |-> task'[t]]
    BY <2>1
  <2> QED
    BY <2>1, <2>2, StrictMoves
<1>2. CASE RuntimeEnds
  <2>1. /\ UNCHANGED <<rconfig, input, action, lru, entries, file, ruled, followed>>
        /\ main' = "ended"
        /\ task' = [t \in Tasks |-> IF task[t] \in {"refused", "passed", "none"} THEN task[t]
                                    ELSE "dropped"]
    BY <1>2 DEF RuntimeEnds
  <2> QED
    BY <2>1, StrictMoves
<1>3. ASSUME NEW t \in Tasks, NEW i \in Inputs, Accept(t, i) PROVE StrictInv'
  <2> DEFINE to == IF i.connect THEN "tunnelled"
                   ELSE IF Panics(i.url) THEN "dropped"
                   ELSE IF Extract(i.url) = NoRef THEN "passed"
                   ELSE "check"
  <2>1. /\ to \in {"tunnelled", "dropped", "passed", "check"}
        /\ to = "passed" => Extract(i.url) = NoRef
        /\ to = "check" => Extract(i.url) # NoRef
    OBVIOUS
  <2>2. task' = [task EXCEPT ![t] = to]
    BY <1>3 DEF Accept, Moves
  <2> HIDE DEF to
  <2>3. /\ input' = [input EXCEPT ![t] = i]
        /\ UNCHANGED <<rconfig, main, action, lru, entries, file, ruled, followed>>
    BY <1>3 DEF Accept
  <2>4. RefOfTask(t)' = Extract(i.url) /\ \A u \in Tasks \ {t} : RefOfTask(u)' = RefOfTask(u)
    BY <2>3 DEF RefOfTask
  <2>5. RustTyped'
    BY <2>1, <2>2, <2>3, <2>4
  <2>6. ASSUME NEW u \in Tasks, rconfig.strict
        PROVE  /\ task'[u] \in {"resolved", "recorded"} => Earned(u)'
               /\ task'[u] = "passed" /\ Intercepted(u)' => Earned(u)' /\ ~Refused(action[u])'
    <3>1. CASE u = t
      BY <2>1, <2>2, <2>4, <3>1 DEF Intercepted
    <3>2. CASE u # t
      <4>1. /\ task'[u] = task[u] /\ input'[u] = input[u] /\ action'[u] = action[u]
            /\ followed'[u] = followed[u] /\ rconfig' = rconfig /\ ruled' = ruled
        BY <2>2, <2>3, <3>2
      <4>2. (Intercepted(u)' => Intercepted(u)) /\ (Refused(action[u])' => Refused(action[u]))
        BY <4>1 DEF Intercepted, RefOfTask, Refused
      <4> QED
        BY <2>6, <4>1, <4>2, EarnedKept
    <3> QED
      BY <3>1, <3>2
  <2>7. StrictRuled'
    BY <2>3, <2>6
  <2> QED
    BY <2>5, <2>7
<1>4. ASSUME NEW t \in Tasks, CheckHit(t) PROVE StrictInv'
  <2> DEFINE e == lru[Cached(RefOfTask(t))]
  <2>1. e \in LruEntry /\ e \in ToSet(lru) /\ e.ref = RefOfTask(t)
    <3>1. Cached(RefOfTask(t)) \in 1 .. Len(lru) /\ e.ref = RefOfTask(t)
      BY <1>4, CachedIs, LenProperties DEF CheckHit
    <3> QED
      BY <3>1, ElementOfSeq, LenProperties DEF ToSet
  <2>2. /\ Moves(t, "check", "resolved") /\ Resolve(t, Override(e.action), e.action)
        /\ lru' = Used(e)
        /\ UNCHANGED <<rconfig, main, input, entries, file, ruled>>
    BY <1>4 DEF CheckHit
  <2> HIDE DEF e
  <2>3. e.action \in RustActions /\ <<RefOfTask(t), e.action>> \in ruled
    BY <2>1
  <2>4. /\ lru' \in Seq(LruEntry) /\ Len(lru') <= CacheSize
        /\ \A x \in ToSet(lru') : <<x.ref, x.action>> \in ruled'
    BY <2>1, <2>2, UsedIs
  <2> QED
    BY <2>2, <2>3, <2>4, ActionsStay, Resolving
<1>5. ASSUME NEW t \in Tasks, CheckMiss(t) PROVE StrictInv'
  <2>1. /\ task[t] = "check" /\ task' = [task EXCEPT ![t] = "calling"]
        /\ UNCHANGED <<rconfig, main, input, action, lru, entries, file, ruled, followed>>
    BY <1>5 DEF CheckMiss, Moves
  <2> QED
    BY <2>1, StrictMoves
<1>6. ASSUME NEW t \in Tasks, NEW b \in RustActions, Evaluated(t, b) PROVE StrictInv'
  <2> DEFINE e == [ref |-> RefOfTask(t), action |-> b]
  <2>1. e \in LruEntry /\ e.ref = RefOfTask(t) /\ e.action = b
    BY DEF LruEntry, RefOfTask
  <2>2. /\ Moves(t, "calling", "resolved") /\ Resolve(t, Override(b), b) /\ lru' = Used(e)
        /\ ruled' = ruled \cup {<<RefOfTask(t), b>>}
        /\ UNCHANGED <<rconfig, main, input, entries, file>>
    BY <1>6 DEF Evaluated
  <2> HIDE DEF e
  <2>3. /\ lru' \in Seq(LruEntry) /\ Len(lru') <= CacheSize
        /\ \A x \in ToSet(lru') : <<x.ref, x.action>> \in ruled'
    BY <2>1, <2>2, UsedIs
  <2>4. /\ ruled \subseteq ruled' /\ \A r \in ruled' : r[2] \in RustActions
        /\ <<RefOfTask(t), b>> \in ruled'
    BY <2>2
  <2>5. Override(b) \in RustActions
    BY ActionsStay
  <2> HIDE DEF StrictInv
  <2> QED
    BY <2>2, <2>3, <2>4, <2>5, Resolving
<1>7. ASSUME NEW t \in Tasks, EvaluateFails(t) PROVE StrictInv'
  <2>1. /\ Moves(t, "calling", "resolved") /\ Resolve(t, Unreachable(RefOfTask(t)), "none")
        /\ UNCHANGED <<rconfig, main, input, lru, entries, file, ruled>>
    BY <1>7 DEF EvaluateFails
  <2>2. rconfig.strict => Unreachable(RefOfTask(t)) = "block"
    BY DEF Unreachable
  <2>3. Unreachable(RefOfTask(t)) \in RustActions
    BY ActionsStay
  <2> QED
    BY <2>1, <2>2, <2>3, Resolving
<1>8. ASSUME NEW t \in Tasks, Record(t) \/ RespondTo(t) PROVE StrictInv'
  <2>1. /\ UNCHANGED <<rconfig, main, input, action, lru, file, ruled, followed>>
        /\ task[t] \in {"resolved", "recorded"}
        /\ \E to \in {"recorded", "refused", "passed"} :
             /\ task' = [task EXCEPT ![t] = to]
             /\ to = "passed" => ~Refused(action[t])
        /\ entries' \subseteq entries \cup {<<t, RefOfTask(t), action[t]>>}
    BY <1>8 DEF Record, RespondTo, Moves
  <2>2. \A u : /\ RefOfTask(u)' = RefOfTask(u) /\ Intercepted(u)' = Intercepted(u)
               /\ Refused(action[u])' = Refused(action[u])
    BY <2>1 DEF RefOfTask, Intercepted, Refused
  <2>3. RustTyped'
    BY <2>1, <2>2
  <2>4. \A u \in Tasks : Earned(u) => Earned(u)'
    BY <2>1, EarnedKept
  <2>5. StrictRuled'
    BY <2>1, <2>2, <2>4
  <2> QED
    BY <2>3, <2>5
<1> QED
  BY <1>1, <1>2, <1>3, <1>4, <1>5, <1>6, <1>7, <1>8 DEF RustNext

LEMMA StrictAlways == FrontSpec => []StrictInv
<1>1. FrontInit => StrictInv
  BY StrictInit DEF FrontInit
<1>2. StrictInv /\ [FrontNext]_frontVars => StrictInv'
  <2> SUFFICES ASSUME StrictInv, [FrontNext]_frontVars PROVE StrictInv'
    OBVIOUS
  <2>1. [RustNext]_rustVars
    BY DEF FrontNext, Rust, Scan, frontVars
  <2> QED
    BY <2>1, StrictStep
<1> QED
  BY <1>1, <1>2, PTL DEF FrontSpec

\* The Rust proxy's state is of its type, its cache within its capacity, and
\* every entry of it a ruling of the backend.
THEOREM RustTypes == FrontSpec => []RustTypeOK
<1>1. StrictInv => RustTypeOK
  BY DEF StrictInv, RustTyped, RustTypeOK, Asking
<1> QED
  BY <1>1, StrictAlways, PTL

\* In strict mode a package request over HTTP goes through only by an answer of
\* the backend about that package which the settings permit, whichever tasks
\* filled the cache.
THEOREM RustStrict == FrontSpec => []RustFailsClosed
<1>1. StrictInv => RustFailsClosed
  <2> SUFFICES ASSUME StrictInv, NEW t \in Tasks, rconfig.strict, Intercepted(t), task[t] = "passed"
               PROVE  <<RefOfTask(t), followed[t]>> \in ruled /\ Permits(followed[t])
    BY DEF RustFailsClosed
  <2> DEFINE a == followed[t]
  <2>1. Earned(t) /\ ~Refused(action[t])
    BY DEF StrictInv, StrictRuled
  <2>2. action[t] \notin {"block", "require_approval"}
    BY <2>1 DEF Refused
  <2>3. <<RefOfTask(t), a>> \in ruled /\ action[t] = Override(a)
    BY <2>1, <2>2 DEF Earned
  <2>4. /\ rconfig.mode \in {"enforce", "warn", "audit"}
        /\ rconfig.failOn \in {"block", "warn", "any"}
    BY RustAssumption DEF StrictInv, RustTyped, RustConfigType
  <2>5. action[t] = "warn" => rconfig.failOn = "block"
    BY <2>1, <2>4 DEF Refused
  <2> HIDE DEF a
  <2>6. Permits(a)
    <3>1. CASE rconfig.mode = "audit"
      BY <3>1 DEF Permits
    <3>2. CASE rconfig.mode = "warn"
      BY <2>3, <2>5, <3>2 DEF Permits, Override
    <3>3. CASE rconfig.mode = "enforce"
      BY <2>2, <2>3, <2>5, <3>3 DEF Permits, Override
    <3> QED
      BY <2>4, <3>1, <3>2, <3>3
  <2> QED
    BY <2>3, <2>6 DEF a
<1> QED
  BY <1>1, StrictAlways, PTL

----------------------------------------------------------------------------
(* The scan.                                                               *)

\* What has been checked has a record, and what is left to check is a package
\* that was found, at its line.
ScanInv ==
  /\ sconfig \in ScanConfigs /\ lockfile \in Lockfiles
  /\ scan \in {"parse", "feed", "check", "done"}
  /\ exit \in {"running", "0", "1", "error"} /\ (exit = "running") = (scan # "done")
  /\ DOMAIN todo \subseteq DOMAIN Parse(lockfile)
  /\ \A i \in DOMAIN todo : todo[i] = Parse(lockfile)[i]
  /\ records \subseteq Found(lockfile) \X ScanActions
  /\ said \subseteq Found(lockfile) \X (ScanActions \cup {"error"})
  /\ \A e \in said : <<e[1], Judged(e[2])>> \in records
  /\ scan \in {"feed", "check"} =>
       \A i \in DOMAIN Parse(lockfile) \ DOMAIN todo : \E e \in said : e[1] = Parse(lockfile)[i]
  /\ exit = "0" => /\ \A i \in DOMAIN Parse(lockfile) : \E e \in said : e[1] = Parse(lockfile)[i]
                   /\ \A e \in records : e[2] # "block"
  /\ scan = "parse" => records = {} /\ said = {}

LEMMA ScanInvInit == ScanInit => ScanInv
<1> SUFFICES ASSUME ScanInit PROVE ScanInv
  OBVIOUS
<1>1. DOMAIN todo = {}
  BY DEF ScanInit
<1> QED
  BY <1>1 DEF ScanInit, ScanInv

LEMMA ScanStep == ScanInv /\ [ScanNext]_scanVars => ScanInv'
<1> SUFFICES ASSUME ScanInv, [ScanNext]_scanVars PROVE ScanInv'
  OBVIOUS
<1> DEFINE found == Parse(lockfile)
<1>1. CASE ParseLockfile
  <2>1. /\ UNCHANGED <<sconfig, lockfile, records, said>> /\ scan = "parse"
        /\ records = {} /\ said = {} /\ exit = "running"
    BY <1>1 DEF ParseLockfile, ScanInv
  <2>2. CASE scan' = "done" /\ exit' = "error" /\ UNCHANGED todo
    BY <2>1, <2>2 DEF ScanInv
  <2>3. CASE /\ todo' = found
             /\ scan' = IF DOMAIN todo' = {} THEN "done" ELSE "feed"
             /\ exit' = IF DOMAIN todo' = {} THEN "0" ELSE exit
    <3>1. Parse(lockfile)' = found /\ Found(lockfile)' = Found(lockfile)
      BY <2>1
    <3> HIDE DEF found
    <3> QED
      BY <2>1, <2>3, <3>1 DEF ScanInv
  <2> QED
    BY <1>1, <2>2, <2>3 DEF ParseLockfile
<1>2. CASE LoadFeed
  BY <1>2 DEF LoadFeed, ScanInv, Judged
<1>3. ASSUME NEW k \in DOMAIN todo, NEW a \in ScanActions \cup {"error"}, CheckNext(k, a)
      PROVE  ScanInv'
  <2> DEFINE pkg == todo[k]
  <2>1. /\ scan = "check" /\ todo' = [j \in DOMAIN todo \ {k} |-> todo[j]]
        /\ records' = records \cup {<<pkg, Judged(a)>>}
        /\ said' = said \cup {<<pkg, a>>}
        /\ UNCHANGED <<sconfig, lockfile, scan, exit>>
    BY <1>3 DEF CheckNext
  <2>2. /\ pkg \in Found(lockfile) /\ pkg = found[k]
        /\ DOMAIN todo' = DOMAIN todo \ {k} /\ \A i \in DOMAIN todo' : todo'[i] = todo[i]
    BY <1>3, <2>1 DEF ScanInv, Found
  <2>3. Judged(a) \in ScanActions /\ \A b : Judged(b)' = Judged(b)
    BY <2>1 DEF Judged, ScanActions
  <2>4. exit = "running" /\ Parse(lockfile)' = found /\ Found(lockfile)' = Found(lockfile)
    BY <2>1 DEF ScanInv
  <2> HIDE DEF pkg, found
  <2>5. /\ said' \subseteq Found(lockfile) \X (ScanActions \cup {"error"})
        /\ records' \subseteq Found(lockfile) \X ScanActions
        /\ \A e \in said' : <<e[1], Judged(e[2])>> \in records'
    BY <2>1, <2>2, <2>3 DEF ScanInv
  <2>6. \A i \in DOMAIN found \ DOMAIN todo' : \E e \in said' : e[1] = found[i]
    <3>1. <<pkg, a>> \in said' /\ <<pkg, a>>[1] = pkg
      BY <2>1
    <3> QED
      BY <2>1, <2>2, <3>1 DEF ScanInv, found
  <2>7. DOMAIN todo' \subseteq DOMAIN found /\ \A i \in DOMAIN todo' : todo'[i] = found[i]
    BY <2>2 DEF ScanInv, found
  <2> QED
    BY <2>1, <2>3, <2>4, <2>5, <2>6, <2>7 DEF ScanInv
<1>4. CASE Finish
  <2>1. \A b : Judged(b)' = Judged(b)
    BY <1>4 DEF Finish, Judged
  <2> QED
    BY <1>4, <2>1 DEF Finish, ScanInv
<1>5. CASE UNCHANGED scanVars
  <2>1. \A b : Judged(b)' = Judged(b)
    BY <1>5 DEF scanVars, Judged
  <2> QED
    BY <1>5, <2>1 DEF scanVars, ScanInv
<1> QED
  BY <1>1, <1>2, <1>3, <1>4, <1>5 DEF ScanNext

LEMMA ScanAlways == FrontSpec => []ScanInv
<1>1. FrontInit => ScanInv
  BY ScanInvInit DEF FrontInit
<1>2. ScanInv /\ [FrontNext]_frontVars => ScanInv'
  <2> SUFFICES ASSUME ScanInv, [FrontNext]_frontVars PROVE ScanInv'
    OBVIOUS
  <2>1. [ScanNext]_scanVars
    BY DEF FrontNext, Rust, Scan, frontVars
  <2> QED
    BY <2>1, ScanStep
<1> QED
  BY <1>1, <1>2, PTL DEF FrontSpec

\* The front ends' state is of its type: in particular the scan asks only about
\* packages its parser found.
THEOREM FrontTyped == FrontSpec => []FrontTypeOK
<1>1. ScanInv => ScanTypeOK
  BY DEF ScanInv, ScanTypeOK, Found
<1>2. FrontInit => front \in {"rust", "scan"}
  BY DEF FrontInit
<1>3. front \in {"rust", "scan"} /\ [FrontNext]_frontVars => (front \in {"rust", "scan"})'
  BY DEF FrontNext, Rust, Scan, frontVars
<1>4. FrontSpec => [](front \in {"rust", "scan"})
  BY <1>2, <1>3, PTL DEF FrontSpec
<1> QED
  BY <1>1, <1>4, ScanAlways, RustTypes, PTL DEF FrontTypeOK

----------------------------------------------------------------------------
(* What the front ends ask, and what a lockfile pins.                       *)

Row1 == Row("npm", {"registry.npmjs.org"}, {"tarball"}, Triple)
Row2 == Row("pypi", {"files.pythonhosted.org"}, {"wheel"}, Versions)
Row3 == Row("pypi", {"files.pythonhosted.org"}, {"sdist"}, Dotted)
Row4 == Row("crates", {"crates.io"}, {"crate api"}, Versions)
Row5 == Row("crates", {"static.crates.io"}, {"crate file"}, Versions)

LEMMA Appended ==
  ASSUME NEW S, NEW s \in Seq(S), NEW t \in Seq(S)
  PROVE  /\ s \o t \in Seq(S) /\ Len(s \o t) = Len(s) + Len(t)
         /\ \A i \in 1 .. Len(s) : (s \o t)[i] = s[i]
         /\ \A i \in Len(s) + 1 .. Len(s) + Len(t) : (s \o t)[i] = t[i - Len(s)]
<1>1. Len(s) \in Nat /\ Len(t) \in Nat
  BY LenProperties
<1> QED
  BY <1>1, ConcatProperties

GemRow == Row("rubygems", {"rubygems.org", "index.rubygems.org"}, {"gem"}, Numbered)
MavenRow == Row("maven", {"repo1.maven.org", "repo.maven.apache.org"}, {"maven artifact"}, Versions)

GitLabRow(hosts) ==
  {Row("npm", hosts, {"gitlab npm"}, Triple), Row("pypi", hosts, {"gitlab pypi"}, Dotted),
   Row("maven", hosts, {"gitlab maven"}, Versions),
   Row("generic", hosts, {"gitlab generic"}, Versions)}

RowsOf(cfg) ==
  {Row1, Row2, Row3, Row4, Row5, GemRow, MavenRow}
    \cup GitLabRow({"gitlab.com"} \cup cfg.gitlab)
    \cup {CustomRow(cfg.extra[i]) : i \in DOMAIN cfg.extra}

LEMMA RowsTyped ==
  ASSUME NEW cfg \in MatcherConfigs
  PROVE  /\ NpmRows \in Seq(RowsOf(cfg)) /\ Len(NpmRows) = 1 /\ NpmRows[1] = Row1
         /\ PypiRows \in Seq(RowsOf(cfg)) /\ Len(PypiRows) = 2
         /\ PypiRows[1] = Row2 /\ PypiRows[2] = Row3
         /\ CargoRows \in Seq(RowsOf(cfg)) /\ Len(CargoRows) = 2
         /\ CargoRows[1] = Row4 /\ CargoRows[2] = Row5
         /\ GemRows \in Seq(RowsOf(cfg)) /\ MavenRows \in Seq(RowsOf(cfg))
         /\ GitLab(cfg) \in Seq(RowsOf(cfg)) /\ Custom(cfg) \in Seq(RowsOf(cfg))
<1> DEFINE S == RowsOf(cfg)
<1>1. {Row1, Row2, Row3, Row4, Row5, GemRow, MavenRow} \subseteq S
  BY DEF RowsOf
<1>2. /\ NpmRows = <<Row1>> /\ PypiRows = <<Row2, Row3>> /\ CargoRows = <<Row4, Row5>>
      /\ GemRows = <<GemRow>> /\ MavenRows = <<MavenRow>>
  BY DEF NpmRows, PypiRows, CargoRows, GemRows, MavenRows,
         Row1, Row2, Row3, Row4, Row5, GemRow, MavenRow
<1>3. /\ NpmRows \in Seq(S) /\ Len(NpmRows) = 1 /\ NpmRows[1] = Row1
      /\ PypiRows \in Seq(S) /\ Len(PypiRows) = 2
      /\ PypiRows[1] = Row2 /\ PypiRows[2] = Row3
      /\ CargoRows \in Seq(S) /\ Len(CargoRows) = 2
      /\ CargoRows[1] = Row4 /\ CargoRows[2] = Row5
      /\ GemRows \in Seq(S) /\ MavenRows \in Seq(S)
  <2> HIDE DEF S
  <2> QED
    BY <1>1, <1>2
<1>4. GitLab(cfg) \in Seq(S)
  <2> DEFINE hosts == {"gitlab.com"} \cup cfg.gitlab
             r1 == Row("npm", hosts, {"gitlab npm"}, Triple)
             r2 == Row("pypi", hosts, {"gitlab pypi"}, Dotted)
             r3 == Row("maven", hosts, {"gitlab maven"}, Versions)
             r4 == Row("generic", hosts, {"gitlab generic"}, Versions)
  <2>1. {r1, r2, r3, r4} \subseteq S
    BY DEF RowsOf, GitLabRow
  <2>2. GitLab(cfg) \in {<<>>, <<r1, r2, r3, r4>>}
    BY DEF GitLab, GitLabRows
  <2> HIDE DEF r1, r2, r3, r4, S
  <2>3. <<r1, r2, r3, r4>> \in Seq(S)
    BY <2>1
  <2> QED
    BY <2>2, <2>3, EmptySeq
<1>5. Custom(cfg) \in Seq(S)
  <2> DEFINE x == cfg.extra
  <2>1. Len(x) \in Nat /\ DOMAIN x = 1 .. Len(x)
    BY RegistriesAssumption, LenProperties
  <2>2. \A i \in 1 .. Len(x) : CustomRow(x[i]) \in S
    BY <2>1 DEF RowsOf
  <2>3. Custom(cfg) = [i \in 1 .. Len(x) |-> CustomRow(x[i])]
    BY <2>1 DEF Custom
  <2> HIDE DEF S, x
  <2>4. [i \in 1 .. Len(x) |-> CustomRow(x[i])] \in [1 .. Len(x) -> S]
    BY <2>2
  <2> QED
    BY <2>1, <2>3, <2>4, SeqDef
<1> QED
  BY <1>3, <1>4, <1>5

\* Every configuration asks the built-in matchers first.
LEMMA MatchersStart ==
  ASSUME NEW cfg \in MatcherConfigs
  PROVE  /\ Matchers(cfg) \in Seq(RowsOf(cfg)) /\ Len(Matchers(cfg)) \in Nat
         /\ Len(Matchers(cfg)) >= 5
         /\ Matchers(cfg)[1] = Row1 /\ Matchers(cfg)[2] = Row2 /\ Matchers(cfg)[3] = Row3
         /\ Matchers(cfg)[4] = Row4 /\ Matchers(cfg)[5] = Row5
<1> DEFINE a == NpmRows \o PypiRows
           b == a \o CargoRows
           c == b \o GemRows
           d == c \o MavenRows
           e == d \o GitLab(cfg)
           f == e \o Custom(cfg)
           Leads(s) == /\ s \in Seq(RowsOf(cfg)) /\ Len(s) \in Nat /\ Len(s) >= 5
                        /\ s[1] = Row1 /\ s[2] = Row2 /\ s[3] = Row3
                        /\ s[4] = Row4 /\ s[5] = Row5
<1>1. /\ a \in Seq(RowsOf(cfg)) /\ Len(a) = 3
      /\ a[1] = Row1 /\ a[2] = Row2 /\ a[3] = Row3
  <2>1. /\ a \in Seq(RowsOf(cfg)) /\ Len(a) = 1 + 2
        /\ \A i \in 1 .. 1 : a[i] = NpmRows[i]
        /\ \A i \in 2 .. 3 : a[i] = PypiRows[i - 1]
    <3>1. NpmRows \in Seq(RowsOf(cfg)) /\ PypiRows \in Seq(RowsOf(cfg))
            /\ Len(NpmRows) = 1 /\ Len(PypiRows) = 2
      BY RowsTyped
    <3>2. a \in Seq(RowsOf(cfg)) /\ Len(a) = Len(NpmRows) + Len(PypiRows)
      BY <3>1, Appended
    <3>3. \A i \in 1 .. Len(NpmRows) : a[i] = NpmRows[i]
      BY <3>1, Appended
    <3>4. \A i \in Len(NpmRows) + 1 .. Len(NpmRows) + Len(PypiRows) :
            a[i] = PypiRows[i - Len(NpmRows)]
      BY <3>1, Appended
    <3> HIDE DEF a
    <3> QED
      BY <3>1, <3>2, <3>3, <3>4
  <2> HIDE DEF a
  <2>2. a[1] = NpmRows[1] /\ a[2] = PypiRows[2 - 1] /\ a[3] = PypiRows[3 - 1]
    BY <2>1
  <2> QED
    BY <2>1, <2>2, RowsTyped
<1>2. Leads(b)
  <2>1. /\ b \in Seq(RowsOf(cfg)) /\ Len(b) = 3 + 2
        /\ \A i \in 1 .. 3 : b[i] = a[i]
        /\ \A i \in 4 .. 5 : b[i] = CargoRows[i - 3]
    <3>1. CargoRows \in Seq(RowsOf(cfg)) /\ Len(CargoRows) = 2
      BY RowsTyped
    <3> HIDE DEF a
    <3>2. b \in Seq(RowsOf(cfg)) /\ Len(b) = Len(a) + Len(CargoRows)
      BY <1>1, <3>1, Appended
    <3>3. \A i \in 1 .. Len(a) : b[i] = a[i]
      BY <1>1, <3>1, Appended
    <3>4. \A i \in Len(a) + 1 .. Len(a) + Len(CargoRows) : b[i] = CargoRows[i - Len(a)]
      BY <1>1, <3>1, Appended
    <3> HIDE DEF b
    <3> QED
      BY <1>1, <3>1, <3>2, <3>3, <3>4
  <2> HIDE DEF a, b
  <2>2. b[1] = a[1] /\ b[2] = a[2] /\ b[3] = a[3] /\ b[4] = CargoRows[4 - 3] /\ b[5] = CargoRows[5 - 3]
    BY <2>1
  <2> QED
    BY <1>1, <2>1, <2>2, RowsTyped
<1>3. ASSUME NEW s, Leads(s), NEW t \in Seq(RowsOf(cfg)) PROVE Leads(s \o t)
  <2>1. /\ s \o t \in Seq(RowsOf(cfg)) /\ Len(s \o t) = Len(s) + Len(t)
        /\ \A i \in 1 .. Len(s) : (s \o t)[i] = s[i]
    BY <1>3, Appended
  <2>2. Len(t) \in Nat
    BY LenProperties
  <2>3. 1 \in 1 .. Len(s) /\ 2 \in 1 .. Len(s) /\ 3 \in 1 .. Len(s) /\ 4 \in 1 .. Len(s) /\ 5 \in 1 .. Len(s)
    BY <1>3
  <2> QED
    BY <1>3, <2>1, <2>2, <2>3
<1> HIDE DEF Leads, a, b
<1>4. Leads(c)
  BY <1>2, <1>3, RowsTyped
<1> HIDE DEF c
<1>5. Leads(d)
  BY <1>4, <1>3, RowsTyped
<1> HIDE DEF d
<1>6. Leads(e)
  BY <1>5, <1>3, RowsTyped
<1> HIDE DEF e
<1>7. Leads(f)
  BY <1>6, <1>3, RowsTyped
<1>8. Matchers(cfg) = f
  BY DEF Matchers, a, b, c, d, e, f
<1> QED
  BY <1>7, <1>8 DEF Leads

\* The first matcher that takes a URL decides.
LEMMA FirstTakes ==
  ASSUME NEW cfg \in MatcherConfigs, NEW url, NEW k \in 1 .. 5,
         Takes(Matchers(cfg)[k], url),
         \A j \in 1 .. k - 1 : ~Takes(Matchers(cfg)[j], url)
  PROVE  Match(cfg, url) = RefOf(Matchers(cfg)[k], url)
<1> DEFINE rows == Matchers(cfg)
           I == {i \in 1 .. Len(rows) : Takes(rows[i], url)}
           first == SelectInSeq(rows, LAMBDA row : Takes(row, url))
<1>1. Len(rows) \in Nat /\ k \in I /\ I \in SUBSET Nat
  BY MatchersStart
<1>2. Min(I) \in I /\ Min(I) <= k
  <2> HIDE DEF I
  <2> QED
    BY <1>1, MinIs
<1>3. Min(I) = k
  BY <1>1, <1>2
<1>4. first = IF I # {} THEN Min(I) ELSE 0
  BY DEF SelectInSeq
<1>5. first = k
  BY <1>1, <1>3, <1>4
<1> QED
  BY <1>5 DEF Match

\* A package at a released version, whose name on PyPI has no "_" in it, and the
\* reference the Go proxy reads from each URL it is downloaded from.
Released(ref) ==
  /\ ref \in [eco : {"npm", "pypi", "crates"}, name : NameType(BOOLEAN), version : Triple]
  /\ ref.eco = "pypi" => ref.name.sep # "_"
Folded(ref) == IF ref.eco = "pypi" THEN [ref EXCEPT !.name = Lower(@)] ELSE ref

LEMMA Respelled ==
  ASSUME NEW name \in NameType(BOOLEAN), name.sep # "_"
  PROVE  LET escaped == Name(name.scope, name.id, TRUE, IF name.sep = "" THEN "" ELSE "_")
         IN  Normal(name) = Lower(name) /\ Normal(escaped) = Lower(name)
<1> DEFINE sep == IF name.sep = "" THEN "" ELSE "_"
           escaped == Name(name.scope, name.id, TRUE, sep)
<1>1. name.sep \in {"", "-"}
  BY DEF NameType, Name
<1>2. escaped.scope = name.scope /\ escaped.id = name.id /\ escaped.sep = sep
  BY DEF Name
<1>3. /\ (IF name.sep = "" THEN "" ELSE "-") = name.sep
      /\ (IF sep = "" THEN "" ELSE "-") = name.sep
  BY <1>1
<1>4. Normal(name) = Lower(name)
  BY <1>3 DEF Normal, Lower
<1>5. Normal(escaped) = Lower(name)
  <2> HIDE DEF escaped, sep
  <2> QED
    BY <1>2, <1>3 DEF Normal, Lower
<1> QED
  BY <1>4, <1>5

\* The built-in matchers recognize every such URL.
LEMMA Recognized ==
  ASSUME NEW cfg \in MatcherConfigs, NEW ref, Released(ref), NEW url \in Downloads(ref)
  PROVE  Match(cfg, url) = Folded(ref)
<1>1. /\ ref.version = "1.2.3" /\ ref = Ref(ref.eco, ref.name, ref.version)
      /\ ref.eco \in {"npm", "pypi", "crates"}
  BY DEF Released, Ref, Triple
<1>2. "1.2.3" \in Triple /\ "1.2.3" \in Dotted /\ "1.2.3" \in Versions
  BY DEF Triple, Dotted, Versions, Numbered
<1>3. ref.eco # "pypi" => Folded(ref) = ref
  BY DEF Folded
<1>4. CASE ref.eco = "npm"
  <2>1. url = Url("registry.npmjs.org", "tarball", ref.name, ref.version)
    BY <1>4 DEF Downloads
  <2>2. Takes(Row1, url) /\ RefOf(Row1, url) = ref
    BY <1>1, <1>2, <1>4, <2>1 DEF Takes, Url, Row1, Row, RefOf
  <2>3. Match(cfg, url) = RefOf(Matchers(cfg)[1], url)
    BY <2>2, MatchersStart, FirstTakes
  <2> QED
    BY <1>3, <1>4, <2>2, <2>3, MatchersStart
<1>5. CASE ref.eco = "pypi"
  <2> DEFINE escaped == Name(ref.name.scope, ref.name.id, TRUE,
                             IF ref.name.sep = "" THEN "" ELSE "_")
             lower == Lower(ref.name)
  <2>1. ref.name \in NameType(BOOLEAN) /\ ref.name.sep # "_"
    BY <1>5 DEF Released
  <2>2. Normal(ref.name) = lower /\ Normal(escaped) = lower
    BY <2>1, Respelled
  <2>3. Folded(ref) = Ref("pypi", lower, ref.version)
    <3> HIDE DEF escaped
    <3>1. Folded(ref) = [ref EXCEPT !.name = lower]
      BY <1>5 DEF Folded
    <3> HIDE DEF lower
    <3> QED
      BY <1>1, <1>5, <3>1 DEF Ref
  <2> HIDE DEF escaped, lower
  <2>4. CASE url = Url("files.pythonhosted.org", "wheel", escaped, ref.version)
    <3>1. Takes(Row2, url) /\ ~Takes(Row1, url) /\ RefOf(Row2, url) = Folded(ref)
      BY <1>1, <1>2, <1>5, <2>2, <2>3, <2>4 DEF Takes, Url, Row1, Row2, Row, RefOf
    <3>2. Match(cfg, url) = RefOf(Matchers(cfg)[2], url)
      BY <3>1, MatchersStart, FirstTakes
    <3> QED
      BY <3>1, <3>2, MatchersStart
  <2>5. ASSUME NEW n \in {ref.name, escaped},
               url = Url("files.pythonhosted.org", "sdist", n, ref.version)
        PROVE  Match(cfg, url) = Folded(ref)
    <3>1. Takes(Row3, url) /\ ~Takes(Row2, url) /\ ~Takes(Row1, url)
          /\ RefOf(Row3, url) = Folded(ref)
      BY <1>1, <1>2, <1>5, <2>2, <2>3, <2>5 DEF Takes, Url, Row1, Row2, Row3, Row, RefOf
    <3>2. Match(cfg, url) = RefOf(Matchers(cfg)[3], url)
      BY <3>1, MatchersStart, FirstTakes
    <3> QED
      BY <3>1, <3>2, MatchersStart
  <2> QED
    BY <1>5, <2>4, <2>5 DEF Downloads, escaped
<1>6. CASE ref.eco = "crates"
  <2>1. CASE url = Url("crates.io", "crate api", ref.name, ref.version)
    <3>1. /\ Takes(Row4, url) /\ ~Takes(Row3, url) /\ ~Takes(Row2, url) /\ ~Takes(Row1, url)
          /\ RefOf(Row4, url) = ref
      BY <1>1, <1>2, <1>6, <2>1 DEF Takes, Url, Row1, Row2, Row3, Row4, Row, RefOf
    <3>2. Match(cfg, url) = RefOf(Matchers(cfg)[4], url)
      BY <3>1, MatchersStart, FirstTakes
    <3> QED
      BY <1>3, <1>6, <3>1, <3>2, MatchersStart
  <2>2. CASE url = Url("static.crates.io", "crate file", ref.name, ref.version)
    <3>1. /\ Takes(Row5, url) /\ ~Takes(Row4, url) /\ ~Takes(Row3, url) /\ ~Takes(Row2, url)
          /\ ~Takes(Row1, url) /\ RefOf(Row5, url) = ref
      BY <1>1, <1>2, <1>6, <2>2 DEF Takes, Url, Row1, Row2, Row3, Row4, Row5, Row, RefOf
    <3>2. Match(cfg, url) = RefOf(Matchers(cfg)[5], url)
      BY <3>1, MatchersStart, FirstTakes
    <3> QED
      BY <1>3, <1>6, <3>1, <3>2, MatchersStart
  <2> QED
    BY <1>6, <2>1, <2>2 DEF Downloads
<1> QED
  BY <1>1, <1>4, <1>5, <1>6

\* A parser finds every package that its lockfile pins in a plain way.
LEMMA PlainFound ==
  ASSUME NEW lf \in Lockfiles, NEW pin \in Plainly(lf), pin.version \in Triple
  PROVE  Released(pin) /\ \E i \in DOMAIN Parse(lf) : Parse(lf)[i] = Folded(pin)
<1> DEFINE lines == lf.lines
           At(kind) == {i \in DOMAIN lines : /\ lines[i].kind = kind /\ Complete(lines[i])
                                             /\ lines[i].real = lines[i].name}
<1>1. /\ lf.format \in {"package-lock.json", "requirements.txt", "Cargo.lock"}
      /\ Len(lines) \in Nat /\ DOMAIN lines = 1 .. Len(lines)
      /\ \A i \in DOMAIN lines : lines[i] \in LockLines
  <2>1. lf.format \in {"package-lock.json", "requirements.txt", "Cargo.lock"} /\ lines \in Seq(LockLines)
    BY ScanAssumption
  <2> HIDE DEF lines
  <2> QED
    BY <2>1, LenProperties, ElementOfSeq
<1>2. \A i \in DOMAIN lines : lines[i].name \in NameType(BOOLEAN)
  BY <1>1 DEF LockLines
<1>3. CASE lf.format = "package-lock.json"
  <2> DEFINE packages == Entries(lines, "package")
             dependencies == Entries(lines, "dependency")
  <2>1. PICK i \in IF \E j \in DOMAIN lines : lines[j].kind = "package"
                   THEN At("package") ELSE At("dependency") :
               pin = Ref("npm", lines[i].name, lines[i].version)
    BY <1>3 DEF Plainly
  <2>2. i \in DOMAIN lines /\ i \in IF packages # {} THEN packages ELSE dependencies
    <3> HIDE DEF lines
    <3> QED
      BY <2>1 DEF Entries
  <2>3. Parse(lf) = [j \in IF packages # {} THEN packages ELSE dependencies |->
                       Ref("npm", lines[j].name, lines[j].version)]
    BY <1>3 DEF Parse, ParseNpm
  <2> HIDE DEF packages, dependencies, lines, At
  <2>4. i \in DOMAIN Parse(lf) /\ Parse(lf)[i] = pin
    BY <2>1, <2>2, <2>3
  <2>5. pin.eco = "npm" /\ Released(pin) /\ Folded(pin) = pin
    BY <1>2, <2>1, <2>2 DEF Ref, Released, Folded
  <2> QED
    BY <2>4, <2>5
<1>4. CASE lf.format = "requirements.txt"
  <2>1. PICK i \in {i \in At("pin") : lines[i].name.sep # "_"} :
               pin = Ref("pypi", lines[i].name, lines[i].version)
    BY <1>4 DEF Plainly
  <2>2. i \in DOMAIN lines /\ i \in Entries(lines, "pin") /\ lines[i].name.sep # "_"
    <3> HIDE DEF lines
    <3> QED
      BY <2>1 DEF Entries
  <2>3. Parse(lf) = [j \in Entries(lines, "pin") |-> Ref("pypi", Lower(lines[j].name), lines[j].version)]
    BY <1>4 DEF Parse, ParseRequirements
  <2> HIDE DEF lines, At
  <2>4. i \in DOMAIN Parse(lf) /\ Parse(lf)[i] = Ref("pypi", Lower(lines[i].name), lines[i].version)
    BY <2>2, <2>3
  <2>5. Released(pin) /\ Folded(pin) = Ref("pypi", Lower(lines[i].name), lines[i].version)
    BY <1>2, <2>1, <2>2 DEF Ref, Released, Folded
  <2> QED
    BY <2>4, <2>5
<1>5. CASE lf.format = "Cargo.lock"
  <2>1. PICK n \in DOMAIN lines, v \in DOMAIN lines :
          /\ lines[n].name # NoName /\ lines[v].version # ""
          /\ \E h \in Packages(lines) : /\ Of(lines, h, "name") = {n}
                                        /\ Of(lines, h, "version") = {v}
          /\ pin = Ref("crates", lines[n].name, lines[v].version)
    <3>1. PICK p \in (DOMAIN lines) \X (DOMAIN lines) :
            /\ lines[p[1]].name # NoName /\ lines[p[2]].version # ""
            /\ \E h \in Packages(lines) : /\ Table(lines, h) = Block(lines, h)
                                          /\ Of(lines, h, "name") = {p[1]}
                                          /\ Of(lines, h, "version") = {p[2]}
            /\ pin = Ref("crates", lines[p[1]].name, lines[p[2]].version)
      BY <1>5 DEF Plainly
    <3> HIDE DEF lines
    <3>2. p[1] \in DOMAIN lines /\ p[2] \in DOMAIN lines
      OBVIOUS
    <3> QED
      BY <3>1, <3>2
  <2>2. PICK h \in Packages(lines) : Of(lines, h, "name") = {n} /\ Of(lines, h, "version") = {v}
    BY <2>1
  <2>3. Parse(lf) = [k \in Saved(lines) |->
                       Ref("crates", Collected(lines, k).name, Collected(lines, k).version)]
    BY <1>5 DEF Parse, ParseCargo
  <2> HIDE DEF lines, At
  <2>4. n \in Int /\ v \in Int
    BY <1>1
  <2>5. Max({n}) = n /\ Max({v}) = v
    BY <2>4 DEF Max
  <2>6. Collected(lines, h).name = lines[n].name /\ Collected(lines, h).version = lines[v].version
    BY <2>2, <2>5 DEF Collected
  <2>7. HasPackage(lines, h)
    <3>1. n \in Of(lines, h, "name") /\ v \in Of(lines, h, "version")
      BY <2>2
    <3>2. Complete(Collected(lines, h))
      BY <2>1, <2>6 DEF Complete
    <3> QED
      BY <3>1, <3>2 DEF HasPackage
  <2>8. h \in Saved(lines)
    BY <2>7 DEF Saved
  <2>9. h \in DOMAIN Parse(lf) /\ Parse(lf)[h] = pin
    BY <2>1, <2>3, <2>6, <2>8
  <2>10. pin.eco = "crates" /\ Released(pin) /\ Folded(pin) = pin
    BY <1>2, <2>1 DEF Ref, Released, Folded
  <2> QED
    BY <2>9, <2>10
<1> QED
  BY <1>1, <1>3, <1>4, <1>5

\* Whatever lines a lockfile has, and in whatever order a map is iterated, a scan
\* that ends with 0 asked about every plain pin under the reference that the Go
\* proxy would ask about, and none was blocked; in strict mode each was allowed
\* without a warning or an error.
THEOREM ScanTellsAll == FrontSpec => []ScanTells
<1>1. ScanInv => ScanTells
  <2> SUFFICES ASSUME ScanInv, exit = "0", NEW pin \in Plainly(lockfile), pin.version \in Triple,
                      NEW cfg \in MatcherConfigs, NEW url \in Downloads(pin)
               PROVE  Passes(Match(cfg, url))
    BY DEF ScanTells
  <2> DEFINE ref == Match(cfg, url)
  <2>1. PICK i \in DOMAIN Parse(lockfile) : Parse(lockfile)[i] = ref
    <3>1. lockfile \in Lockfiles
      BY DEF ScanInv
    <3>2. Released(pin) /\ \E i \in DOMAIN Parse(lockfile) : Parse(lockfile)[i] = Folded(pin)
      BY <3>1, PlainFound
    <3>3. ref = Folded(pin)
      BY <3>2, Recognized
    <3> QED
      BY <3>2, <3>3
  <2> HIDE DEF ref
  <2>2. PICK a \in ScanActions \cup {"error"} : <<ref, a>> \in said
    <3>1. PICK e \in said : e[1] = ref
      BY <2>1 DEF ScanInv
    <3>2. e = <<ref, e[2]>> /\ e[2] \in ScanActions \cup {"error"}
      BY <3>1 DEF ScanInv
    <3> QED
      BY <3>1, <3>2
  <2>3. ASSUME NEW b \in ScanActions \cup {"error"}, <<ref, b>> \in said
        PROVE  b \in IF sconfig.strict THEN {"allow"} ELSE {"allow", "warn", "error"}
    <3>1. <<ref, Judged(b)>> \in records /\ <<ref, Judged(b)>>[2] = Judged(b)
      BY <2>3 DEF ScanInv
    <3>2. Judged(b) # "block"
      BY <3>1 DEF ScanInv
    <3> QED
      BY <3>2 DEF Judged, ScanActions
  <2>4. Passes(ref)
    BY <2>2, <2>3 DEF Passes, Verdicts
  <2> QED
    BY <2>4 DEF ref
<1> QED
  BY <1>1, ScanAlways, PTL

\* What the Rust proxy asks about a download that both proxies recognize is what
\* the Go proxy asks about the same URL, for every registry configuration and
\* every URL.
THEOREM OneQuestion == FrontSpec => []SameQuestion
<1>1. ASSUME NEW t \in Tasks, ReadByBoth(input[t].url), NEW cfg \in MatcherConfigs
      PROVE  Match(cfg, input[t].url) = RefOfTask(t) /\ RefOfTask(t).eco \in {"npm", "pypi"}
  <2> DEFINE url == input[t].url
  <2>1. RefOfTask(t) = Extract(url)
    BY DEF RefOfTask
  <2> HIDE DEF url
  <2>2. CASE url.host = "registry.npmjs.org" /\ url.shape = "tarball" /\ url.version \in Triple
    <3>1. Takes(Row1, url) /\ RefOf(Row1, url) = Ref("npm", url.name, url.version)
      BY <2>2 DEF Takes, Row1, Row, RefOf
    <3>2. Match(cfg, url) = RefOf(Row1, url)
      BY <3>1, MatchersStart, FirstTakes
    <3>3. Extract(url) = Ref("npm", url.name, url.version)
      BY <2>2 DEF Extract, RegistryHosts, ExtractNpm
    <3> QED
      BY <2>1, <3>1, <3>2, <3>3 DEF url, Ref
  <2>3. CASE url.host = "files.pythonhosted.org" /\ url.shape = "wheel" /\ url.version \in Versions
    <3>1. Takes(Row2, url) /\ ~Takes(Row1, url) /\ RefOf(Row2, url) = Ref("pypi", Normal(url.name), url.version)
      BY <2>3 DEF Takes, Row1, Row2, Row, RefOf
    <3>2. Match(cfg, url) = RefOf(Row2, url)
      BY <3>1, MatchersStart, FirstTakes
    <3>3. Extract(url) = Ref("pypi", Normal(url.name), url.version)
      BY <2>3 DEF Extract, ExtractPypi
    <3> QED
      BY <2>1, <3>1, <3>2, <3>3 DEF url, Ref
  <2>4. CASE /\ url.host = "files.pythonhosted.org" /\ url.shape = "sdist"
             /\ url.version \in Dotted /\ url.name.sep # "-"
    <3>1. /\ Takes(Row3, url) /\ ~Takes(Row2, url) /\ ~Takes(Row1, url)
          /\ RefOf(Row3, url) = Ref("pypi", Normal(url.name), url.version)
      BY <2>4 DEF Takes, Row1, Row2, Row3, Row, RefOf
    <3>2. Match(cfg, url) = RefOf(Row3, url)
      BY <3>1, MatchersStart, FirstTakes
    <3>3. Extract(url) = Ref("pypi", Normal(url.name), url.version)
      BY <2>4 DEF Extract, ExtractPypi
    <3> QED
      BY <2>1, <3>1, <3>2, <3>3 DEF url, Ref
  <2> QED
    BY <1>1, <2>2, <2>3, <2>4 DEF ReadByBoth, url
<1>2. NoRef.eco = ""
  BY DEF NoRef, Ref
<1>3. ASSUME RustInv PROVE SameQuestion
  <2> SUFFICES ASSUME NEW t \in Tasks, ~input[t].connect, ReadByBoth(input[t].url),
                      NEW cfg \in MatcherConfigs
               PROVE  /\ RefOfTask(t) = Match(cfg, input[t].url)
                      /\ task[t] \in {"refused", "passed"} =>
                           <<t, Match(cfg, input[t].url), action[t]>> \in entries
    BY DEF SameQuestion
  <2>1. Match(cfg, input[t].url) = RefOfTask(t) /\ Intercepted(t)
    BY <1>1, <1>2 DEF Intercepted
  <2> QED
    BY <1>3, <2>1 DEF RustInv, Reported, Answered
<1> QED
  BY <1>3, RustAlways, PTL
=============================================================================
