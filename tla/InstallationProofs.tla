-------------------------- MODULE InstallationProofs ------------------------
(***************************************************************************)
(* The commands together use the CA as CAStore says, account for the       *)
(* bootstrap token, keep in agent.toml what the user configured, and bake  *)
(* and enforce it, for any set of processes, number of package managers    *)
(* and of commands.                                                        *)
(***************************************************************************)
EXTENDS Installation, TLAPS, SequenceTheorems, WellFoundedInduction

(* The CA store on its own. *)

\* Which files are there: the certificate is created first, neither is ever
\* removed, and a process past GenerateCA has seen both.
FilesThere ==
  /\ caKey # Absent => cert # Absent
  /\ trusted # 0 => caKey # Absent
  /\ \A p \in Procs :
       /\ caPc[p] \in {"writeCert", "createKey", "writeKey"} => cert # Absent
       /\ caPc[p] \in {"writeKey", "load", "loaded", "failed"} => caKey # Absent
       /\ caPc[p] \in Writing => pair[p] > 0

\* Without a race, a process that generates is alone, has not yet shown its
\* certificate to anyone, and the key file is the last it creates.
AloneWriting ==
  ~raced => \A p \in Procs : caPc[p] \in Writing =>
    /\ \A q \in Procs \ {p} : caPc[q] = "idle"
    /\ trusted = 0
    /\ caPc[p] # "writeKey" => caKey = Absent
    /\ caPc[p] \in {"createKey", "writeKey"} => cert = pair[p]

\* Without a race, between two generations there is no key file, or the pair is
\* usable, or someone died with the key file empty.
SettledBetween ==
  ~raced /\ (\A p \in Procs : caPc[p] \notin Writing) => caKey = Absent \/ Usable \/ torn

\* Without a race, the trust store has the certificate on disk.
TrustedOnDisk == ~raced => trusted \in {0, cert}

CAInv == /\ CATypeOK /\ FilesThere /\ AloneWriting /\ SettledBetween /\ TrustedOnDisk
         /\ CAFailureExplained /\ ServedIsTrusted

LEMMA CAInitInv == CAInit => CAInv
<1> SUFFICES ASSUME CAInit PROVE CAInv
  OBVIOUS
<1> USE DEF CAInit
<1>1. CATypeOK
  <2>1. cert \in Absent .. generated /\ caKey \in Absent .. generated /\ trusted \in 0 .. generated
    BY DEF Absent
  <2>2. pair \in [Procs -> 0 .. generated] /\ generated \in Nat
    OBVIOUS
  <2> QED
    BY <2>1, <2>2 DEF CATypeOK
<1>2. FilesThere /\ AloneWriting /\ SettledBetween /\ TrustedOnDisk
  BY DEF FilesThere, AloneWriting, SettledBetween, TrustedOnDisk, Absent, Writing
<1>3. CAFailureExplained /\ ServedIsTrusted
  BY DEF CAFailureExplained, ServedIsTrusted
<1> QED
  BY <1>1, <1>2, <1>3 DEF CAInv

LEMMA CATypeStep == CATypeOK /\ [CANext]_caVars => CATypeOK'
<1> SUFFICES ASSUME CATypeOK, [CANext]_caVars PROVE CATypeOK'
  OBVIOUS
<1> USE DEF CATypeOK, Absent, Empty, Writing, CAGoes, caFiles
<1>1. ASSUME NEW p \in Procs, StatCA(p) PROVE CATypeOK'
  BY <1>1 DEF StatCA
<1>2. ASSUME NEW p \in Procs, CreateCert(p) PROVE CATypeOK'
  BY <1>2 DEF CreateCert
<1>3. ASSUME NEW p \in Procs, WriteCert(p) PROVE CATypeOK'
  BY <1>3 DEF WriteCert
<1>4. ASSUME NEW p \in Procs, CreateKey(p) PROVE CATypeOK'
  BY <1>4 DEF CreateKey
<1>5. ASSUME NEW p \in Procs, WriteKey(p) PROVE CATypeOK'
  BY <1>5 DEF WriteKey
<1>6. ASSUME NEW p \in Procs, LoadCA(p) PROVE CATypeOK'
  BY <1>6 DEF LoadCA, Usable
<1>7. ASSUME NEW p \in Procs, InjectCA(p) PROVE CATypeOK'
  BY <1>7 DEF InjectCA
<1>8. ASSUME NEW p \in Procs, LeaveCA(p) PROVE CATypeOK'
  BY <1>8 DEF LeaveCA
<1>9. CASE UNCHANGED caVars
  BY <1>9 DEF caVars
<1> QED
  BY <1>1, <1>2, <1>3, <1>4, <1>5, <1>6, <1>7, <1>8, <1>9 DEF CANext, CAStep

LEMMA CAInvStep == CAInv /\ [CANext]_caVars => CAInv'
<1> SUFFICES ASSUME CAInv, [CANext]_caVars PROVE CAInv'
  OBVIOUS
<1>0. CATypeOK /\ CATypeOK'
  BY CATypeStep DEF CAInv
<1> USE <1>0 DEF CAInv, CATypeOK, FilesThere, AloneWriting, SettledBetween, TrustedOnDisk,
              CAFailureExplained, ServedIsTrusted, Usable, Absent, Empty, Writing, CAGoes, caFiles
<1>1. ASSUME NEW p \in Procs, StatCA(p) PROVE CAInv'
  <2>1. /\ ~raced' => ~raced /\ \A q \in Procs : caPc[q] \notin Writing
        /\ UNCHANGED <<cert, caKey, trusted, torn>>
    BY <1>1 DEF StatCA
  <2>2. CASE Missing
    <3>1. /\ caKey = Absent /\ trusted = 0
          /\ generated' = generated + 1 /\ pair' = [pair EXCEPT ![p] = generated']
          /\ caPc' = [caPc EXCEPT ![p] = "createCert"]
      BY <1>1, <2>2 DEF StatCA, Missing
    <3>2. ~raced' => \A q \in Procs : caPc[q] = "idle"
      BY <2>1, <3>1
    <3>3. FilesThere'
      BY <2>1, <3>1
    <3>4. AloneWriting' /\ SettledBetween' /\ TrustedOnDisk'
      BY <2>1, <3>1, <3>2
    <3>5. CAFailureExplained' /\ ServedIsTrusted'
      BY <1>1, <2>1, <3>1 DEF StatCA
    <3> QED
      BY <3>3, <3>4, <3>5
  <2>3. CASE ~Missing
    <3>1. /\ cert # Absent /\ caKey # Absent
          /\ caPc' = [caPc EXCEPT ![p] = "load"] /\ UNCHANGED <<generated, pair>>
      BY <1>1, <2>3 DEF StatCA, Missing
    <3>2. FilesThere'
      BY <2>1, <3>1
    <3>3. AloneWriting' /\ SettledBetween' /\ TrustedOnDisk'
      BY <2>1, <3>1
    <3>4. CAFailureExplained' /\ ServedIsTrusted'
      BY <1>1, <2>1, <3>1 DEF StatCA
    <3> QED
      BY <3>2, <3>3, <3>4
  <2> QED
    BY <2>2, <2>3
<1>2. ASSUME NEW p \in Procs, CreateCert(p) PROVE CAInv'
  BY <1>2 DEF CreateCert
<1>3. ASSUME NEW p \in Procs, WriteCert(p) PROVE CAInv'
  BY <1>3 DEF WriteCert
<1>4. ASSUME NEW p \in Procs, CreateKey(p) PROVE CAInv'
  BY <1>4 DEF CreateKey
<1>5. ASSUME NEW p \in Procs, WriteKey(p) PROVE CAInv'
  BY <1>5 DEF WriteKey
<1>6. ASSUME NEW p \in Procs, LoadCA(p) PROVE CAInv'
  BY <1>6 DEF LoadCA
<1>7. ASSUME NEW p \in Procs, InjectCA(p) PROVE CAInv'
  BY <1>7 DEF InjectCA
<1>8. ASSUME NEW p \in Procs, LeaveCA(p) PROVE CAInv'
  <2> USE <1>8 DEF LeaveCA
  <2>1. FilesThere'
    OBVIOUS
  <2>2. AloneWriting'
    OBVIOUS
  <2>3. SettledBetween'
    OBVIOUS
  <2>4. TrustedOnDisk' /\ CAFailureExplained' /\ ServedIsTrusted'
    OBVIOUS
  <2> QED
    BY <2>1, <2>2, <2>3, <2>4
<1>9. CASE UNCHANGED caVars
  BY <1>9 DEF caVars
<1> QED
  BY <1>1, <1>2, <1>3, <1>4, <1>5, <1>6, <1>7, <1>8, <1>9 DEF CANext, CAStep

\* Type correctness of the CA store, with the invariant that gives the rest.
THEOREM CAStoreInvariant == CASpec => []CAInv
<1>1. CAInit => CAInv
  BY CAInitInv
<1>2. CAInv /\ [CANext]_caVars => CAInv'
  BY CAInvStep
<1> QED
  BY <1>1, <1>2, PTL DEF CASpec

----------------------------------------------------------------------------
(* The installation implements CAStore: what the commands do beside the CA *)
(* leaves it alone.                                                        *)

LEMMA InstallStepsCA == [Next]_vars => [CANext]_caVars
<1> SUFFICES ASSUME [Next]_vars PROVE [CANext]_caVars
  OBVIOUS
<1>1. ASSUME NEW p \in Procs, NEW c \in Commands, Start(p, c) PROVE UNCHANGED caVars
  BY <1>1 DEF Start
<1>2. ASSUME NEW p \in Procs, InitCmd(p) PROVE [CANext]_caVars
  <2>1. CASE InitHasCA(p) \/ InitEnds(p)
    BY <2>1 DEF InitHasCA, InitEnds, Ends, CANext
  <2>2. CASE InitStat(p) \/ InitWrite(p) \/ WriteBridge(p) \/ CreateShim(p) \/ WriteShim(p)
    BY <2>2 DEF InitStat, InitWrite, WriteBridge, CreateShim, WriteShim
  <2> QED
    BY <1>2, <2>1, <2>2 DEF InitCmd
<1>3. ASSUME NEW p \in Procs, Enroll(p) PROVE [CANext]_caVars
  <2>1. CASE KeyRejected(p) \/ TokenFails(p) \/ EnrollWrite(p)
    BY <2>1 DEF KeyRejected, TokenFails, EnrollWrite, Fails, Ends, CANext
  <2>2. CASE KeyAccepted(p) \/ KeyUnverified(p) \/ TokenAccepted(p) \/ ReadToml(p)
    BY <2>2 DEF KeyAccepted, KeyUnverified, TokenAccepted, ReadToml, Answered
  <2> QED
    BY <1>3, <2>1, <2>2 DEF Enroll
<1>4. ASSUME NEW p \in Procs, Server(p) PROVE [CANext]_caVars
  BY <1>4 DEF Server, Serve, Outage, CANext
<1>5. ASSUME NEW p \in Procs, UseCA(p) \/ CAFails(p) \/ Dies(p) PROVE [CANext]_caVars
  BY <1>5 DEF UseCA, CAFails, Dies, Ends, CANext
<1>6. ASSUME NEW p \in Procs, Bridge(p) \/ Truncate(p) PROVE UNCHANGED caVars
  BY <1>6 DEF Bridge, Truncate
<1>7. ASSUME NEW mode \in {"open", "closed"}, EditMode(mode) PROVE UNCHANGED caVars
  BY <1>7 DEF EditMode
<1>8. CASE UNCHANGED vars
  BY <1>8 DEF vars
<1> QED
  BY <1>1, <1>2, <1>3, <1>4, <1>5, <1>6, <1>7, <1>8 DEF Next

\* The installation implements the CA store: every step of a command is a step
\* of EnsureCA, an injection, the end of a process, or none of its business.
THEOREM InstallImplementsCA == Spec => CASpec
<1>1. Init => CAInit
  BY DEF Init
<1> QED
  BY <1>1, InstallStepsCA, PTL DEF Spec, CASpec

\* EnsureCA fails on the pair it finds only after a process ended with the key
\* file empty, or after two generated at once.
THEOREM CAFailureHasCause == Spec => []CAFailureExplained
BY InstallImplementsCA, CAStoreInvariant, PTL DEF CAInv

\* Without such a race the CA a server holds is the one on disk and the one in
\* the trust store.
THEOREM ServedCATrusted == Spec => []ServedIsTrusted
BY InstallImplementsCA, CAStoreInvariant, PTL DEF CAInv

----------------------------------------------------------------------------
(* The bootstrap token.                                                    *)

(* A step either ends no flight, or says at once what became of the key.   *)

TokenInv == /\ DOMAIN cmd = Procs /\ DOMAIN pc = Procs /\ DOMAIN key = Procs
            /\ issued \in BOOLEAN
            /\ IssuedKeyKept

LEMMA TokenInit == Init => TokenInv
BY DEF Init, TokenInv, IssuedKeyKept

\* A step that keeps the key, what became of it and the flight of every process
\* keeps the account.
LEMMA TokenKept ==
  ASSUME IssuedKeyKept, issued' => issued,
         tokenSaved => tokenSaved', tokenReported => tokenReported',
         \A p \in Procs : InFlight(p) => InFlight(p)'
  PROVE  IssuedKeyKept'
BY DEF IssuedKeyKept

\* What a process does outside its flight is no other process's flight.
LEMMA OthersFly ==
  ASSUME DOMAIN cmd = Procs, DOMAIN pc = Procs, DOMAIN key = Procs, NEW p \in Procs, ~InFlight(p),
         NEW s, NEW c, NEW k, pc' = [pc EXCEPT ![p] = s], cmd' = cmd \/ cmd' = [cmd EXCEPT ![p] = c],
         key' = key \/ key' = [key EXCEPT ![p] = k]
  PROVE  /\ DOMAIN cmd' = Procs /\ DOMAIN pc' = Procs /\ DOMAIN key' = Procs
         /\ \A q \in Procs : InFlight(q) => InFlight(q)'
BY DEF InFlight, Redeemed

\* The end of a process that is not in flight.
LEMMA EndsOutside ==
  ASSUME TokenInv, NEW p \in Procs, ~InFlight(p), Ends(p), issued' = issued,
         tokenSaved => tokenSaved', tokenReported => tokenReported'
  PROVE  TokenInv'
BY OthersFly, TokenKept DEF TokenInv, Ends

\* A step of a process that stays in its command, outside its flight.
LEMMA GoesOutside ==
  ASSUME TokenInv, NEW p \in Procs, ~InFlight(p), NEW s, NEW k,
         pc' = [pc EXCEPT ![p] = s], cmd' = cmd, key' = key \/ key' = [key EXCEPT ![p] = k],
         issued' = issued, tokenSaved' = tokenSaved, tokenReported' = tokenReported
  PROVE  TokenInv'
BY OthersFly, TokenKept DEF TokenInv

\* A step of a process within its flight, or outside of it.
LEMMA FliesOn ==
  ASSUME TokenInv, NEW p \in Procs, NEW s, pc' = [pc EXCEPT ![p] = s], UNCHANGED <<cmd, key>>,
         pc[p] \in {"read", "truncate"}, s \in {"truncate", "write"},
         issued' = issued, tokenSaved' = tokenSaved, tokenReported' = tokenReported
  PROVE  TokenInv'
<1>1. \A q \in Procs : InFlight(q) => InFlight(q)'
  BY DEF InFlight, Redeemed, TokenInv
<1> QED
  BY <1>1, TokenKept DEF TokenInv

\* A step that moves no process.
LEMMA Stays ==
  ASSUME TokenInv, pc' = pc, cmd' = cmd, key' = key, issued' = issued,
         tokenSaved' = tokenSaved, tokenReported' = tokenReported
  PROVE  TokenInv'
BY TokenKept DEF TokenInv, InFlight, Redeemed

LEMMA TokenStep == TokenInv /\ [Next]_vars => TokenInv'
<1> SUFFICES ASSUME TokenInv, [Next]_vars PROVE TokenInv'
  OBVIOUS
<1>1. ASSUME NEW p \in Procs, NEW c \in Commands, Start(p, c) PROVE TokenInv'
  <2>1. ~InFlight(p)
    BY <1>1 DEF Start, Goes, InFlight, Redeemed
  <2>2. /\ pc' = [pc EXCEPT ![p] = FirstStep(c)] /\ cmd' = [cmd EXCEPT ![p] = c]
        /\ UNCHANGED <<key, issued, tokenSaved, tokenReported>>
    BY <1>1 DEF Start, Goes, locals, tokenHistory
  <2> QED
    BY <2>1, <2>2, OthersFly, TokenKept DEF TokenInv
<1>2. ASSUME NEW p \in Procs, InitCmd(p) PROVE TokenInv'
  <2>1. CASE InitStat(p) \/ InitHasCA(p) \/ WriteBridge(p) \/ CreateShim(p) \/ WriteShim(p)
    <3>1. ~InFlight(p)
      BY <2>1 DEF InitStat, InitHasCA, WriteBridge, CreateShim, WriteShim, Goes, InFlight, Redeemed
    <3>2. \E s : pc' = [pc EXCEPT ![p] = s]
      BY <2>1 DEF InitStat, InitHasCA, WriteBridge, CreateShim, WriteShim, Goes
    <3>3. UNCHANGED <<cmd, key, issued, tokenSaved, tokenReported>>
      BY <2>1 DEF InitStat, InitHasCA, WriteBridge, CreateShim, WriteShim, locals, history,
                  tokenHistory
    <3> QED
      BY <3>1, <3>2, <3>3, GoesOutside
  <2>2. CASE InitWrite(p)
    <3>1. ~InFlight(p)
      BY <2>2 DEF InitWrite, InFlight, Redeemed
    <3> QED
      BY <2>2, <3>1, GoesOutside DEF InitWrite, Written, Goes
  <2>3. CASE InitEnds(p)
    <3>1. ~InFlight(p)
      BY <2>3 DEF InitEnds, InFlight, Redeemed
    <3> QED
      BY <2>3, <3>1, EndsOutside DEF InitEnds, tokenHistory
  <2> QED
    BY <1>2, <2>1, <2>2, <2>3 DEF InitCmd
<1>3. ASSUME NEW p \in Procs, Enroll(p) PROVE TokenInv'
  <2>1. CASE KeyAccepted(p) \/ KeyUnverified(p)
    <3>1. ~InFlight(p)
      BY <2>1 DEF KeyAccepted, KeyUnverified, InFlight, Redeemed
    <3> QED
      BY <2>1, <3>1, GoesOutside DEF KeyAccepted, KeyUnverified, Answered, Goes
  <2>2. CASE KeyRejected(p)
    <3>1. ~InFlight(p)
      BY <2>2 DEF KeyRejected, InFlight, Redeemed
    <3> QED
      BY <2>2, <3>1, EndsOutside DEF KeyRejected, Fails
  <2>3. CASE TokenAccepted(p)
    <3>1. PICK k \in {"device", ""} : Answered(p, k) /\ issued' = (k # "")
      BY <2>3 DEF TokenAccepted
    <3>2. /\ cmd[p].name = "token" /\ cmd' = cmd /\ pc[p] = "ask"
          /\ pc' = [pc EXCEPT ![p] = "read"] /\ key' = [key EXCEPT ![p] = k]
          /\ UNCHANGED <<tokenSaved, tokenReported>>
      BY <2>3, <3>1 DEF TokenAccepted, Answered, Goes
    <3>3. issued' => InFlight(p)'
      BY <3>1, <3>2 DEF InFlight, Redeemed, TokenInv
    <3> QED
      BY <3>1, <3>2, <3>3 DEF TokenInv, IssuedKeyKept
  <2>4. CASE TokenFails(p)
    <3>1. issued' \in BOOLEAN /\ tokenReported'
      BY <2>4 DEF TokenFails
    <3>2. DOMAIN cmd' = Procs /\ DOMAIN pc' = Procs /\ DOMAIN key' = Procs
      BY <2>4 DEF TokenFails, Fails, Ends, TokenInv
    <3> QED
      BY <3>1, <3>2 DEF TokenInv, IssuedKeyKept
  <2>5. CASE ReadToml(p)
    BY <2>5, FliesOn DEF ReadToml, Goes, tokenHistory
  <2>6. CASE EnrollWrite(p)
    <3>1. /\ DOMAIN cmd' = Procs /\ DOMAIN pc' = Procs /\ DOMAIN key' = Procs
          /\ issued' = issued /\ tokenReported' = tokenReported
          /\ tokenSaved' <=> tokenSaved \/ InFlight(p)
      BY <2>6 DEF EnrollWrite, Written, Ends, TokenInv
    <3>2. CASE InFlight(p)
      BY <3>1, <3>2 DEF TokenInv, IssuedKeyKept
    <3>3. CASE ~InFlight(p)
      BY <2>6, <3>1, <3>3, EndsOutside DEF EnrollWrite
    <3> QED
      BY <3>2, <3>3
  <2> QED
    BY <1>3, <2>1, <2>2, <2>3, <2>4, <2>5, <2>6 DEF Enroll
<1>4. ASSUME NEW p \in Procs, Serve(p) PROVE TokenInv'
  <2>1. ~InFlight(p)
    BY <1>4 DEF Serve, Goes, InFlight, Redeemed
  <2>2. pc' = [pc EXCEPT ![p] = "serving"] /\ UNCHANGED <<cmd, key, tokenHistory>>
    BY <1>4 DEF Serve, Goes, locals, history
  <2> QED
    BY <2>1, <2>2, GoesOutside DEF tokenHistory
<1>5. ASSUME NEW p \in Procs, CAFails(p) PROVE TokenInv'
  <2>1. ~InFlight(p)
    BY <1>5 DEF CAFails, InFlight, Redeemed
  <2> QED
    BY <1>5, <2>1, EndsOutside DEF CAFails, history, tokenHistory
<1>6. ASSUME NEW p \in Procs, Dies(p) PROVE TokenInv'
  <2>1. CASE InFlight(p)
    <3>1. issued' = issued /\ tokenReported'
      BY <1>6, <2>1 DEF Dies, InFlight
    <3>2. DOMAIN cmd' = Procs /\ DOMAIN pc' = Procs /\ DOMAIN key' = Procs
      BY <1>6 DEF Dies, Ends, TokenInv
    <3> QED
      BY <3>1, <3>2 DEF TokenInv, IssuedKeyKept
  <2>2. CASE ~InFlight(p)
    BY <1>6, <2>2, EndsOutside DEF Dies
  <2> QED
    BY <2>1, <2>2
<1>7. ASSUME NEW p \in Procs, Truncate(p) PROVE TokenInv'
  BY <1>7, FliesOn DEF Truncate, Goes, locals, tokenHistory
<1>8. ASSUME NEW p \in Procs, Outage(p) \/ Bridge(p) \/ UseCA(p) PROVE TokenInv'
  BY <1>8, Stays DEF Outage, Bridge, UseCA, process, locals, history, tokenHistory
<1>9. ASSUME NEW mode \in {"open", "closed"}, EditMode(mode) PROVE TokenInv'
  BY <1>9, Stays DEF EditMode, locals, tokenHistory
<1>10. CASE UNCHANGED vars
  BY <1>10, Stays DEF vars, process, locals, history, tokenHistory
<1> QED
  BY <1>1, <1>2, <1>3, <1>4, <1>5, <1>6, <1>7, <1>8, <1>9, <1>10 DEF Next, Server

\* IssuedKeyKept (Installation): a key that the backend has issued for the
\* bootstrap token is saved, about to be saved, or the command did not end as a
\* success, wherever it was interrupted.
THEOREM IssuedKeyAccounted == Spec => []IssuedKeyKept
<1>1. TokenInv => IssuedKeyKept
  BY DEF TokenInv
<1> QED
  BY <1>1, TokenInit, TokenStep, PTL DEF Spec

----------------------------------------------------------------------------
(* The text of agent.toml.                                                 *)

IssuedKeys == {"given", "device"}

\* The values that lines give a key.
Given(s, k) == {s[i].val : i \in {j \in 1 .. Len(s) : s[j].key = k}}

\* A set of naturals has a least element, the one that Min chooses.
LEMMA MinIs ==
  ASSUME NEW T \in SUBSET Nat, T # {}
  PROVE  Min(T) \in T /\ \A n \in T : Min(T) <= n
<1> DEFINE R == {ss \in Nat \X Nat : ss[1] < ss[2]}
<1>1. IsWellFoundedOn(R, Nat)
  BY NatLessThanWellFounded DEF OpToRel
<1>2. PICK m \in T : \A n \in T : ~(<<n, m>> \in R)
  <2> HIDE DEF R
  <2> QED
    BY <1>1, WFMin
<1>3. ASSUME NEW n \in T PROVE m <= n
  <2>1. m \in Nat /\ n \in Nat /\ ~(<<n, m>> \in R)
    BY <1>2
  <2>2. ~(n < m)
    BY <2>1
  <2> QED
    BY <2>1, <2>2
<1> QED
  BY <1>3 DEF Min

\* The first line with a key, or 0.
LEMMA LineOfIs ==
  ASSUME NEW s, Len(s) \in Nat, NEW k
  PROVE  \/ /\ LineOf(s, k) \in 1 .. Len(s) /\ s[LineOf(s, k)].key = k
            /\ \A j \in 1 .. Len(s) : j < LineOf(s, k) => s[j].key # k
         \/ LineOf(s, k) = 0 /\ \A j \in 1 .. Len(s) : s[j].key # k
<1> DEFINE I == {i \in 1 .. Len(s) : s[i].key = k}
<1>1. LineOf(s, k) = IF I # {} THEN Min(I) ELSE 0
  BY DEF LineOf, SelectInSeq
<1>2. I \in SUBSET Nat
  OBVIOUS
<1>3. I # {} => Min(I) \in I /\ \A n \in I : Min(I) <= n
  <2> HIDE DEF I
  <2> QED
    BY <1>2, MinIs
<1>4. CASE I # {}
  <2>1. LineOf(s, k) \in I /\ \A n \in I : LineOf(s, k) <= n
    <3> HIDE DEF I
    <3> QED
      BY <1>1, <1>3, <1>4
  <2>2. ASSUME NEW j \in 1 .. Len(s), j < LineOf(s, k) PROVE s[j].key # k
    <3>1. j \notin I
      <4>1. j \in Nat
        OBVIOUS
      <4> HIDE DEF I
      <4>2. LineOf(s, k) \in Nat
        BY <1>2, <2>1
      <4> QED
        BY <2>1, <2>2, <4>1, <4>2
    <3> QED
      BY <3>1
  <2> QED
    BY <2>1, <2>2
<1>5. CASE I = {}
  <2>1. LineOf(s, k) = 0
    <3> HIDE DEF I
    <3> QED
      BY <1>1, <1>5
  <2> QED
    BY <1>5, <2>1
<1> QED
  BY <1>4, <1>5

\* The nearest header above a line.
LEMMA HeaderIs ==
  ASSUME NEW s, Len(s) \in Nat, NEW i \in 1 .. Len(s)
  PROVE  /\ (\A j \in 1 .. i : s[j].key # "[") => HeaderOver(s, i) = "top level"
         /\ \A j \in 1 .. i : s[j].key = "[" /\ (\A n \in j + 1 .. i : s[n].key # "[")
              => HeaderOver(s, i) = s[j].val
<1> DEFINE I == {j \in 1 .. i : s[j].key = "["}
<1>1. SelectLastInSubSeq(s, 1, i, LAMBDA l : l.key = "[") = IF I # {} THEN Max(I) ELSE 0
  BY DEF SelectLastInSubSeq
<1>2. ASSUME I = {} PROVE HeaderOver(s, i) = "top level"
  BY <1>1, <1>2 DEF HeaderOver
<1>3. ASSUME NEW j \in 1 .. i, s[j].key = "[", \A n \in j + 1 .. i : s[n].key # "["
      PROVE  HeaderOver(s, i) = s[j].val
  <2>1. j \in I /\ \A n \in I : n <= j
    BY <1>3
  <2>2. I \subseteq Nat
    OBVIOUS
  <2>3. Max(I) = j
    <3> HIDE DEF I
    <3>1. Max(I) \in I /\ \A n \in I : Max(I) >= n
      <4>1. \A n \in I : j >= n
        BY <2>1, <2>2
      <4> QED
        BY <2>1, <4>1 DEF Max
    <3>2. Max(I) \in Nat /\ j \in Nat /\ Max(I) >= j /\ Max(I) <= j
      BY <2>1, <2>2, <3>1
    <3> QED
      BY <3>2
  <2>4. SelectLastInSubSeq(s, 1, i, LAMBDA l : l.key = "[") = j /\ j # 0
    <3>1. I # {}
      BY <2>1
    <3> HIDE DEF I
    <3> QED
      BY <1>1, <2>3, <3>1
  <2> QED
    BY <2>4 DEF HeaderOver
<1> QED
  BY <1>2, <1>3

\* A key with one line, in the section it is looked up in.
LEMMA SettingIs ==
  ASSUME NEW s, Len(s) \in Nat, DOMAIN s = 1 .. Len(s), NEW k, NEW sect, NEW v,
         Given(s, k) = {v},
         \A i, j \in 1 .. Len(s) : s[i].key = k /\ s[j].key = k => i = j,
         \A i \in 1 .. Len(s) : s[i].key = k => HeaderOver(s, i) = sect
  PROVE  Setting(s, sect, k) = v
<1> DEFINE rows == {i \in DOMAIN s : s[i].key = k /\ HeaderOver(s, i) = sect}
<1>1. PICK i \in 1 .. Len(s) : s[i].key = k /\ s[i].val = v
  BY DEF Given
<1>2. rows = {i}
  BY <1>1
<1>3. Min({i}) = i
  BY DEF Min
<1> QED
  BY <1>1, <1>2, <1>3 DEF Setting

\* What Load reads of a settled text: the value of the key's line and the mode's.
LEMMA LoadIs ==
  ASSUME NEW s, Settled(s)
  PROVE  /\ \A v : Given(s, "api_key") = {v} => Load(s).key = v
         /\ \A v : Given(s, "mode") = {v} => Load(s).mode = FailMode(v)
         /\ Given(s, "api_key") = {} => Load(s).key = ""
         /\ Given(s, "mode") = {} => Load(s).mode = "open"
<1>0. Len(s) \in Nat /\ DOMAIN s = 1 .. Len(s)
  BY LenProperties DEF Settled
<1>1. \A i \in 1 .. Len(s) : s[i].key = "api_key" => HeaderOver(s, i) = "top level"
  <2> SUFFICES ASSUME NEW i \in 1 .. Len(s), s[i].key = "api_key"
               PROVE  \A j \in 1 .. i : s[j].key # "["
    BY <1>0, HeaderIs
  <2> QED
    BY <1>0 DEF Settled
<1>2. \A i \in 1 .. Len(s) : s[i].key = "mode" => HeaderOver(s, i) = "fail_mode"
  <2> SUFFICES ASSUME NEW i \in 1 .. Len(s), s[i].key = "mode"
               PROVE  HeaderOver(s, i) = "fail_mode"
    OBVIOUS
  <2>1. PICK j \in 1 .. i : s[j] = Section("fail_mode") /\ \A n \in j + 1 .. i : s[n].key # "["
    BY DEF Settled
  <2>2. s[j].key = "[" /\ s[j].val = "fail_mode"
    BY <2>1 DEF Section, Line
  <2> QED
    BY <1>0, <2>1, <2>2, HeaderIs
<1>3. \A i, j \in 1 .. Len(s) :
       /\ s[i].key = "api_key" /\ s[j].key = "api_key" => i = j
       /\ s[i].key = "mode" /\ s[j].key = "mode" => i = j
  BY DEF Settled
<1>4. ASSUME NEW k, NEW sect, Given(s, k) = {} PROVE Setting(s, sect, k) = ""
  <2>1. {i \in DOMAIN s : s[i].key = k /\ HeaderOver(s, i) = sect} = {}
    BY <1>0, <1>4 DEF Given
  <2> QED
    BY <2>1 DEF Setting
<1>5. Load(s).key = Setting(s, "top level", "api_key")
      /\ Load(s).mode = FailMode(Setting(s, "fail_mode", "mode"))
  BY DEF Load
<1>6. FailMode("") = "open"
  BY DEF FailMode
<1>7. ASSUME NEW v, Given(s, "api_key") = {v} PROVE Load(s).key = v
  <2>1. Setting(s, "top level", "api_key") = v
    BY <1>0, <1>1, <1>3, <1>7, SettingIs
  <2> QED
    BY <1>5, <2>1
<1>8. ASSUME NEW v, Given(s, "mode") = {v} PROVE Load(s).mode = FailMode(v)
  <2>1. Setting(s, "fail_mode", "mode") = v
    BY <1>0, <1>2, <1>3, <1>8, SettingIs
  <2> QED
    BY <1>5, <2>1
<1> QED
  BY <1>4, <1>5, <1>6, <1>7, <1>8

(* upsertTOMLLine, line by line. *)

\* The key has a line: that line gets the value.
LEMMA ReplacedIs ==
  ASSUME NEW s, Settled(s), NEW k \in Terms, NEW v \in Terms, LineOf(s, k) # 0
  PROVE  LET t == Upsert(s, k, v)
             n == LineOf(s, k)
         IN  /\ t \in Seq(TomlLine) /\ Len(t) = Len(s) /\ n \in 1 .. Len(s)
             /\ s[n].key = k /\ t[n] = Line(k, v)
             /\ \A i \in 1 .. Len(s) : i # n => t[i] = s[i]
<1>1. Len(s) \in Nat /\ s \in [1 .. Len(s) -> TomlLine]
  BY LenProperties DEF Settled
<1>2. LineOf(s, k) \in 1 .. Len(s) /\ s[LineOf(s, k)].key = k
  BY <1>1, LineOfIs
<1>3. Upsert(s, k, v) = [s EXCEPT ![LineOf(s, k)] = Line(k, v)]
  BY DEF Upsert, ReplaceAt
<1>4. Line(k, v) \in TomlLine
  BY DEF Line, TomlLine
<1> DEFINE t == Upsert(s, k, v)
<1>5. t \in [1 .. Len(s) -> TomlLine]
  BY <1>1, <1>2, <1>3, <1>4
<1>6. t \in Seq(TomlLine) /\ Len(t) = Len(s)
  <2> HIDE DEF t
  <2>1. t \in Seq(TomlLine)
    BY <1>1, <1>5, SeqDef
  <2> QED
    BY <1>1, <1>5, <2>1, LenProperties
<1>7. t[LineOf(s, k)] = Line(k, v) /\ \A i \in 1 .. Len(s) : i # LineOf(s, k) => t[i] = s[i]
  BY <1>1, <1>2, <1>3
<1> QED
  BY <1>2, <1>6, <1>7

\* t is s with the line l inserted as the n-th, above every section.
Inserted(s, n, l, t) ==
  /\ t \in Seq(TomlLine) /\ Len(t) = Len(s) + 1 /\ t[n] = l
  /\ \A j \in 1 .. n - 1 : s[j].key # "["
  /\ \A i \in 1 .. n - 1 : t[i] = s[i]
  /\ \A i \in n .. Len(s) : t[i + 1] = s[i]

\* The key has none: it gets one before the first header, or at the end.
LEMMA InsertedIs ==
  ASSUME NEW s, Settled(s), NEW k \in Terms, NEW v \in Terms, LineOf(s, k) = 0
  PROVE  \E n \in 1 .. Len(s) + 1 : Inserted(s, n, Line(k, v), Upsert(s, k, v))
<1> DEFINE t == Upsert(s, k, v)
           header == LineOf(s, "[")
           n == IF header # 0 THEN header ELSE Len(s) + 1
           a == SubSeq(s, 1, n - 1)
           b == SubSeq(s, n, Len(s))
           x == <<Line(k, v)>>
<1>1. Len(s) \in Nat /\ s \in Seq(TomlLine) /\ \A i \in 1 .. Len(s) : s[i] \in TomlLine
  BY LenProperties, ElementOfSeq DEF Settled
<1>2. n \in 1 .. Len(s) + 1 /\ \A j \in 1 .. n - 1 : s[j].key # "["
  BY <1>1, LineOfIs
<1>3. t = (a \o x) \o b
  BY DEF Upsert, InsertAt
<1> HIDE DEF t, n
<1>4. a \in Seq(TomlLine) /\ Len(a) = n - 1 /\ \A i \in 1 .. n - 1 : a[i] = s[i]
  <2>1. /\ a \in Seq(TomlLine)
        /\ Len(a) = IF 1 <= n - 1 THEN n - 1 - 1 + 1 ELSE 0
        /\ \A i \in 1 .. n - 1 - 1 + 1 : a[i] = s[1 + i - 1]
    BY <1>1, <1>2, SubSeqProperties
  <2> HIDE DEF a
  <2> QED
    BY <1>1, <1>2, <2>1
<1>5. /\ b \in Seq(TomlLine) /\ Len(b) = Len(s) - n + 1
      /\ \A i \in 1 .. Len(s) - n + 1 : b[i] = s[n + i - 1]
  <2>0. n \in Int /\ Len(s) \in Int /\ \A i \in n .. Len(s) : s[i] \in TomlLine
    BY <1>1, <1>2
  <2>1. /\ b \in Seq(TomlLine)
        /\ Len(b) = IF n <= Len(s) THEN Len(s) - n + 1 ELSE 0
        /\ \A i \in 1 .. Len(s) - n + 1 : b[i] = s[n + i - 1]
    BY <2>0, SubSeqProperties
  <2> HIDE DEF b
  <2> QED
    BY <1>1, <1>2, <2>1
<1>6. x \in Seq(TomlLine) /\ Len(x) = 1 /\ x[1] = Line(k, v)
  <2>1. Line(k, v) \in TomlLine
    BY DEF Line, TomlLine, Terms
  <2>2. ASSUME NEW e \in TomlLine PROVE <<e>> \in Seq(TomlLine) /\ Len(<<e>>) = 1 /\ <<e>>[1] = e
    OBVIOUS
  <2> QED
    BY <2>1, <2>2
<1> HIDE DEF a, b, x
<1>n. n \in Int /\ n - 1 \in Int /\ Len(s) \in Int /\ n >= 1
  BY <1>1, <1>2
<1>7. /\ a \o x \in Seq(TomlLine) /\ Len(a \o x) = n
      /\ \A i \in 1 .. n : (a \o x)[i] = IF i <= n - 1 THEN a[i] ELSE x[i - (n - 1)]
  <2>1. Len(a) + Len(x) = n
    BY <1>4, <1>6, <1>n
  <2>2. /\ a \o x \in Seq(TomlLine) /\ Len(a \o x) = Len(a) + Len(x)
        /\ \A i \in 1 .. Len(a) + Len(x) :
             (a \o x)[i] = IF i <= Len(a) THEN a[i] ELSE x[i - Len(a)]
    BY <1>4, <1>6, ConcatProperties
  <2> QED
    BY <1>4, <2>1, <2>2
<1>8. /\ t \in Seq(TomlLine) /\ Len(t) = Len(s) + 1
      /\ \A i \in 1 .. Len(s) + 1 : t[i] = IF i <= n THEN (a \o x)[i] ELSE b[i - n]
  <2>1. n + Len(b) = Len(s) + 1
    BY <1>1, <1>2, <1>5
  <2> DEFINE c == a \o x
  <2>2. c \in Seq(TomlLine) /\ Len(c) = n
    BY <1>7
  <2> HIDE DEF c
  <2>3. /\ c \o b \in Seq(TomlLine) /\ Len(c \o b) = Len(c) + Len(b)
        /\ \A i \in 1 .. Len(c) + Len(b) :
             (c \o b)[i] = IF i <= Len(c) THEN c[i] ELSE b[i - Len(c)]
    <3>1. b \in Seq(TomlLine)
      BY <1>5
    <3> QED
      BY <2>2, <3>1, ConcatProperties
  <2>4. t = c \o b
    BY <1>3 DEF c
  <2>5. /\ t \in Seq(TomlLine) /\ Len(t) = Len(s) + 1
        /\ \A i \in 1 .. Len(s) + 1 : t[i] = IF i <= n THEN c[i] ELSE b[i - n]
    BY <2>1, <2>2, <2>3, <2>4
  <2> QED
    BY <2>5 DEF c
<1>9. t[n] = Line(k, v)
  <2>1. t[n] = (a \o x)[n]
    <3>1. n <= n
      BY <1>n
    <3> QED
      BY <1>2, <1>8, <3>1
  <2>2. (a \o x)[n] = x[n - (n - 1)] /\ n - (n - 1) = 1
    BY <1>7, <1>n
  <2> QED
    BY <1>6, <2>1, <2>2
<1>10. ASSUME NEW i \in 1 .. n - 1 PROVE t[i] = s[i]
  <2>1. i <= n /\ i \in 1 .. n /\ i \in 1 .. Len(s) + 1
    BY <1>1, <1>2
  <2>2. t[i] = (a \o x)[i] /\ (a \o x)[i] = a[i]
    BY <1>7, <1>8, <1>n, <2>1
  <2> QED
    BY <1>4, <2>2
<1>11. ASSUME NEW i \in n .. Len(s) PROVE t[i + 1] = s[i]
  <2>1. t[i + 1] = b[i + 1 - n]
    BY <1>1, <1>2, <1>8
  <2>2. i + 1 - n \in 1 .. Len(s) - n + 1 /\ n + (i + 1 - n) - 1 = i
    BY <1>1, <1>2
  <2> QED
    BY <1>5, <2>1, <2>2
<1> QED
  BY <1>2, <1>8, <1>9, <1>10, <1>11 DEF t, Inserted

\* An upsert of a key keeps a settled text settled; the key has the value, and
\* every other key the values it had.
LEMMA UpsertSettled ==
  ASSUME NEW s, Settled(s), NEW k \in {"api_key", "device_id", "mode"}, NEW v \in Terms,
         k = "mode" => LineOf(s, k) # 0
  PROVE  /\ Settled(Upsert(s, k, v)) /\ Upsert(s, k, v) # <<>>
         /\ k # "device_id" => Given(Upsert(s, k, v), k) = {v}
         /\ \A other \in {"api_key", "mode"} \ {k} :
              Given(Upsert(s, k, v), other) = Given(s, other)
<1> DEFINE t == Upsert(s, k, v)
<1>0. Len(s) \in Nat /\ k \in Terms /\ k # "[" /\ Line(k, v).key = k /\ Line(k, v).val = v
  <2>1. Len(s) \in Nat
    BY LenProperties DEF Settled
  <2>2. Line(k, v).key = k /\ Line(k, v).val = v
    BY DEF Line
  <2>3. k \in Terms
    BY DEF Terms
  <2>4. k # "["
    OBVIOUS
  <2> QED
    BY <2>1, <2>2, <2>3, <2>4
<1>e. Len(<<>>) = 0
  BY EmptySeq
<1>1. CASE LineOf(s, k) # 0
  <2> DEFINE n == LineOf(s, k)
  <2>1. /\ t \in Seq(TomlLine) /\ Len(t) = Len(s) /\ n \in 1 .. Len(s)
        /\ s[n].key = k /\ t[n] = Line(k, v)
        /\ \A i \in 1 .. Len(s) : i # n => t[i] = s[i]
    BY <1>0, <1>1, ReplacedIs
  <2> HIDE DEF t, n
  <2>2. \A i \in 1 .. Len(s) : t[i].key = s[i].key
    BY <1>0, <2>1
  <2>3. Settled(t)
    <3>1. ASSUME NEW i \in 1 .. Len(t), t[i].key = "mode"
          PROVE  \E j \in 1 .. i : /\ t[j] = Section("fail_mode")
                                   /\ \A m \in j + 1 .. i : t[m].key # "["
      <4>1. PICK j \in 1 .. i : /\ s[j] = Section("fail_mode")
                               /\ \A m \in j + 1 .. i : s[m].key # "["
        BY <2>1, <2>2, <3>1 DEF Settled
      <4>2. j # n /\ j \in 1 .. Len(s)
        BY <1>0, <2>1, <4>1 DEF Section, Line
      <4>3. t[j] = Section("fail_mode")
        BY <2>1, <4>1, <4>2
      <4>4. \A m \in j + 1 .. i : t[m].key # "["
        BY <2>1, <2>2, <4>1
      <4> QED
        BY <4>3, <4>4
    <3>2. /\ \A i, j \in 1 .. Len(t) :
               t[i].key = t[j].key /\ t[i].key \in {"api_key", "mode"} => i = j
          /\ \A i, j \in 1 .. Len(t) : t[i].key = "api_key" /\ j < i => t[j].key # "["
      BY <2>1, <2>2 DEF Settled
    <3> QED
      BY <2>1, <3>1, <3>2 DEF Settled
  <2>4. k # "device_id" => Given(t, k) = {v}
    <3>1. ASSUME k # "device_id", NEW i \in 1 .. Len(t), t[i].key = k PROVE i = n
      BY <1>0, <2>1, <2>2, <3>1 DEF Settled
    <3> QED
      BY <1>0, <2>1, <3>1 DEF Given
  <2>5. ASSUME NEW other \in {"api_key", "mode"} \ {k} PROVE Given(t, other) = Given(s, other)
    <3>1. \A i \in 1 .. Len(s) : s[i].key = other => t[i] = s[i]
      BY <2>1
    <3> QED
      BY <2>1, <2>2, <3>1 DEF Given
  <2>6. t # <<>>
    BY <1>0, <1>e, <2>1
  <2> QED
    BY <2>3, <2>4, <2>5, <2>6 DEF t
<1>2. CASE LineOf(s, k) = 0
  <2>0. PICK n \in 1 .. Len(s) + 1 : Inserted(s, n, Line(k, v), t)
    <3>1. k \in Terms
      BY <1>0
    <3> QED
      BY <1>2, <3>1, InsertedIs
  <2> HIDE DEF t
  <2>1. /\ t \in Seq(TomlLine) /\ Len(t) = Len(s) + 1 /\ t[n] = Line(k, v)
        /\ \A j \in 1 .. n - 1 : s[j].key # "["
        /\ \A i \in 1 .. n - 1 : t[i] = s[i]
        /\ \A i \in n .. Len(s) : t[i + 1] = s[i]
    BY <2>0 DEF Inserted
  <2>2. k # "mode" /\ \A j \in 1 .. Len(s) : s[j].key # k
    BY <1>0, <1>2, LineOfIs
  <2>3. ASSUME NEW i \in 1 .. Len(t), i # n
        PROVE  \E j \in 1 .. Len(s) : t[i] = s[j] /\ j = IF i < n THEN i ELSE i - 1
    <3>1. CASE i < n
      BY <1>0, <2>1, <3>1
    <3>2. CASE i > n
      <4>1. i - 1 \in n .. Len(s) /\ t[(i - 1) + 1] = s[i - 1]
        BY <1>0, <2>1, <3>2
      <4> QED
        BY <1>0, <2>1, <3>2, <4>1
    <3> QED
      BY <1>0, <2>1, <2>3, <3>1, <3>2
  <2>4. ASSUME NEW j \in 1 .. Len(s)
        PROVE  \E i \in 1 .. Len(t) : t[i] = s[j]
    <3>1. CASE j < n
      <4>1. j \in 1 .. n - 1 /\ j \in 1 .. Len(t)
        BY <1>0, <2>1, <3>1
      <4> QED
        BY <2>1, <4>1
    <3>2. CASE ~(j < n)
      <4>1. j \in n .. Len(s) /\ j + 1 \in 1 .. Len(t)
        BY <1>0, <2>1, <3>2
      <4> QED
        BY <2>1, <4>1
    <3> QED
      BY <3>1, <3>2
  <2>5. ASSUME NEW i \in 1 .. Len(t), NEW j \in 1 .. Len(t), t[i].key = t[j].key,
               t[i].key \in {"api_key", "mode"}
        PROVE  i = j
    <3>1. i = n <=> j = n
      <4>1. \A m \in 1 .. Len(t) : m # n => t[m].key # k
        BY <2>2, <2>3
      <4>2. t[n].key = k
        BY <1>0, <2>1
      <4> QED
        BY <2>5, <4>1, <4>2
    <3>2. CASE i # n
      <4>1. PICK x \in 1 .. Len(s) : t[i] = s[x] /\ x = IF i < n THEN i ELSE i - 1
        BY <2>3, <3>2
      <4>2. PICK y \in 1 .. Len(s) : t[j] = s[y] /\ y = IF j < n THEN j ELSE j - 1
        BY <2>3, <3>1, <3>2
      <4>3. x = y
        BY <2>5, <4>1, <4>2 DEF Settled
      <4> QED
        BY <1>0, <2>1, <3>1, <3>2, <4>1, <4>2, <4>3
    <3> QED
      BY <3>1, <3>2
  <2>6. ASSUME NEW i \in 1 .. Len(t), NEW j \in 1 .. Len(t), t[i].key = "api_key", j < i
        PROVE  t[j].key # "["
    <3>1. CASE j = n
      BY <1>0, <2>1, <3>1
    <3>2. CASE j # n
      <4>1. PICK y \in 1 .. Len(s) : t[j] = s[y] /\ y = IF j < n THEN j ELSE j - 1
        BY <2>3, <3>2
      <4>2. CASE i <= n
        BY <1>0, <2>1, <2>6, <4>1, <4>2
      <4>3. CASE i > n
        <5>1. PICK x \in 1 .. Len(s) : t[i] = s[x] /\ x = IF i < n THEN i ELSE i - 1
          BY <1>0, <2>1, <2>3, <4>3
        <5>2. y < x
          BY <1>0, <2>1, <2>6, <3>2, <4>1, <4>3, <5>1
        <5> QED
          BY <2>6, <4>1, <5>1, <5>2 DEF Settled
      <4> QED
        BY <1>0, <2>1, <4>2, <4>3
    <3> QED
      BY <3>1, <3>2
  <2>7. ASSUME NEW i \in 1 .. Len(t), t[i].key = "mode"
        PROVE  \E j \in 1 .. i : /\ t[j] = Section("fail_mode")
                                 /\ \A m \in j + 1 .. i : t[m].key # "["
    <3>1. i # n
      BY <1>0, <2>1, <2>2, <2>7
    <3>2. PICK x \in 1 .. Len(s) : t[i] = s[x] /\ x = IF i < n THEN i ELSE i - 1
      BY <2>3, <3>1
    <3>3. PICK y \in 1 .. x : /\ s[y] = Section("fail_mode")
                             /\ \A m \in y + 1 .. x : s[m].key # "["
      BY <2>7, <3>2 DEF Settled
    <3>4. y >= n /\ y \in 1 .. Len(s)
      BY <1>0, <2>1, <3>3 DEF Section, Line
    <3>5. i = x + 1
      BY <1>0, <2>1, <3>1, <3>2, <3>3, <3>4
    <3>6. t[y + 1] = s[y] /\ y + 1 \in 1 .. i
      BY <1>0, <2>1, <3>3, <3>4, <3>5
    <3>7. ASSUME NEW m \in (y + 1) + 1 .. i PROVE t[m].key # "["
      <4>1. m - 1 \in n .. Len(s) /\ m - 1 \in y + 1 .. x /\ (m - 1) + 1 = m
        BY <1>0, <2>1, <3>3, <3>4, <3>5
      <4>2. t[(m - 1) + 1] = s[m - 1]
        BY <2>1, <4>1
      <4> QED
        BY <3>3, <4>1, <4>2
    <3> QED
      BY <3>3, <3>6, <3>7
  <2>8. Settled(t)
    BY <2>1, <2>5, <2>6, <2>7 DEF Settled
  <2>9. Given(t, k) = {v}
    <3>1. n \in 1 .. Len(t) /\ t[n].key = k /\ t[n].val = v
      BY <1>0, <2>1
    <3>2. \A i \in 1 .. Len(t) : t[i].key = k => i = n
      BY <2>2, <2>3
    <3> QED
      BY <3>1, <3>2 DEF Given
  <2>10. ASSUME NEW other \in {"api_key", "mode"} \ {k} PROVE Given(t, other) = Given(s, other)
    <3>1. \A i \in 1 .. Len(t) : t[i].key = other => \E j \in 1 .. Len(s) : t[i] = s[j]
      BY <1>0, <2>1, <2>3
    <3>2. \A j \in 1 .. Len(s) : \E i \in 1 .. Len(t) : t[i] = s[j]
      BY <2>4
    <3>3. Given(t, other) \subseteq Given(s, other)
      BY <3>1 DEF Given
    <3>4. Given(s, other) \subseteq Given(t, other)
      BY <3>2 DEF Given
    <3> QED
      BY <3>3, <3>4
  <2>11. t # <<>>
    <3>1. Len(t) # 0
      BY <1>0, <2>1
    <3> QED
      BY <1>e, <3>1
  <2> QED
    BY <2>8, <2>9, <2>10, <2>11 DEF t
<1> QED
  BY <1>1, <1>2

\* Same lines for the key and for the mode: the same is loaded.
LEMMA SameLoad ==
  ASSUME NEW s, NEW t, Settled(s), Settled(t)
  PROVE  /\ Given(s, "api_key") = Given(t, "api_key") => Load(s).key = Load(t).key
         /\ Given(s, "mode") = Given(t, "mode") => Load(s).mode = Load(t).mode
<1>1. ASSUME NEW k \in {"api_key", "mode"}
      PROVE  Given(s, k) = {} \/ \E v : Given(s, k) = {v}
  <2>1. \A i, j \in 1 .. Len(s) : s[i].key = k /\ s[j].key = k => i = j
    BY DEF Settled
  <2>2. CASE \E i \in 1 .. Len(s) : s[i].key = k
    <3>1. PICK i \in 1 .. Len(s) : s[i].key = k
      BY <2>2
    <3>2. Given(s, k) = {s[i].val}
      BY <2>1, <3>1 DEF Given
    <3> QED
      BY <3>2
  <2>3. CASE ~ \E i \in 1 .. Len(s) : s[i].key = k
    BY <2>3 DEF Given
  <2> QED
    BY <2>2, <2>3
<1>2. ASSUME Given(s, "api_key") = Given(t, "api_key") PROVE Load(s).key = Load(t).key
  <2>1. CASE Given(s, "api_key") = {}
    BY <1>2, <2>1, LoadIs
  <2>2. CASE \E v : Given(s, "api_key") = {v}
    BY <1>2, <2>2, LoadIs
  <2> QED
    BY <1>1, <2>1, <2>2
<1>3. ASSUME Given(s, "mode") = Given(t, "mode") PROVE Load(s).mode = Load(t).mode
  <2>1. CASE Given(s, "mode") = {}
    BY <1>3, <2>1, LoadIs
  <2>2. CASE \E v : Given(s, "mode") = {v}
    BY <1>3, <2>2, LoadIs
  <2> QED
    BY <1>1, <2>1, <2>2
<1> QED
  BY <1>2, <1>3

Config == [key : Terms, mode : {"open", "closed"}]

LEMMA LoadTyped ==
  ASSUME NEW s, Settled(s)
  PROVE  Load(s) \in Config
<1>1. Load(s).key \in Terms
  <2>1. CASE Given(s, "api_key") = {}
    BY <2>1, LoadIs DEF Terms
  <2>2. CASE Given(s, "api_key") # {}
    <3>1. PICK i \in 1 .. Len(s) : s[i].key = "api_key"
      BY <2>2 DEF Given
    <3>2. \A j \in 1 .. Len(s) : s[j].key = "api_key" => j = i
      BY <3>1 DEF Settled
    <3>3. Given(s, "api_key") = {s[i].val}
      BY <3>1, <3>2 DEF Given
    <3>4. s[i] \in TomlLine
      BY ElementOfSeq DEF Settled
    <3>5. Load(s).key = s[i].val
      BY <3>3, LoadIs
    <3> QED
      BY <3>4, <3>5 DEF TomlLine
  <2> QED
    BY <2>1, <2>2
<1> QED
  BY <1>1 DEF Load, Config, FailMode

\* What a text with one more setting loads.
LEMMA UpsertLoads ==
  ASSUME NEW s, Settled(s)
  PROVE  /\ \A v \in Terms : Load(Upsert(s, "api_key", v)) = [key |-> v, mode |-> Load(s).mode]
         /\ \A v \in Terms : Load(Upsert(s, "device_id", v)) = Load(s)
         /\ \A v \in {"open", "closed"} : LineOf(s, "mode") # 0 =>
              Load(Upsert(s, "mode", v)) = [key |-> Load(s).key, mode |-> v]
<1>1. \A x : Load(x) = [key |-> Load(x).key, mode |-> Load(x).mode]
  BY DEF Load
<1>2. ASSUME NEW v \in Terms
      PROVE  Load(Upsert(s, "api_key", v)) = [key |-> v, mode |-> Load(s).mode]
  <2> DEFINE t == Upsert(s, "api_key", v)
  <2>1. Settled(t) /\ Given(t, "api_key") = {v} /\ Given(t, "mode") = Given(s, "mode")
    BY UpsertSettled
  <2> HIDE DEF t
  <2>2. Load(t).key = v /\ Load(t).mode = Load(s).mode
    BY <2>1, LoadIs, SameLoad
  <2> QED
    BY <1>1, <2>2 DEF t
<1>3. ASSUME NEW v \in Terms PROVE Load(Upsert(s, "device_id", v)) = Load(s)
  <2> DEFINE t == Upsert(s, "device_id", v)
  <2>1. /\ Settled(t) /\ Given(t, "api_key") = Given(s, "api_key")
        /\ Given(t, "mode") = Given(s, "mode")
    BY UpsertSettled
  <2> HIDE DEF t
  <2>2. Load(t).key = Load(s).key /\ Load(t).mode = Load(s).mode
    BY <2>1, SameLoad
  <2> QED
    BY <1>1, <2>2 DEF t
<1>4. ASSUME NEW v \in {"open", "closed"}, LineOf(s, "mode") # 0
      PROVE  Load(Upsert(s, "mode", v)) = [key |-> Load(s).key, mode |-> v]
  <2> DEFINE t == Upsert(s, "mode", v)
  <2>1. v \in Terms /\ FailMode(v) = v
    BY DEF FailMode, Terms
  <2>2. Settled(t) /\ Given(t, "mode") = {v} /\ Given(t, "api_key") = Given(s, "api_key")
    BY <1>4, <2>1, UpsertSettled
  <2> HIDE DEF t
  <2>3. Load(t).key = Load(s).key /\ Load(t).mode = v
    BY <2>1, <2>2, LoadIs, SameLoad
  <2> QED
    BY <1>1, <2>3 DEF t
<1> QED
  BY <1>2, <1>3, <1>4

\* Enrolling changes the key, if there is one to save, and nothing else.
LEMMA EnrolledIs ==
  ASSUME NEW s, Settled(s), NEW k \in {""} \cup IssuedKeys
  PROVE  /\ Settled(Enrolled(s, k, "dev")) /\ Enrolled(s, k, "dev") # <<>>
         /\ Load(Enrolled(s, k, "dev")) =
              [key |-> IF k = "" THEN Load(s).key ELSE k, mode |-> Load(s).mode]
<1> DEFINE t == IF k = "" THEN s ELSE Upsert(s, "api_key", k)
<1>1. k \in Terms /\ "dev" \in Terms
  BY DEF IssuedKeys, Terms
<1>2. Enrolled(s, k, "dev") = Upsert(t, "device_id", "dev")
  BY DEF Enrolled
<1>3. Settled(t)
  BY <1>1, UpsertSettled
<1>4. Load(t) = [key |-> IF k = "" THEN Load(s).key ELSE k, mode |-> Load(s).mode]
  <2>1. Load(s) = [key |-> Load(s).key, mode |-> Load(s).mode]
    BY DEF Load
  <2> QED
    BY <1>1, <2>1, UpsertLoads
<1> HIDE DEF t
<1>5. Settled(Upsert(t, "device_id", "dev")) /\ Upsert(t, "device_id", "dev") # <<>>
  BY <1>1, <1>3, UpsertSettled
<1>6. Load(Upsert(t, "device_id", "dev")) = Load(t)
  BY <1>1, <1>3, UpsertLoads
<1> QED
  BY <1>2, <1>4, <1>5, <1>6

LEMMA TupleIs ==
  /\ \A a \in TomlLine : <<a>> \in Seq(TomlLine) /\ Len(<<a>>) = 1 /\ <<a>>[1] = a
  /\ \A a, b, c, d \in TomlLine :
       LET s == <<a, b, c, d>>
       IN  /\ s \in Seq(TomlLine) /\ Len(s) = 4
           /\ s[1] = a /\ s[2] = b /\ s[3] = c /\ s[4] = d
  OBVIOUS

LEMMA LineIs ==
  \A k \in Terms, v \in Terms :
    Line(k, v) \in TomlLine /\ Line(k, v).key = k /\ Line(k, v).val = v
  BY DEF Line, TomlLine

\* The texts the commands start from are settled; a file that is missing, empty
\* or fresh from init loads the defaults.
LEMMA TextsSettled ==
  Settled(<<>>) /\ Settled(NoFile) /\ Settled(Template)
<1>1. Settled(<<>>)
  BY EmptySeq DEF Settled
<1>2. Settled(NoFile)
  <2>1. "no file" \in Terms /\ "" \in Terms
    BY DEF Terms
  <2> DEFINE a == Line("no file", "")
  <2>2. a \in TomlLine /\ a.key = "no file"
    BY <2>1, LineIs
  <2> HIDE DEF a
  <2>3. <<a>> \in Seq(TomlLine) /\ Len(<<a>>) = 1 /\ <<a>>[1] = a
    BY <2>2, TupleIs
  <2> DEFINE s == <<a>>
  <2>4. s \in Seq(TomlLine) /\ Len(s) = 1 /\ s[1].key = "no file"
    BY <2>2, <2>3
  <2> HIDE DEF s
  <2>5. \A i \in 1 .. Len(s) : i = 1 /\ s[i].key = "no file"
    <3>1. \A i \in 1 .. 1 : i = 1
      OBVIOUS
    <3>2. \A i \in 1 .. Len(s) : i = 1
      BY <2>4, <3>1
    <3> QED
      BY <2>4, <3>2
  <2>6. Settled(s)
    BY <2>4, <2>5 DEF Settled
  <2> QED
    BY <2>6 DEF NoFile, s, a
<1>4. Settled(Template)
  <2>1. /\ {"api_key", "[", "mode"} \subseteq Terms
        /\ {"", "policy", "fail_mode", "open"} \subseteq Terms
    BY DEF Terms
  <2> DEFINE a == Line("api_key", "")
             b == Section("policy")
             c == Section("fail_mode")
             d == Line("mode", "open")
  <2>2. /\ a \in TomlLine /\ b \in TomlLine /\ c \in TomlLine /\ d \in TomlLine
        /\ a.key = "api_key" /\ b.key = "[" /\ c.key = "[" /\ d.key = "mode"
    BY <2>1, LineIs DEF Section
  <2> USE <2>2
  <2> HIDE DEF a, b, c, d
  <2> DEFINE s == <<a, b, c, d>>
  <2>3. /\ s \in Seq(TomlLine) /\ Len(s) = 4
        /\ s[1] = a /\ s[2] = b /\ s[3] = c /\ s[4] = d
    BY TupleIs
  <2>4. c = Section("fail_mode")
    BY DEF c
  <2> HIDE DEF s
  <2>5. Settled(s)
    <3>1. \A i \in 1 .. Len(s) : i = 1 \/ i = 2 \/ i = 3 \/ i = 4
      BY <2>3
    <3>2. \A i, j \in 1 .. Len(s) :
            s[i].key = s[j].key /\ s[i].key \in {"api_key", "mode"} => i = j
      BY <2>3, <3>1
    <3>3. \A i, j \in 1 .. Len(s) : s[i].key = "api_key" /\ j < i => s[j].key # "["
      BY <2>3, <3>1
    <3>4. ASSUME NEW i \in 1 .. Len(s), s[i].key = "mode"
          PROVE  \E j \in 1 .. i : /\ s[j] = Section("fail_mode")
                                   /\ \A n \in j + 1 .. i : s[n].key # "["
      <4>1. i = 4
        BY <2>3, <3>1, <3>4
      <4>2. 3 \in 1 .. i /\ s[3] = Section("fail_mode")
        BY <2>3, <2>4, <4>1
      <4>3. \A n \in 3 + 1 .. i : s[n].key # "["
        BY <2>3, <4>1
      <4> QED
        BY <4>2, <4>3
    <3> QED
      BY <2>3, <3>2, <3>3, <3>4 DEF Settled
  <2> QED
    BY <2>5 DEF Template, s, a, b, c, d
<1> QED
  BY <1>1, <1>2, <1>4

LEMMA DefaultTexts ==
  \A s \in {<<>>, NoFile, Template} : Load(s) = [key |-> "", mode |-> "open"]
<1>1. \A x : Load(x) = [key |-> Load(x).key, mode |-> Load(x).mode]
  BY DEF Load
<1>2. Given(<<>>, "api_key") = {} /\ Given(<<>>, "mode") = {}
  BY EmptySeq DEF Given
<1>3. Given(NoFile, "api_key") = {} /\ Given(NoFile, "mode") = {}
  <2> DEFINE a == Line("no file", "")
  <2>1. a \in TomlLine /\ a.key = "no file"
    BY DEF Line, TomlLine, Terms
  <2> HIDE DEF a
  <2>2. Len(<<a>>) = 1 /\ <<a>>[1] = a
    BY <2>1, TupleIs
  <2> DEFINE s == <<a>>
  <2>3. Len(s) = 1 /\ s[1].key = "no file"
    BY <2>1, <2>2
  <2> HIDE DEF s
  <2>4. \A i \in 1 .. Len(s) : s[i].key = "no file"
    <3>1. \A i \in 1 .. 1 : i = 1
      OBVIOUS
    <3>2. \A i \in 1 .. Len(s) : i = 1
      BY <2>3, <3>1
    <3> QED
      BY <2>3, <3>2
  <2>5. Given(s, "api_key") = {} /\ Given(s, "mode") = {}
    BY <2>4 DEF Given
  <2> QED
    BY <2>5 DEF NoFile, s, a
<1>4. Given(Template, "api_key") = {""} /\ Given(Template, "mode") = {"open"}
  <2> DEFINE a == Line("api_key", "")
             b == Section("policy")
             c == Section("fail_mode")
             d == Line("mode", "open")
  <2>1. /\ a \in TomlLine /\ b \in TomlLine /\ c \in TomlLine /\ d \in TomlLine
        /\ a.key = "api_key" /\ a.val = "" /\ b.key = "[" /\ c.key = "["
        /\ d.key = "mode" /\ d.val = "open"
    BY DEF Line, Section, TomlLine, Terms
  <2> HIDE DEF a, b, c, d
  <2> DEFINE s == <<a, b, c, d>>
  <2>2. Len(s) = 4 /\ s[1] = a /\ s[2] = b /\ s[3] = c /\ s[4] = d
    BY <2>1, TupleIs
  <2> HIDE DEF s
  <2>3. \A i \in 1 .. Len(s) : i = 1 \/ i = 2 \/ i = 3 \/ i = 4
    BY <2>2
  <2>4. 1 \in 1 .. Len(s) /\ 4 \in 1 .. Len(s)
    BY <2>2
  <2>5. Given(s, "api_key") = {""}
    <3>1. \A i \in 1 .. Len(s) : s[i].key = "api_key" <=> i = 1
      BY <2>1, <2>2, <2>3
    <3>2. s[1].val = ""
      BY <2>1, <2>2
    <3> QED
      BY <2>4, <3>1, <3>2 DEF Given
  <2>6. Given(s, "mode") = {"open"}
    <3>1. \A i \in 1 .. Len(s) : s[i].key = "mode" <=> i = 4
      BY <2>1, <2>2, <2>3
    <3>2. s[4].val = "open"
      BY <2>1, <2>2
    <3> QED
      BY <2>4, <3>1, <3>2 DEF Given
  <2> QED
    BY <2>5, <2>6 DEF Template, s, a, b, c, d
<1>5. FailMode("open") = "open"
  BY DEF FailMode
<1>6. ASSUME NEW s \in {<<>>, NoFile, Template} PROVE Load(s) = [key |-> "", mode |-> "open"]
  <2>1. Settled(s)
    BY TextsSettled
  <2>2. Given(s, "api_key") = {} \/ Given(s, "api_key") = {""}
    BY <1>2, <1>3, <1>4
  <2>3. Given(s, "mode") = {} \/ Given(s, "mode") = {"open"}
    BY <1>2, <1>3, <1>4
  <2>4. Load(s).key = ""
    BY <2>1, <2>2, LoadIs
  <2>5. Load(s).mode = "open"
    BY <1>5, <2>1, <2>3, LoadIs
  <2> QED
    BY <1>1, <2>4, <2>5
<1> QED
  BY <1>6

----------------------------------------------------------------------------
(* What every variable holds, and where a command can be.                  *)

Places ==
  {<<"none", "idle">>, <<"bridge", "discover">>}
    \cup ({"init"} \X {"stat", "truncate", "write", "ca", "createBridge", "writeBridge",
                       "createShim", "writeShim", "path"})
    \cup ({"enroll", "token"} \X {"ask", "read", "truncate", "write"})
    \cup ({"proxy", "system"} \X {"ca", "serving"})

Pcs == {"idle", "stat", "truncate", "write", "ca", "createBridge", "writeBridge",
        "createShim", "writeShim", "path", "ask", "read", "serving", "discover"}

ProcsTyped ==
  /\ cmd \in [Procs -> Commands \cup {None}]
  /\ pc \in [Procs -> Pcs]
  /\ \A p \in Procs : <<cmd[p].name, pc[p]>> \in Places
  /\ seen \in [Procs -> Config]
  /\ wanted \in [Procs -> {"open", "closed"}]
  /\ fresh \in [Procs -> BOOLEAN]

LocalsTyped ==
  /\ base \in [Procs -> Seq(TomlLine)] /\ text \in [Procs -> Seq(TomlLine)]
  /\ \A p \in Procs : Settled(base[p]) /\ Settled(text[p])
  /\ key \in [Procs -> {""} \cup IssuedKeys]
  /\ at \in [Procs -> 1 .. Managers]
  /\ ruling \in [Procs -> {"none", "allow", "block"}]

RestTyped ==
  /\ Settled(toml)
  /\ bridge \in {"absent", "empty", "written"}
  /\ shims \in [1 .. Managers -> {"absent", "empty", "open", "closed"}]
  /\ token \in {"fresh", "spent"}
  /\ commands \in 0 .. MaxCommands
  /\ intent \in Config

FlagsTyped == /\ lost \in BOOLEAN /\ unread \in BOOLEAN /\ misread \in BOOLEAN
              /\ stale \in BOOLEAN /\ issued \in BOOLEAN /\ tokenSaved \in BOOLEAN /\ tokenReported \in BOOLEAN

InstTyped == ProcsTyped /\ LocalsTyped /\ RestTyped /\ FlagsTyped

LEMMA Bounds == 1 \in 1 .. Managers /\ 0 \in 0 .. MaxCommands
<1>1. Managers \in Nat /\ Managers # 0 /\ MaxCommands \in Nat
  BY InstallAssumption
<1> QED
  BY <1>1

\* What the texts are assumed to be like to begin with.
SettledTexts == \A s \in Texts : Settled(s)

LEMMA InstTypedInit == SettledTexts /\ Init => InstTyped
<1> SUFFICES ASSUME SettledTexts, Init PROVE InstTyped
  OBVIOUS
<1> USE DEF Init
<1>1. Settled(toml) /\ Load(toml) \in Config
  BY TextsSettled, LoadTyped DEF SettledTexts
<1>2. intent \in Config
  BY <1>1
<1>3. ProcsTyped
  BY <1>2 DEF ProcsTyped, None, Pcs, Places
<1>4. LocalsTyped
  <2>1. <<>> \in Seq(TomlLine) /\ Settled(<<>>)
    BY EmptySeq, TextsSettled
  <2>2. 1 \in 1 .. Managers
    BY Bounds
  <2>3. /\ base \in [Procs -> Seq(TomlLine)] /\ text \in [Procs -> Seq(TomlLine)]
        /\ \A p \in Procs : Settled(base[p]) /\ Settled(text[p])
    BY <2>1
  <2>4. /\ key \in [Procs -> {""} \cup IssuedKeys] /\ at \in [Procs -> 1 .. Managers]
        /\ ruling \in [Procs -> {"none", "allow", "block"}]
    BY <2>2
  <2> QED
    BY <2>3, <2>4 DEF LocalsTyped
<1>5. RestTyped
  <2>1. 0 \in 0 .. MaxCommands
    BY Bounds
  <2>2. shims \in [1 .. Managers -> {"absent", "empty", "open", "closed"}]
    OBVIOUS
  <2>3. bridge = "absent" /\ token = "fresh" /\ commands = 0
    OBVIOUS
  <2> QED
    BY <1>1, <1>2, <2>1, <2>2, <2>3 DEF RestTyped
<1>6. FlagsTyped
  BY Zenon DEF FlagsTyped
<1> QED
  BY <1>3, <1>4, <1>5, <1>6 DEF InstTyped

\* A process that ends leaves everything typed.
LEMMA EndsTyped ==
  ASSUME InstTyped, NEW p \in Procs, Ends(p)
  PROVE  ProcsTyped' /\ LocalsTyped'
<1> USE DEF InstTyped
<1>1. cmd'[p] = None /\ pc'[p] = "idle" /\ None.name = "none"
  BY DEF Ends, ProcsTyped, None
<1>2. \A q \in Procs : q # p => cmd'[q] = cmd[q] /\ pc'[q] = pc[q]
  BY DEF Ends, ProcsTyped
<1>3. ProcsTyped'
  <2>1. \A q \in Procs : <<cmd'[q].name, pc'[q]>> \in Places
    BY <1>1, <1>2 DEF ProcsTyped, Places
  <2>2. cmd' \in [Procs -> Commands \cup {None}] /\ pc' \in [Procs -> Pcs]
    BY DEF Ends, ProcsTyped, Pcs
  <2>3. /\ seen' \in [Procs -> Config] /\ wanted' \in [Procs -> {"open", "closed"}]
        /\ fresh' \in [Procs -> BOOLEAN]
    BY DEF Ends, ProcsTyped, RestTyped
  <2> QED
    BY <2>1, <2>2, <2>3 DEF ProcsTyped
<1>4. LocalsTyped'
  <2>1. <<>> \in Seq(TomlLine) /\ Settled(<<>>)
    BY EmptySeq, TextsSettled
  <2>2. /\ base' \in [Procs -> Seq(TomlLine)] /\ text' \in [Procs -> Seq(TomlLine)]
        /\ \A q \in Procs : Settled(base'[q]) /\ Settled(text'[q])
    BY <2>1 DEF Ends, LocalsTyped
  <2>3. key' \in [Procs -> {""} \cup IssuedKeys]
    BY DEF Ends, LocalsTyped
  <2>4. at' \in [Procs -> 1 .. Managers] /\ ruling' \in [Procs -> {"none", "allow", "block"}]
    <3>1. 1 \in 1 .. Managers
      BY Bounds
    <3> QED
      BY <3>1 DEF Ends, LocalsTyped
  <2> QED
    BY <2>2, <2>3, <2>4 DEF LocalsTyped
<1> QED
  BY <1>3, <1>4

\* A step from one place of a command to another.
LEMMA GoesTyped ==
  ASSUME ProcsTyped, NEW p \in Procs, NEW from, NEW to, Goes(p, from, to), UNCHANGED cmd,
         <<cmd[p].name, to>> \in Places, UNCHANGED <<seen, wanted, fresh>>
  PROVE  ProcsTyped'
<1>1. pc'[p] = to /\ \A q \in Procs : q # p => pc'[q] = pc[q]
  BY DEF Goes, ProcsTyped
<1>2. \A q \in Procs : <<cmd'[q].name, pc'[q]>> \in Places
  BY <1>1 DEF ProcsTyped
<1>3. to \in Pcs
  BY DEF Places, Pcs
<1>4. pc' \in [Procs -> Pcs]
  BY <1>3 DEF Goes, ProcsTyped
<1> QED
  BY <1>2, <1>4 DEF ProcsTyped

\* A step that leaves the locals alone.
LEMMA SameLocals == InstTyped /\ UNCHANGED locals => LocalsTyped'
  BY DEF locals, InstTyped, LocalsTyped

LEMMA SettledSeq == \A s : Settled(s) => s \in Seq(TomlLine)
  BY DEF Settled

LEMMA SameRest == RestTyped /\ UNCHANGED <<files, token, commands, intent>> => RestTyped'
  BY DEF RestTyped, files

LEMMA SameFlags ==
  FlagsTyped /\ UNCHANGED <<lost, unread, misread, stale, tokenHistory>> => FlagsTyped'
  BY DEF FlagsTyped, tokenHistory

LEMMA InstTypedStart ==
  ASSUME InstTyped, NEW p \in Procs, NEW c \in Commands, Start(p, c)
  PROVE  InstTyped'
<1> USE DEF InstTyped
<1>1. <<c.name, FirstStep(c)>> \in Places /\ FirstStep(c) \in Pcs
  <2>1. c.name \in {"init", "enroll", "token", "bridge", "proxy", "system"}
    BY DEF Commands
  <2> QED
    BY <2>1 DEF FirstStep, Places, Pcs
<1>2. ProcsTyped'
  <2>1. cmd'[p] = c /\ pc'[p] = FirstStep(c)
    BY DEF Start, Goes, ProcsTyped
  <2>2. \A q \in Procs : q # p => cmd'[q] = cmd[q] /\ pc'[q] = pc[q]
    BY DEF Start, Goes, ProcsTyped
  <2>3. \A q \in Procs : <<cmd'[q].name, pc'[q]>> \in Places
    BY <1>1, <2>1, <2>2 DEF ProcsTyped
  <2>4. /\ Load(toml) \in Config /\ Load(<<>>) \in Config
        /\ intent.mode \in {"open", "closed"}
    BY LoadTyped, TextsSettled DEF RestTyped, Config
  <2>5. cmd' \in [Procs -> Commands \cup {None}]
    BY DEF Start, ProcsTyped
  <2>6. pc' \in [Procs -> Pcs]
    BY <1>1 DEF Start, Goes, ProcsTyped
  <2>7. /\ seen' \in [Procs -> Config] /\ wanted' \in [Procs -> {"open", "closed"}]
        /\ fresh' \in [Procs -> BOOLEAN]
    BY <2>4 DEF Start, ProcsTyped
  <2> QED
    BY <2>3, <2>5, <2>6, <2>7 DEF ProcsTyped
<1>3. LocalsTyped'
  BY SameLocals DEF Start
<1>4. RestTyped'
  <2>1. commands' \in 0 .. MaxCommands
    BY InstallAssumption DEF Start, RestTyped
  <2> QED
    BY <2>1 DEF Start, RestTyped, files
<1>5. FlagsTyped'
  BY DEF Start, FlagsTyped, tokenHistory
<1> QED
  BY <1>2, <1>3, <1>4, <1>5

LEMMA InstTypedInitCmd ==
  ASSUME InstTyped, NEW p \in Procs, InitCmd(p)
  PROVE  InstTyped'
<1> USE DEF InstTyped
<1>p. <<cmd[p].name, pc[p]>> \in Places
  BY DEF ProcsTyped
<1>1. CASE InitStat(p)
  <2> DEFINE to == IF toml = NoFile THEN "truncate" ELSE "ca"
  <2>1. cmd[p].name = "init"
    BY <1>1, <1>p DEF InitStat, Goes, Places
  <2>2. <<cmd[p].name, to>> \in Places
    BY <2>1 DEF Places
  <2>3. ProcsTyped'
    BY <1>1, <2>2, GoesTyped DEF InitStat
  <2>5. /\ base' \in [Procs -> Seq(TomlLine)] /\ text' \in [Procs -> Seq(TomlLine)]
        /\ \A q \in Procs : Settled(base'[q]) /\ Settled(text'[q])
    BY <1>1, SettledSeq, TextsSettled DEF InitStat, LocalsTyped
  <2>6. LocalsTyped'
    BY <1>1, <2>5 DEF InitStat, LocalsTyped
  <2> QED
    BY <1>1, <2>3, <2>6, SameRest, SameFlags DEF InitStat, history
<1>2. CASE InitWrite(p)
  <2>1. <<cmd[p].name, "ca">> \in Places
    BY <1>2, <1>p DEF InitWrite, Goes, Places
  <2>2. ProcsTyped'
    BY <1>2, <2>1, GoesTyped DEF InitWrite
  <2>4. /\ base' \in [Procs -> Seq(TomlLine)] /\ text' \in [Procs -> Seq(TomlLine)]
        /\ \A q \in Procs : Settled(base'[q]) /\ Settled(text'[q])
    BY <1>2, SettledSeq, TextsSettled DEF InitWrite, LocalsTyped
  <2>5. LocalsTyped'
    BY <1>2, <2>4 DEF InitWrite, LocalsTyped
  <2>6. RestTyped'
    BY <1>2 DEF InitWrite, Written, RestTyped, LocalsTyped
  <2>7. FlagsTyped'
    BY <1>2 DEF InitWrite, Written, FlagsTyped
  <2> QED
    BY <2>2, <2>5, <2>6, <2>7
<1>3. CASE InitHasCA(p)
  <2>1. <<cmd[p].name, "createBridge">> \in Places
    BY <1>3, <1>p DEF InitHasCA, Goes, Places
  <2>2. ProcsTyped'
    BY <1>3, <2>1, GoesTyped DEF InitHasCA
  <2>3. LocalsTyped'
    BY <1>3, SameLocals DEF InitHasCA
  <2> QED
    BY <1>3, <2>2, <2>3, SameRest, SameFlags DEF InitHasCA, history
<1>4. CASE WriteBridge(p)
  <2>1. PICK from, to : /\ Goes(p, from, to) /\ from \in {"createBridge", "writeBridge"}
                        /\ to \in {"writeBridge", "createShim"}
    BY <1>4 DEF WriteBridge
  <2>2. <<cmd[p].name, to>> \in Places
    BY <1>p, <2>1 DEF Goes, Places
  <2>3. ProcsTyped'
    BY <1>4, <2>1, <2>2, GoesTyped DEF WriteBridge
  <2>4. LocalsTyped'
    BY <1>4, SameLocals DEF WriteBridge
  <2>5. RestTyped'
    BY <1>4 DEF WriteBridge, RestTyped, history
  <2> QED
    BY <1>4, <2>3, <2>4, <2>5, SameFlags DEF WriteBridge, history
<1>5. CASE CreateShim(p)
  <2>1. <<cmd[p].name, "writeShim">> \in Places
    BY <1>5, <1>p DEF CreateShim, Goes, Places
  <2>2. ProcsTyped'
    BY <1>5, <2>1, GoesTyped DEF CreateShim
  <2>3. LocalsTyped'
    BY <1>5, SameLocals DEF CreateShim
  <2>4. RestTyped'
    BY <1>5 DEF CreateShim, RestTyped, history
  <2> QED
    BY <1>5, <2>2, <2>3, <2>4, SameFlags DEF CreateShim, history
<1>6. CASE WriteShim(p)
  <2>1. PICK to \in {"createShim", "path"} : Goes(p, "writeShim", to)
    BY <1>6 DEF WriteShim
  <2>2. <<cmd[p].name, to>> \in Places
    BY <1>p, <2>1 DEF Goes, Places
  <2>3. ProcsTyped'
    BY <1>6, <2>1, <2>2, GoesTyped DEF WriteShim
  <2>4. at' \in [Procs -> 1 .. Managers]
    <3>1. at[p] \in 1 .. Managers /\ Managers \in Nat
      BY InstallAssumption DEF LocalsTyped
    <3>2. CASE at[p] < Managers
      <4>1. at[p] + 1 \in 1 .. Managers
        BY <3>1, <3>2
      <4> QED
        BY <1>6, <3>2, <4>1 DEF WriteShim, LocalsTyped
    <3>3. CASE ~(at[p] < Managers)
      BY <1>6, <3>3 DEF WriteShim, LocalsTyped
    <3> QED
      BY <3>2, <3>3
  <2>6. LocalsTyped'
    BY <1>6, <2>4 DEF WriteShim, LocalsTyped
  <2>7. Baked(p) \in {"open", "closed"}
    BY DEF Baked, ProcsTyped, Config
  <2>8. RestTyped'
    BY <1>6, <2>7 DEF WriteShim, RestTyped, history
  <2> QED
    BY <1>6, <2>3, <2>6, <2>8, SameFlags DEF WriteShim, history
<1>7. CASE InitEnds(p)
  <2>1. ProcsTyped' /\ LocalsTyped'
    BY <1>7, EndsTyped DEF InitEnds
  <2>2. RestTyped'
    BY <1>7, SameRest DEF InitEnds
  <2>3. FlagsTyped'
    BY <1>7 DEF InitEnds, FlagsTyped, tokenHistory
  <2> QED
    BY <2>1, <2>2, <2>3
<1> QED
  BY <1>1, <1>2, <1>3, <1>4, <1>5, <1>6, <1>7 DEF InitCmd

\* The backend's answer: enroll has a key to save.
LEMMA AnsweredTyped ==
  ASSUME InstTyped, NEW p \in Procs, NEW k \in {""} \cup IssuedKeys, Answered(p, k),
         cmd[p].name \in {"enroll", "token"}, token' \in {"fresh", "spent"}, issued' \in BOOLEAN
  PROVE  InstTyped'
<1> USE DEF InstTyped
<1>1. <<cmd[p].name, "read">> \in Places
  BY DEF Places
<1>2. ProcsTyped'
  BY <1>1, GoesTyped DEF Answered
<1>3. key' \in [Procs -> {""} \cup IssuedKeys]
  BY DEF Answered, LocalsTyped
<1>4. LocalsTyped'
  BY <1>3 DEF Answered, LocalsTyped
<1>5. RestTyped'
  BY DEF Answered, RestTyped, files
<1>6. FlagsTyped'
  BY DEF Answered, FlagsTyped
<1> QED
  BY <1>2, <1>4, <1>5, <1>6

\* It fails, and with it the command.
LEMMA FailsTyped ==
  ASSUME InstTyped, NEW p \in Procs, Fails(p), token' \in {"fresh", "spent"},
         issued' \in BOOLEAN, tokenReported' \in BOOLEAN
  PROVE  InstTyped'
<1> USE DEF InstTyped
<1>1. ProcsTyped' /\ LocalsTyped'
  BY EndsTyped DEF Fails
<1>2. RestTyped'
  BY DEF Fails, RestTyped, files
<1>3. FlagsTyped'
  BY DEF Fails, FlagsTyped
<1> QED
  BY <1>1, <1>2, <1>3

LEMMA InstTypedEnroll ==
  ASSUME InstTyped, NEW p \in Procs, Enroll(p)
  PROVE  InstTyped'
<1> USE DEF InstTyped
<1>p. <<cmd[p].name, pc[p]>> \in Places
  BY DEF ProcsTyped
<1>t. token \in {"fresh", "spent"} /\ issued \in BOOLEAN /\ tokenReported \in BOOLEAN
  BY DEF RestTyped, FlagsTyped
<1>k. {"given", "device", ""} \subseteq {""} \cup IssuedKeys
  BY DEF IssuedKeys
<1>1. CASE KeyAccepted(p)
  BY <1>1, <1>k, <1>t, AnsweredTyped DEF KeyAccepted
<1>2. CASE KeyRejected(p)
  BY <1>2, <1>t, FailsTyped DEF KeyRejected
<1>3. CASE KeyUnverified(p)
  BY <1>3, <1>k, <1>t, AnsweredTyped DEF KeyUnverified
<1>4. CASE TokenAccepted(p)
  BY <1>4, <1>k, AnsweredTyped DEF TokenAccepted
<1>5. CASE TokenFails(p)
  <2>1. tokenReported' \in BOOLEAN /\ issued' \in BOOLEAN
    BY <1>5 DEF TokenFails
  <2> QED
    BY <1>5, <1>t, <2>1, FailsTyped DEF TokenFails
<1>6. CASE ReadToml(p)
  <2>1. <<cmd[p].name, "truncate">> \in Places
    BY <1>6, <1>p DEF ReadToml, Goes, Places
  <2>2. ProcsTyped'
    BY <1>6, <2>1, GoesTyped DEF ReadToml
  <2> DEFINE old == IF toml = NoFile THEN <<>> ELSE toml
  <2>3. PICK s \in {old, <<>>} : text' = [text EXCEPT ![p] = Enrolled(s, key[p], "dev")]
    BY <1>6 DEF ReadToml
  <2>4. Settled(toml) /\ Settled(s) /\ key[p] \in {""} \cup IssuedKeys
    BY TextsSettled DEF RestTyped, LocalsTyped
  <2>5. Settled(Enrolled(s, key[p], "dev"))
    <3> HIDE DEF old
    <3> QED
      BY <2>4, EnrolledIs
  <2>6. /\ base' \in [Procs -> Seq(TomlLine)] /\ text' \in [Procs -> Seq(TomlLine)]
        /\ \A q \in Procs : Settled(base'[q]) /\ Settled(text'[q])
    BY <1>6, <2>3, <2>4, <2>5, SettledSeq DEF ReadToml, LocalsTyped
  <2>7. LocalsTyped'
    BY <1>6, <2>6 DEF ReadToml, LocalsTyped
  <2>8. FlagsTyped'
    BY <1>6 DEF ReadToml, FlagsTyped, tokenHistory
  <2>9. RestTyped'
    BY <1>6, SameRest DEF ReadToml
  <2> QED
    BY <2>2, <2>7, <2>8, <2>9
<1>7. CASE EnrollWrite(p)
  <2>1. ProcsTyped' /\ LocalsTyped'
    BY <1>7, EndsTyped DEF EnrollWrite
  <2>2. intent \in Config /\ [intent EXCEPT !.key = key[p]] \in Config
    <3>1. key[p] \in Terms
      BY DEF LocalsTyped, IssuedKeys, Terms
    <3> QED
      BY <3>1 DEF RestTyped, Config
  <2>3. RestTyped'
    BY <1>7, <2>2 DEF EnrollWrite, Written, RestTyped, LocalsTyped
  <2>4. FlagsTyped'
    BY <1>7 DEF EnrollWrite, Written, FlagsTyped
  <2> QED
    BY <2>1, <2>3, <2>4
<1> QED
  BY <1>1, <1>2, <1>3, <1>4, <1>5, <1>6, <1>7 DEF Enroll

LEMMA InstTypedStep == InstTyped /\ [Next]_vars => InstTyped'
<1> SUFFICES ASSUME InstTyped, [Next]_vars PROVE InstTyped'
  OBVIOUS
<1> USE DEF InstTyped
<1>1. CASE UNCHANGED vars
  <2>1. ProcsTyped' /\ LocalsTyped'
    BY <1>1 DEF vars, process, locals, ProcsTyped, LocalsTyped
  <2> QED
    BY <1>1, <2>1, SameRest, SameFlags DEF vars, history
<1>2. ASSUME NEW p \in Procs, NEW c \in Commands, Start(p, c) PROVE InstTyped'
  BY <1>2, InstTypedStart
<1>3. ASSUME NEW p \in Procs, InitCmd(p) PROVE InstTyped'
  BY <1>3, InstTypedInitCmd
<1>4. ASSUME NEW p \in Procs, Enroll(p) PROVE InstTyped'
  BY <1>4, InstTypedEnroll
<1>5. ASSUME NEW p \in Procs, Serve(p) PROVE InstTyped'
  <2>1. <<cmd[p].name, "serving">> \in Places
    BY <1>5 DEF Serve, Places
  <2>2. ProcsTyped'
    BY <1>5, <2>1, GoesTyped DEF Serve
  <2>3. LocalsTyped'
    BY <1>5, SameLocals DEF Serve
  <2> QED
    BY <1>5, <2>2, <2>3, SameRest, SameFlags DEF Serve, history
<1>6. ASSUME NEW p \in Procs, Outage(p) \/ Bridge(p) PROVE InstTyped'
  <2>1. ruling' \in [Procs -> {"none", "allow", "block"}]
    BY <1>6 DEF Outage, Bridge, LocalsTyped
  <2>2. UNCHANGED <<cmd, pc, seen, wanted, fresh, base, text, key, at, files, token, commands,
                   history>>
    BY <1>6 DEF Outage, Bridge
  <2>3. ProcsTyped' /\ LocalsTyped'
    BY <2>1, <2>2 DEF ProcsTyped, LocalsTyped
  <2> QED
    BY <2>2, <2>3, SameRest, SameFlags DEF history
<1>7. ASSUME NEW p \in Procs, Truncate(p) PROVE InstTyped'
  <2>1. <<cmd[p].name, "write">> \in Places
    <3>1. <<cmd[p].name, "truncate">> \in Places
      BY <1>7 DEF Truncate, Goes, ProcsTyped
    <3> QED
      BY <3>1 DEF Places
  <2>2. ProcsTyped'
    BY <1>7, <2>1, GoesTyped DEF Truncate
  <2>3. LocalsTyped'
    BY <1>7, SameLocals DEF Truncate
  <2>4. RestTyped'
    BY <1>7, TextsSettled DEF Truncate, RestTyped
  <2>5. FlagsTyped'
    BY <1>7 DEF Truncate, FlagsTyped, tokenHistory
  <2> QED
    BY <2>2, <2>3, <2>4, <2>5
<1>8. ASSUME NEW p \in Procs, UseCA(p) PROVE InstTyped'
  <2>1. ProcsTyped' /\ LocalsTyped'
    BY <1>8 DEF UseCA, process, locals, ProcsTyped, LocalsTyped
  <2> QED
    BY <1>8, <2>1, SameRest, SameFlags DEF UseCA, history
<1>9. ASSUME NEW p \in Procs, CAFails(p) PROVE InstTyped'
  <2>1. ProcsTyped' /\ LocalsTyped'
    BY <1>9, EndsTyped DEF CAFails
  <2> QED
    BY <1>9, <2>1, SameRest, SameFlags DEF CAFails, history
<1>10. ASSUME NEW p \in Procs, Dies(p) PROVE InstTyped'
  <2>1. ProcsTyped' /\ LocalsTyped'
    BY <1>10, EndsTyped DEF Dies
  <2>2. FlagsTyped'
    BY <1>10 DEF Dies, FlagsTyped
  <2> QED
    BY <1>10, <2>1, <2>2, SameRest DEF Dies
<1>11. ASSUME NEW mode \in {"open", "closed"}, EditMode(mode) PROVE InstTyped'
  <2>1. ProcsTyped' /\ LocalsTyped'
    BY <1>11 DEF EditMode, locals, ProcsTyped, LocalsTyped
  <2>2. Settled(toml')
    <3>1. mode \in Terms /\ Settled(toml) /\ LineOf(toml, "mode") # 0
      BY <1>11 DEF EditMode, RestTyped, Terms
    <3>2. Settled(Upsert(toml, "mode", mode))
      BY <3>1, UpsertSettled
    <3> QED
      BY <1>11, <3>2 DEF EditMode
  <2>3. commands' \in 0 .. MaxCommands
    BY <1>11, InstallAssumption DEF EditMode, RestTyped
  <2>4. intent' \in Config
    BY <1>11 DEF EditMode, RestTyped, Config
  <2>5. RestTyped'
    BY <1>11, <2>2, <2>3, <2>4 DEF EditMode, RestTyped
  <2>6. FlagsTyped'
    BY <1>11 DEF EditMode, FlagsTyped, tokenHistory
  <2> QED
    BY <2>1, <2>5, <2>6
<1> QED
  BY <1>1, <1>2, <1>3, <1>4, <1>5, <1>6, <1>7, <1>8, <1>9, <1>10, <1>11 DEF Next, Server

\* InstallTypeOK (Installation): every variable keeps its type, and a process
\* is idle exactly when it runs no command.
THEOREM InstallTyped == SettledTexts /\ Spec => []InstallTypeOK
<1>1. InstTyped /\ CATypeOK => InstallTypeOK
  <2> SUFFICES ASSUME InstTyped, CATypeOK PROVE InstallTypeOK
    OBVIOUS
  <2> USE DEF InstTyped
  <2>1. \A l \in ToSet(toml) : DOMAIN l = {"key", "val"}
    <3>1. toml \in Seq(TomlLine)
      BY DEF RestTyped, Settled
    <3>2. \A i \in DOMAIN toml : toml[i] \in TomlLine
      BY <3>1, ElementOfSeq, LenProperties
    <3> QED
      BY <3>2 DEF ToSet, TomlLine
  <2>2. \A p \in Procs : (pc[p] = "idle") = (cmd[p] = None)
    <3>1. ASSUME NEW p \in Procs PROVE (pc[p] = "idle") <=> (cmd[p] = None)
      <4>1. cmd[p] = None <=> cmd[p].name = "none"
        <5>1. cmd[p] \in Commands => cmd[p].name # "none"
          BY DEF Commands
        <5>2. cmd[p] \in Commands \cup {None} /\ None.name = "none"
          BY DEF ProcsTyped, None
        <5> QED
          BY <5>1, <5>2
      <4>2. <<cmd[p].name, pc[p]>> \in Places
        BY DEF ProcsTyped
      <4> QED
        BY <4>1, <4>2 DEF Places
    <3> QED
      BY <3>1
  <2>3. \A p \in Procs : {intent.mode, seen[p].mode, wanted[p]} \subseteq {"open", "closed"}
    BY DEF RestTyped, ProcsTyped, Config
  <2>4. {lost, unread, misread, stale, issued, tokenSaved, tokenReported} \subseteq BOOLEAN
    BY Zenon DEF FlagsTyped
  <2> QED
    BY <2>1, <2>2, <2>3, <2>4 DEF InstallTypeOK, ProcsTyped, LocalsTyped, RestTyped, Pcs
<1>2. SettledTexts /\ Spec => []InstTyped
  BY InstTypedInit, InstTypedStep, PTL DEF Spec
<1>3. Spec => []CATypeOK
  <2>1. CAInv => CATypeOK
    BY DEF CAInv
  <2> QED
    BY <2>1, InstallImplementsCA, CAStoreInvariant, PTL
<1> QED
  BY <1>1, <1>2, <1>3, PTL

----------------------------------------------------------------------------
(* The configuration is kept.                                              *)

\* A step of one process.
Step(p) ==
  \/ \E c \in Commands : Start(p, c)
  \/ InitCmd(p) \/ Enroll(p) \/ Server(p) \/ Bridge(p)
  \/ Truncate(p) \/ UseCA(p) \/ CAFails(p) \/ Dies(p)

Own(q) == <<cmd[q], pc[q], seen[q], wanted[q], base[q], text[q], key[q], at[q], ruling[q]>>

\* It changes the entries of no other process.
LEMMA OnlyOwn ==
  ASSUME InstTyped, NEW p \in Procs, Step(p), NEW q \in Procs, q # p
  PROVE  UNCHANGED Own(q)
<1> USE DEF InstTyped, ProcsTyped, LocalsTyped, Own, Goes, locals
<1>1. ASSUME Ends(p) PROVE UNCHANGED Own(q)
  BY <1>1 DEF Ends
<1>2. CASE \E c \in Commands : Start(p, c)
  <2>1. PICK c \in Commands : Start(p, c)
    BY <1>2
  <2>2. /\ UNCHANGED locals
        /\ pc' = [pc EXCEPT ![p] = FirstStep(c)] /\ cmd' = [cmd EXCEPT ![p] = c]
        /\ \E w : wanted' = [wanted EXCEPT ![p] = w]
        /\ \E l : seen' = [seen EXCEPT ![p] = l]
    BY <2>1 DEF Start
  <2> QED
    BY <2>2
<1>3. CASE InitStat(p) \/ InitWrite(p)
  BY <1>3 DEF InitStat, InitWrite
<1>4. CASE InitHasCA(p) \/ WriteBridge(p) \/ CreateShim(p)
  BY <1>4 DEF InitHasCA, WriteBridge, CreateShim
<1>5. CASE WriteShim(p)
  BY <1>5 DEF WriteShim
<1>6. CASE InitEnds(p) \/ CAFails(p) \/ Dies(p) \/ EnrollWrite(p) \/ Fails(p)
  BY <1>1, <1>6 DEF InitEnds, CAFails, Dies, EnrollWrite, Fails
<1>7. CASE \E k : Answered(p, k)
  BY <1>7 DEF Answered
<1>8. CASE Enroll(p) /\ ~EnrollWrite(p) /\ ~ReadToml(p)
  BY <1>6, <1>7, <1>8 DEF Enroll, KeyAccepted, KeyRejected, KeyUnverified, TokenAccepted,
                          TokenFails
<1>9. CASE ReadToml(p)
  BY <1>9 DEF ReadToml
<1>10. CASE Server(p) \/ Bridge(p)
  BY <1>10 DEF Server, Serve, Outage, Bridge
<1>11. CASE Truncate(p) \/ UseCA(p)
  BY <1>11 DEF Truncate, UseCA, process
<1> QED
  BY <1>2, <1>3, <1>4, <1>5, <1>6, <1>8, <1>9, <1>10, <1>11 DEF Step, InitCmd, Enroll

\* What a rewrite makes of a configuration c: init of the one it found missing,
\* and enroll, of any, if it has a key to save.
Meant(p, c) == IF cmd[p].name = "init" \/ key[p] = "" THEN c ELSE [key |-> key[p], mode |-> c.mode]

\* A command about to write has a text that turns the file it read into what
\* it means to configure, if it could read it.
PendingOf(p) ==
  pc[p] \in {"truncate", "write"} =>
    /\ text[p] # <<>>
    /\ unread \/ Load(text[p]) = Meant(p, Load(base[p]))

Pending == \A p \in Procs : PendingOf(p)

LEMMA PendingOwn ==
  ASSUME NEW p, PendingOf(p), UNCHANGED Own(p), unread => unread'
  PROVE  PendingOf(p)'
BY DEF PendingOf, Own, Meant

\* What has happened to agent.toml is not forgotten.
LEMMA FlagsRise ==
  ASSUME FlagsTyped, [Next]_vars
  PROVE  (lost => lost') /\ (unread => unread') /\ (misread => misread')
<1> DEFINE Rise == (lost => lost') /\ (unread => unread') /\ (misread => misread')
<1>0. ASSUME UNCHANGED <<lost, unread, misread>> PROVE Rise
  BY <1>0
<1> HIDE DEF Rise
<1>1. ASSUME UNCHANGED vars PROVE Rise
  BY <1>0, <1>1 DEF vars, history
<1>2. ASSUME NEW mode, EditMode(mode) PROVE Rise
  BY <1>0, <1>2 DEF EditMode
<1>3. ASSUME NEW p \in Procs, NEW c \in Commands, Start(p, c) PROVE Rise
  BY <1>3 DEF Start, Rise
<1>4. ASSUME NEW p \in Procs, Written(p) PROVE Rise
  BY <1>4 DEF Written, Rise
<1>5. ASSUME NEW p \in Procs, InitCmd(p), ~InitWrite(p) PROVE Rise
  <2>1. UNCHANGED <<lost, unread, misread>>
    BY <1>5 DEF InitCmd, InitStat, InitHasCA, WriteBridge, CreateShim, WriteShim, InitEnds, history
  <2> QED
    BY <1>0, <2>1
<1>6. ASSUME NEW p \in Procs, Enroll(p), ~EnrollWrite(p) PROVE Rise
  <2>1. CASE ReadToml(p)
    BY <2>1 DEF ReadToml, Rise
  <2>2. CASE ~ReadToml(p)
    <3>1. UNCHANGED <<lost, unread, misread>>
      BY <1>6, <2>2 DEF Enroll, KeyAccepted, KeyRejected, KeyUnverified, TokenAccepted, TokenFails,
                        Answered, Fails
    <3> QED
      BY <1>0, <3>1
  <2> QED
    BY <2>1, <2>2
<1>7. ASSUME NEW p \in Procs, InitWrite(p) \/ EnrollWrite(p) PROVE Rise
  BY <1>4, <1>7 DEF InitWrite, EnrollWrite
<1>8. ASSUME NEW p \in Procs, Server(p) \/ Bridge(p) \/ UseCA(p) \/ CAFails(p) PROVE Rise
  <2>1. UNCHANGED <<lost, unread, misread>>
    BY <1>8 DEF Server, Serve, Outage, Bridge, UseCA, CAFails, history
  <2> QED
    BY <1>0, <2>1
<1>9. ASSUME NEW p \in Procs, Truncate(p) PROVE Rise
  BY <1>9 DEF Truncate, Rise
<1>10. ASSUME NEW p \in Procs, Dies(p) PROVE Rise
  <2>1. misread' = misread /\ unread' = unread
    BY <1>10 DEF Dies
  <2>2. lost => lost'
    BY <1>10 DEF Dies
  <2> QED
    BY <2>1, <2>2 DEF Rise
<1>11. Rise
  BY <1>1, <1>2, <1>3, <1>5, <1>6, <1>7, <1>8, <1>9, <1>10 DEF Next
<1> QED
  BY <1>11 DEF Rise

LEMMA PendingStep ==
  ASSUME InstTyped, Pending, [Next]_vars
  PROVE  Pending'
<1>0. unread => unread'
  BY FlagsRise DEF InstTyped
<1>1. CASE UNCHANGED vars
  BY <1>1 DEF vars, process, locals, history, Pending, PendingOf, Meant
<1>2. ASSUME NEW mode, EditMode(mode) PROVE Pending'
  BY <1>2 DEF EditMode, locals, Pending, PendingOf, Meant
<1>3. ASSUME NEW p \in Procs, Step(p) PROVE Pending'
  <2>1. \A q \in Procs \ {p} : PendingOf(q)'
    BY <1>0, <1>3, OnlyOwn, PendingOwn DEF Pending
  <2>2. PendingOf(p)'
    <3> USE DEF InstTyped, ProcsTyped
    <3>1. ASSUME pc'[p] \notin {"truncate", "write"} PROVE PendingOf(p)'
      BY <3>1 DEF PendingOf
    <3>2. ASSUME Ends(p) PROVE PendingOf(p)'
      BY <3>1, <3>2 DEF Ends
    <3>3. CASE \E c \in Commands : Start(p, c)
      <4>1. PICK c \in Commands : Start(p, c)
        BY <3>3
      <4>2. FirstStep(c) \notin {"truncate", "write"}
        <5>1. c.name \in {"init", "enroll", "token", "bridge", "proxy", "system"}
          BY DEF Commands
        <5> QED
          BY <5>1 DEF FirstStep
      <4> QED
        BY <3>1, <4>1, <4>2 DEF Start, Goes
    <3>4. CASE InitStat(p)
      <4>1. CASE toml = NoFile
        <5>1. cmd'[p].name = "init" /\ base'[p] = NoFile /\ text'[p] = Template
          <6>1. pc[p] = "stat" /\ <<cmd[p].name, pc[p]>> \in Places
            BY <3>4 DEF InitStat, Goes
          <6>2. cmd[p].name = "init"
            BY <6>1 DEF Places
          <6> QED
            BY <3>4, <4>1, <6>2 DEF InitStat, LocalsTyped
        <5>2. Template # <<>> /\ Load(Template) = Load(NoFile)
          <6>1. Len(Template) = 4
            BY DEF Template
          <6>2. Len(<<>>) = 0
            BY EmptySeq
          <6>3. ASSUME Template = <<>> PROVE FALSE
            <7>1. Len(Template) = Len(<<>>)
              BY ONLY <6>3
            <7> QED
              BY ONLY <6>1, <6>2, <7>1
          <6> QED
            BY <6>3, DefaultTexts
        <5> QED
          BY <5>1, <5>2 DEF PendingOf, Meant
      <4>2. CASE toml # NoFile
        BY <3>1, <3>4, <4>2 DEF InitStat, Goes
      <4> QED
        BY <4>1, <4>2
    <3>5. CASE InitWrite(p) \/ InitHasCA(p) \/ WriteBridge(p) \/ CreateShim(p)
      BY <3>1, <3>5 DEF InitWrite, InitHasCA, WriteBridge, CreateShim, Goes
    <3>6. CASE WriteShim(p)
      BY <3>1, <3>6 DEF WriteShim, Goes
    <3>7. CASE InitEnds(p) \/ CAFails(p) \/ Dies(p) \/ EnrollWrite(p) \/ Fails(p)
      BY <3>2, <3>7 DEF InitEnds, CAFails, Dies, EnrollWrite, Fails
    <3>8. CASE \E k : Answered(p, k)
      BY <3>1, <3>8 DEF Answered, Goes
    <3>9. CASE Enroll(p) /\ ~EnrollWrite(p) /\ ~ReadToml(p)
      BY <3>7, <3>8, <3>9 DEF Enroll, KeyAccepted, KeyRejected, KeyUnverified, TokenAccepted,
                              TokenFails
    <3>10. CASE ReadToml(p)
      <4> DEFINE old == IF toml = NoFile THEN <<>> ELSE toml
      <4>1. /\ Settled(old) /\ Settled(<<>>) /\ key[p] \in {""} \cup IssuedKeys
            /\ cmd[p].name # "init"
        BY <3>10, TextsSettled DEF ReadToml, Goes, RestTyped, LocalsTyped, Places
      <4>2. Load(old) = Load(toml)
        BY DefaultTexts
      <4>3. /\ base'[p] = toml /\ UNCHANGED <<cmd, key>>
            /\ \/ text'[p] = Enrolled(old, key[p], "dev")
               \/ text'[p] = Enrolled(<<>>, key[p], "dev") /\ unread'
        BY <3>10 DEF ReadToml, LocalsTyped
      <4> HIDE DEF old
      <4>4. \A s \in {old, <<>>} :
              /\ Enrolled(s, key[p], "dev") # <<>>
              /\ Load(Enrolled(s, key[p], "dev")) =
                   [key |-> IF key[p] = "" THEN Load(s).key ELSE key[p], mode |-> Load(s).mode]
        BY <4>1, EnrolledIs
      <4>5. Load(old) = [key |-> Load(old).key, mode |-> Load(old).mode]
        BY DEF Load
      <4> QED
        BY <4>1, <4>2, <4>3, <4>4, <4>5 DEF PendingOf, Meant
    <3>11. CASE Truncate(p)
      BY <1>0, <3>11 DEF Truncate, Goes, locals, Pending, PendingOf, Meant
    <3>12. CASE UseCA(p)
      BY <1>0, <3>12 DEF UseCA, process, locals, Pending, PendingOf, Meant
    <3>13. CASE Server(p) \/ Bridge(p)
      BY <3>1, <3>13 DEF Server, Serve, Outage, Bridge, Goes
    <3> QED
      BY <1>3, <3>3, <3>4, <3>5, <3>6, <3>7, <3>9, <3>10, <3>11, <3>12, <3>13
         DEF Step, InitCmd, Enroll
  <2> QED
    BY <2>1, <2>2 DEF Pending
<1> QED
  BY <1>1, <1>2, <1>3 DEF Next, Step

\* Nobody else is in the middle of a write.
Alone(p) == \A q \in Procs \ {p} : pc[q] # "write"

\* Unless a write was lost or a read failed: the file says what was configured, and a command
\* that alone has truncated it is about to make it say so again.
Kept ==
  ~lost /\ ~unread =>
    /\ (\A p \in Procs : pc[p] # "write") => Load(toml) = intent
    /\ \A p \in Procs : pc[p] = "write" /\ Alone(p) /\ toml = <<>> =>
         Load(text[p]) = Meant(p, intent)

ConfInv == InstTyped /\ Pending /\ Kept

\* A step that leaves the file, the intent and the writers alone.
LEMMA KeptSame ==
  ASSUME Kept, lost => lost', unread => unread', UNCHANGED <<toml, intent>>,
         \A q \in Procs : pc'[q] = "write" <=> pc[q] = "write",
         \A q \in Procs : pc[q] = "write" => UNCHANGED <<cmd[q], text[q], key[q]>>
  PROVE  Kept'
<1> SUFFICES ASSUME ~lost', ~unread' PROVE Kept'
  BY DEF Kept
<1>1. ~lost /\ ~unread
  OBVIOUS
<1>2. (\A p \in Procs : pc'[p] # "write") => Load(toml') = intent'
  BY <1>1 DEF Kept
<1>3. ASSUME NEW p \in Procs, pc'[p] = "write", Alone(p)', toml' = <<>>
      PROVE  Load(text'[p]) = Meant(p, intent)'
  <2>1. pc[p] = "write" /\ Alone(p) /\ toml = <<>>
    BY <1>3 DEF Alone
  <2>2. Load(text[p]) = Meant(p, intent)
    BY <1>1, <2>1 DEF Kept
  <2>3. UNCHANGED <<cmd[p], text[p], key[p]>>
    BY <2>1
  <2> QED
    BY <2>2, <2>3 DEF Meant
<1> QED
  BY <1>2, <1>3 DEF Kept

\* One process moves, not into and not out of a write.
LEMMA KeptMove ==
  ASSUME InstTyped, Kept, lost' = lost, unread => unread', UNCHANGED <<toml, intent>>,
         NEW p \in Procs, Step(p), pc[p] # "write", pc'[p] # "write"
  PROVE  Kept'
<1>1. \A q \in Procs : q # p => UNCHANGED <<cmd[q], pc[q], text[q], key[q]>>
  BY OnlyOwn DEF Own
<1> QED
  BY <1>1, KeptSame

\* One that writes leaves the file as it meant to.
LEMMA KeptWritten ==
  ASSUME InstTyped, Pending, Kept, NEW p \in Procs, Step(p), Written(p),
         pc'[p] # "write", intent' = Meant(p, intent), unread => unread'
  PROVE  Kept'
<1>1. \A q \in Procs : q # p => pc'[q] = pc[q]
  BY OnlyOwn DEF Own
<1>2. pc[p] = "write" /\ toml' = text[p] /\ text[p] # <<>>
  BY DEF Written, Pending, PendingOf
<1>3. lost' <=> lost \/ toml # <<>>
  BY DEF Written
<1>4. ASSUME ~lost', ~unread', \A q \in Procs : pc'[q] # "write" PROVE Load(toml') = intent'
  <2>1. ~lost /\ ~unread /\ toml = <<>>
    BY <1>3, <1>4
  <2>2. Alone(p)
    BY <1>1, <1>4 DEF Alone
  <2>3. Load(text[p]) = Meant(p, intent)
    BY <1>2, <2>1, <2>2 DEF Kept
  <2> QED
    BY <1>2, <2>3
<1> QED
  BY <1>2, <1>4 DEF Kept

LEMMA KeptStep ==
  ASSUME InstTyped, Pending, Kept, [Next]_vars
  PROVE  Kept'
<1> USE DEF InstTyped, ProcsTyped
<1>0. unread => unread'
  BY FlagsRise
<1>1. CASE UNCHANGED vars
  BY <1>1 DEF vars, files, history, process, locals, Kept, Meant, Alone
<1>2. ASSUME NEW mode \in {"open", "closed"}, EditMode(mode) PROVE Kept'
  <2>1. Settled(toml) /\ mode \in Terms /\ LineOf(toml, "mode") # 0
    BY <1>2 DEF EditMode, RestTyped, Terms
  <2>2. toml' # <<>>
    BY <1>2, <2>1, UpsertSettled DEF EditMode
  <2>3. Load(toml') = [key |-> Load(toml).key, mode |-> mode]
    BY <1>2, <2>1, UpsertLoads DEF EditMode
  <2>4. Load(toml) = intent => Load(toml') = intent'
    <3>1. intent' = [key |-> intent.key, mode |-> mode]
      BY <1>2 DEF EditMode, RestTyped, Config
    <3> QED
      BY <2>3, <3>1
  <2>5. UNCHANGED <<lost, unread, pc>>
    BY <1>2 DEF EditMode
  <2> QED
    BY <2>2, <2>4, <2>5 DEF Kept
<1>3. ASSUME NEW p \in Procs, Step(p) PROVE Kept'
  <2>1. ASSUME NEW q \in Procs, Ends(q) PROVE pc'[q] # "write"
    BY <2>1 DEF Ends
  <2>2. CASE \E c \in Commands : Start(p, c)
    <3>1. PICK c \in Commands : Start(p, c)
      BY <2>2
    <3>2. FirstStep(c) # "write"
      <4>1. c.name \in {"init", "enroll", "token", "bridge", "proxy", "system"}
        BY DEF Commands
      <4> QED
        BY <4>1 DEF FirstStep
    <3>3. pc[p] # "write" /\ pc'[p] # "write"
      BY <3>1, <3>2 DEF Start, Goes
    <3> QED
      BY <1>0, <1>3, <3>1, <3>3, KeptMove DEF Start, files
  <2>3. CASE InitStat(p)
    <3>1. pc[p] # "write" /\ pc'[p] # "write"
      BY <2>3 DEF InitStat, Goes
    <3> QED
      BY <1>0, <1>3, <2>3, <3>1, KeptMove DEF InitStat, files, history
  <2>4. CASE InitWrite(p)
    <3>1. pc'[p] # "write" /\ intent' = Meant(p, intent)
      BY <2>4 DEF InitWrite, Goes, Meant
    <3> QED
      BY <1>0, <1>3, <2>4, <3>1, KeptWritten DEF InitWrite
  <2>5. CASE InitHasCA(p) \/ WriteBridge(p) \/ CreateShim(p) \/ WriteShim(p)
    <3>1. pc[p] # "write" /\ pc'[p] # "write"
      BY <2>5 DEF InitHasCA, WriteBridge, CreateShim, WriteShim, Goes
    <3>2. UNCHANGED <<toml, intent, lost>>
      BY <2>5 DEF InitHasCA, WriteBridge, CreateShim, WriteShim, files, history
    <3> QED
      BY <1>0, <1>3, <3>1, <3>2, KeptMove
  <2>6. CASE InitEnds(p) \/ CAFails(p) \/ Fails(p)
    <3>1. pc[p] # "write" /\ pc'[p] # "write"
      BY <2>1, <2>6 DEF InitEnds, CAFails, Fails
    <3>2. UNCHANGED <<toml, intent, lost>>
      BY <2>6 DEF InitEnds, CAFails, Fails, files, history
    <3> QED
      BY <1>0, <1>3, <3>1, <3>2, KeptMove
  <2>7. CASE Dies(p)
    <3>1. CASE pc[p] = "write"
      <4>1. lost'
        BY <2>7, <3>1 DEF Dies
      <4> QED
        BY <4>1 DEF Kept
    <3>2. CASE pc[p] # "write"
      <4>1. lost' = lost
        BY <2>7, <3>2 DEF Dies, FlagsTyped
      <4>2. pc'[p] # "write" /\ UNCHANGED <<toml, intent>>
        BY <2>1, <2>7 DEF Dies, files
      <4> QED
        BY <1>0, <1>3, <3>2, <4>1, <4>2, KeptMove
    <3> QED
      BY <3>1, <3>2
  <2>8. CASE EnrollWrite(p)
    <3>1. cmd[p].name # "init" /\ pc'[p] # "write" /\ Written(p)
      BY <2>1, <2>8 DEF EnrollWrite
    <3>2. intent \in Config
      BY DEF RestTyped
    <3>3. [intent EXCEPT !.key = key[p]] = [key |-> key[p], mode |-> intent.mode]
      BY ONLY <3>2 DEF Config
    <3>4. intent' = Meant(p, intent)
      BY <2>8, <3>1, <3>3 DEF EnrollWrite, Meant
    <3>5. unread => unread'
      BY <2>8 DEF EnrollWrite, Written
    <3> QED
      BY <1>0, <1>3, <3>1, <3>4, <3>5, KeptWritten
  <2>9. CASE \E k : Answered(p, k)
    <3>1. pc[p] # "write" /\ pc'[p] # "write"
      BY <2>9 DEF Answered, Goes
    <3>2. UNCHANGED <<toml, intent, lost>>
      BY <2>9 DEF Answered, files
    <3> QED
      BY <1>0, <1>3, <3>1, <3>2, KeptMove
  <2>10. CASE Enroll(p) /\ ~EnrollWrite(p) /\ ~ReadToml(p)
    BY <2>6, <2>9, <2>10 DEF Enroll, KeyAccepted, KeyRejected, KeyUnverified, TokenAccepted,
                             TokenFails
  <2>11. CASE ReadToml(p) \/ Server(p) \/ Bridge(p) \/ UseCA(p)
    <3>1. pc[p] # "write" /\ pc'[p] # "write"
      BY <2>11 DEF ReadToml, Server, Serve, Outage, Bridge, UseCA, process, Goes
    <3>2. UNCHANGED <<toml, intent, lost>>
      BY <2>11 DEF ReadToml, Server, Serve, Outage, Bridge, UseCA, files, history
    <3> QED
      BY <1>0, <1>3, <3>1, <3>2, KeptMove
  <2>12. CASE Truncate(p)
    <3>1. lost' <=> lost \/ toml # base[p]
      BY <2>12 DEF Truncate
    <3>2. pc[p] = "truncate" /\ pc'[p] = "write" /\ UNCHANGED <<cmd, text, key, intent>>
      BY <2>12 DEF Truncate, Goes, locals
    <3>3. \A q \in Procs : q # p => pc'[q] = pc[q]
      BY <1>3, OnlyOwn DEF Own
    <3>4. ASSUME ~lost', ~unread', NEW q \in Procs, pc'[q] = "write", Alone(q)'
          PROVE  Load(text'[q]) = Meant(q, intent)'
      <4>1. q = p
        BY <3>2, <3>4 DEF Alone
      <4>2. \A r \in Procs : pc[r] # "write"
        BY <3>2, <3>3, <3>4, <4>1 DEF Alone
      <4>3. ~lost /\ ~unread /\ toml = base[p]
        BY <1>0, <3>1, <3>4
      <4>4. Load(base[p]) = intent
        BY <4>2, <4>3 DEF Kept
      <4>5. Load(text[p]) = Meant(p, intent)
        BY <3>2, <4>3, <4>4 DEF Pending, PendingOf
      <4> QED
        BY <3>2, <4>1, <4>5 DEF Meant
    <3>5. ~ \A q \in Procs : pc'[q] # "write"
      BY <3>2
    <3> QED
      BY <3>4, <3>5 DEF Kept
  <2> QED
    BY <1>3, <2>2, <2>3, <2>4, <2>5, <2>6, <2>7, <2>8, <2>10, <2>11, <2>12
       DEF Step, InitCmd, Enroll
<1> QED
  BY <1>1, <1>2, <1>3 DEF Next, Step

LEMMA ConfInit == SettledTexts /\ Init => ConfInv
<1> SUFFICES ASSUME SettledTexts, Init PROVE ConfInv
  OBVIOUS
<1>1. InstTyped
  BY InstTypedInit
<1>2. \A p \in Procs : pc[p] = "idle"
  BY DEF Init
<1>3. Load(toml) = intent
  BY DEF Init
<1> QED
  BY <1>1, <1>2, <1>3 DEF ConfInv, Pending, PendingOf, Kept

LEMMA ConfStep == ConfInv /\ [Next]_vars => ConfInv'
  BY InstTypedStep, PendingStep, KeptStep DEF ConfInv

\* ConfigAsIntended (Installation): the key of the last enrollment and the mode
\* the user last set survive every enroll and init, whatever else a settled text
\* says, unless a write was lost or enroll could not read the file.
THEOREM ConfigKept == SettledTexts /\ Spec => []ConfigAsIntended
<1>1. ConfInv => ConfigAsIntended
  BY DEF ConfInv, Kept, ConfigAsIntended
<1> QED
  BY <1>1, ConfInit, ConfStep, PTL DEF Spec

----------------------------------------------------------------------------
(* What a command loaded when it started is what was configured.           *)

\* A command that starts while nothing is lost, and the file is neither
\* half-written nor unreadable, loads what was configured.
LEMMA StartSees ==
  ASSUME InstTyped, Kept, NEW p \in Procs, NEW c \in Commands, Start(p, c),
         ~lost', ~unread', ~misread'
  PROVE  seen'[p] = intent /\ wanted'[p] = intent.mode /\ cmd'[p] = c
<1>1. ~lost /\ ~unread /\ ~misread'
  BY DEF Start
<1>2. /\ seen' = [seen EXCEPT ![p] = Load(toml)]
      /\ misread' = (misread \/ \E q \in Procs : pc[q] = "write")
  BY <1>1 DEF Start
<1>3. Load(toml) = intent
  BY <1>1, <1>2 DEF Kept
<1>4. wanted' = [wanted EXCEPT ![p] = intent.mode] /\ cmd' = [cmd EXCEPT ![p] = c]
  BY DEF Start
<1> QED
  BY <1>2, <1>3, <1>4 DEF InstTyped, ProcsTyped

\* What a process that has started, and goes on, has loaded does not change.
LEMMA SeenKept ==
  ASSUME InstTyped, NEW p \in Procs, Step(p), ~ \E c \in Commands : Start(p, c)
  PROVE  Ends(p) \/ UNCHANGED <<cmd, seen, wanted, fresh>>
<1>2. CASE InitCmd(p)
  BY <1>2 DEF InitCmd, InitStat, InitWrite, InitHasCA, WriteBridge, CreateShim, WriteShim,
              InitEnds
<1>3. CASE Enroll(p)
  BY <1>3 DEF Enroll, KeyAccepted, KeyRejected, KeyUnverified, TokenAccepted, TokenFails,
              Answered, Fails, ReadToml, EnrollWrite
<1>4. CASE Server(p) \/ Bridge(p) \/ UseCA(p)
  BY <1>4 DEF Server, Serve, Outage, Bridge, UseCA, process
<1>5. CASE Truncate(p)
  BY <1>5 DEF Truncate
<1>6. CASE Dies(p) \/ CAFails(p)
  BY <1>6 DEF Dies, CAFails
<1> QED
  BY <1>2, <1>3, <1>4, <1>5, <1>6 DEF Step

\* Every command runs with the mode that was intended when it started.
Wanted ==
  ~lost /\ ~unread /\ ~misread =>
    \A p \in Procs : cmd[p] # None => seen[p].mode = wanted[p]

LEMMA WantedStep ==
  ASSUME InstTyped, Kept, Wanted, [Next]_vars
  PROVE  Wanted'
<1> SUFFICES ASSUME ~lost', ~unread', ~misread' PROVE Wanted'
  BY DEF Wanted
<1>0. ~lost /\ ~unread /\ ~misread
  BY FlagsRise DEF InstTyped
<1>1. CASE UNCHANGED <<cmd, seen, wanted>>
  BY <1>0, <1>1 DEF Wanted
<1>2. ASSUME NEW p \in Procs, Step(p) PROVE Wanted'
  <2>1. \A q \in Procs : q # p => UNCHANGED <<cmd[q], seen[q], wanted[q]>>
    BY <1>2, OnlyOwn DEF Own
  <2>2. cmd'[p] # None => seen'[p].mode = wanted'[p]
    <3>1. CASE \E c \in Commands : Start(p, c)
      BY <3>1, StartSees
    <3>2. CASE ~ \E c \in Commands : Start(p, c)
      <4>1. Ends(p) => cmd'[p] = None
        BY DEF Ends, InstTyped, ProcsTyped
      <4>2. Ends(p) \/ UNCHANGED <<cmd, seen, wanted, fresh>>
        BY <1>2, <3>2, SeenKept
      <4> QED
        BY <1>0, <4>1, <4>2 DEF Wanted
    <3> QED
      BY <3>1, <3>2
  <2> QED
    BY <1>0, <2>1, <2>2 DEF Wanted
<1>3. ASSUME NEW mode, EditMode(mode) PROVE Wanted'
  BY <1>1, <1>3 DEF EditMode
<1>4. CASE UNCHANGED vars
  BY <1>1, <1>4 DEF vars, process
<1> QED
  BY <1>2, <1>3, <1>4 DEF Next, Step

\* Only a server or a bridge has ruled, and a server that lets a package
\* through in an outage has neither --strict nor, in `proxy`, fail_mode=closed.
RuledOf(p) ==
  /\ pc[p] \notin {"serving", "discover"} => ruling[p] = "none"
  /\ pc[p] = "serving" /\ ruling[p] = "allow" => ~Strict(p) /\ HandlerMode(p) # "closed"

Ruled == \A p \in Procs : RuledOf(p)

\* No other step of a process touches its ruling or what it follows from.
LEMMA RulingKept ==
  ASSUME InstTyped, NEW p \in Procs, Step(p), ~Outage(p), ~Bridge(p)
  PROVE  \/ ruling'[p] = "none"
         \/ /\ UNCHANGED <<ruling[p], cmd[p], seen[p]>>
            /\ pc[p] = pc'[p] \/ pc[p] \notin {"serving", "discover"}
         \/ ruling'[p] = ruling[p] /\ pc[p] = "idle"
<1> USE DEF InstTyped, ProcsTyped, LocalsTyped, Goes
<1>1. ASSUME Ends(p) PROVE ruling'[p] = "none"
  BY <1>1 DEF Ends
<1>2. CASE InitCmd(p)
  BY <1>1, <1>2 DEF InitCmd, InitStat, InitWrite, InitHasCA, WriteBridge, CreateShim, WriteShim,
                    InitEnds, locals
<1>3. CASE Enroll(p)
  BY <1>1, <1>3 DEF Enroll, KeyAccepted, KeyRejected, KeyUnverified, TokenAccepted, TokenFails,
                    Answered, Fails, ReadToml, EnrollWrite, locals
<1>4. CASE Serve(p) \/ UseCA(p) \/ Truncate(p)
  BY <1>4 DEF Serve, UseCA, Truncate, process, locals
<1>5. CASE Dies(p) \/ CAFails(p)
  BY <1>1, <1>5 DEF Dies, CAFails
<1>6. CASE \E c \in Commands : Start(p, c)
  BY <1>6 DEF Start, locals
<1> QED
  BY <1>2, <1>3, <1>4, <1>5, <1>6 DEF Step, Server

LEMMA RuledStep ==
  ASSUME InstTyped, Ruled, [Next]_vars
  PROVE  Ruled'
<1> USE DEF InstTyped, ProcsTyped
<1>1. CASE UNCHANGED <<cmd, pc, seen, ruling>>
  BY <1>1 DEF Ruled, RuledOf, Strict, HandlerMode
<1>2. ASSUME NEW p \in Procs, Step(p) PROVE Ruled'
  <2>1. ASSUME NEW q \in Procs, q # p PROVE RuledOf(q)'
    <3>1. UNCHANGED <<cmd[q], pc[q], seen[q], ruling[q]>>
      BY <1>2, <2>1, OnlyOwn DEF Own
    <3> QED
      BY <3>1 DEF Ruled, RuledOf, Strict, HandlerMode
  <2>2. RuledOf(p)'
    <3>1. CASE Outage(p)
      <4>1. /\ pc[p] = "serving" /\ UNCHANGED <<cmd, pc, seen>>
            /\ ruling'[p] = IF Strict(p) \/ HandlerMode(p) = "closed" THEN "block" ELSE "allow"
        BY <3>1 DEF Outage, LocalsTyped
      <4> QED
        BY <4>1 DEF RuledOf, Strict, HandlerMode
    <3>2. CASE Bridge(p)
      BY <3>2 DEF Bridge, RuledOf
    <3>3. CASE ~Outage(p) /\ ~Bridge(p)
      <4>1. CASE ruling'[p] = "none"
        BY <4>1 DEF RuledOf
      <4>2. CASE /\ UNCHANGED <<ruling[p], cmd[p], seen[p]>>
                 /\ pc[p] = pc'[p] \/ pc[p] \notin {"serving", "discover"}
        BY <4>2 DEF Ruled, RuledOf, Strict, HandlerMode
      <4>3. CASE ruling'[p] = ruling[p] /\ pc[p] = "idle"
        BY <4>1, <4>3 DEF Ruled, RuledOf
      <4> QED
        BY <1>2, <3>3, <4>1, <4>2, <4>3, RulingKept
    <3> QED
      BY <3>1, <3>2, <3>3
  <2> QED
    BY <2>1, <2>2 DEF Ruled
<1>3. ASSUME NEW mode, EditMode(mode) PROVE Ruled'
  BY <1>1, <1>3 DEF EditMode, locals
<1>4. CASE UNCHANGED vars
  BY <1>1, <1>4 DEF vars, process, locals
<1> QED
  BY <1>2, <1>3, <1>4 DEF Next, Step

\* OutageBlocks (Installation): in an outage --strict blocks in both servers,
\* and the fail mode that was configured when it started blocks in `proxy`.
THEOREM OutageEnforced == SettledTexts /\ Spec => []OutageBlocks
<1>1. Init => Wanted /\ Ruled
  <2> SUFFICES ASSUME Init PROVE Wanted /\ Ruled
    OBVIOUS
  <2>1. \A p \in Procs : cmd[p] = None /\ pc[p] = "idle" /\ ruling[p] = "none"
    BY DEF Init
  <2> QED
    BY <2>1 DEF Wanted, Ruled, RuledOf
<1>2. ConfInv /\ Wanted /\ Ruled /\ [Next]_vars => Wanted' /\ Ruled'
  BY WantedStep, RuledStep DEF ConfInv
<1>3. ConfInv /\ Wanted /\ Ruled => OutageBlocks
  <2> SUFFICES ASSUME ConfInv, Wanted, Ruled, ~lost, ~unread, ~misread, NEW p \in Procs,
                      pc[p] = "serving", ruling[p] = "allow"
               PROVE  ~cmd[p].strict /\ (wanted[p] = "open" \/ cmd[p].name = "system")
    BY DEF OutageBlocks
  <2>1. <<cmd[p].name, "serving">> \in Places /\ wanted[p] \in {"open", "closed"}
    BY DEF ConfInv, InstTyped, ProcsTyped
  <2>2. cmd[p].name \in {"proxy", "system"}
    BY <2>1 DEF Places
  <2>3. seen[p].mode = wanted[p]
    BY <2>2 DEF Wanted, None
  <2>4. ~Strict(p) /\ HandlerMode(p) # "closed"
    BY DEF Ruled, RuledOf
  <2> QED
    BY <2>1, <2>2, <2>3, <2>4 DEF Strict, HandlerMode
<1> QED
  BY <1>1, <1>2, <1>3, ConfInit, ConfStep, PTL DEF Spec

----------------------------------------------------------------------------
(* The shims.                                                              *)

\* A fresh init has put right the shims it has written.
Righted(p) ==
  \A i \in 1 .. Managers :
    (i < at[p] \/ pc[p] = "path") /\ shims[i] \in {"open", "closed"} => shims[i] = intent.mode

\* Every init at work is to bake the mode that is configured.
InitsAgree == \A p \in Procs : cmd[p].name = "init" => wanted[p] = intent.mode

\* Unless something was lost, unread or misread: without a stale mode each
\* finished shim has the mode that was configured, and so has what a fresh init
\* has written; in both cases every init at work bakes that mode.
Baking ==
  ~lost /\ ~unread /\ ~misread =>
    /\ ~stale => /\ InitsAgree
                 /\ \A i \in 1 .. Managers :
                      shims[i] \in {"open", "closed"} => shims[i] = intent.mode
    /\ \A p \in Procs : fresh[p] => InitsAgree /\ Righted(p)

\* A process that is idle is at its first shim.
FirstShim == \A p \in Procs : pc[p] = "idle" => at[p] = 1

\* No step of a process changes the mode that is configured.
LEMMA ModeKept ==
  ASSUME InstTyped, NEW p \in Procs, Step(p)
  PROVE  intent'.mode = intent.mode
<1>1. CASE \E c \in Commands : Start(p, c)
  BY <1>1 DEF Start
<1>2. CASE InitCmd(p)
  BY <1>2 DEF InitCmd, InitStat, InitWrite, InitHasCA, WriteBridge, CreateShim, WriteShim,
              InitEnds, history
<1>3. CASE Enroll(p) /\ ~EnrollWrite(p)
  BY <1>3 DEF Enroll, KeyAccepted, KeyRejected, KeyUnverified, TokenAccepted, TokenFails,
              Answered, Fails, ReadToml
<1>4. CASE EnrollWrite(p)
  <2>1. intent \in Config
    BY DEF InstTyped, RestTyped
  <2>2. [intent EXCEPT !.key = key[p]].mode = intent.mode
    BY ONLY <2>1 DEF Config
  <2> QED
    BY <1>4, <2>2 DEF EnrollWrite
<1>5. CASE Server(p) \/ Bridge(p) \/ UseCA(p) \/ CAFails(p)
  BY <1>5 DEF Server, Serve, Outage, Bridge, UseCA, CAFails, history
<1>6. CASE Truncate(p) \/ Dies(p)
  BY <1>6 DEF Truncate, Dies
<1> QED
  BY <1>1, <1>2, <1>3, <1>4, <1>5, <1>6 DEF Step, Enroll

\* Only init writes shims, and only its last step clears stale.
LEMMA ShimsKept ==
  ASSUME InstTyped, NEW p \in Procs, Step(p), ~CreateShim(p), ~WriteShim(p)
  PROVE  UNCHANGED shims /\ (InitEnds(p) \/ stale' = stale)
<1>1. CASE \E c \in Commands : Start(p, c)
  BY <1>1 DEF Start, files
<1>2. CASE InitCmd(p)
  BY <1>2 DEF InitCmd, InitStat, InitWrite, Written, InitHasCA, WriteBridge, InitEnds, files,
              history
<1>3. CASE Enroll(p)
  BY <1>3 DEF Enroll, KeyAccepted, KeyRejected, KeyUnverified, TokenAccepted, TokenFails,
              Answered, Fails, ReadToml, EnrollWrite, Written, files
<1>4. CASE Server(p) \/ Bridge(p) \/ UseCA(p) \/ CAFails(p)
  BY <1>4 DEF Server, Serve, Outage, Bridge, UseCA, CAFails, files, history
<1>5. CASE Truncate(p) \/ Dies(p)
  BY <1>5 DEF Truncate, Dies, files
<1> QED
  BY <1>1, <1>2, <1>3, <1>4, <1>5 DEF Step

\* Only writing a shim moves init on to the next one.
LEMMA AtKept ==
  ASSUME InstTyped, NEW p \in Procs, Step(p), ~WriteShim(p)
  PROVE  \/ Ends(p)
         \/ at' = at /\ pc'[p] # "path" /\ pc'[p] # "idle"
<1> USE DEF InstTyped, ProcsTyped, Goes
<1>1. ASSUME NEW c \in Commands, Start(p, c) PROVE at' = at /\ pc'[p] \notin {"path", "idle"}
  <2>1. c.name \in {"init", "enroll", "token", "bridge", "proxy", "system"}
    BY DEF Commands
  <2>2. FirstStep(c) \notin {"path", "idle"}
    BY <2>1 DEF FirstStep
  <2> QED
    BY <1>1, <2>2 DEF Start, locals
<1>2. CASE InitStat(p) \/ InitWrite(p) \/ InitEnds(p)
  BY <1>2 DEF InitStat, InitWrite, InitEnds
<1>3. CASE InitHasCA(p) \/ WriteBridge(p) \/ CreateShim(p)
  BY <1>3 DEF InitHasCA, WriteBridge, CreateShim, locals
<1>4. CASE Enroll(p)
  BY <1>4 DEF Enroll, KeyAccepted, KeyRejected, KeyUnverified, TokenAccepted, TokenFails,
              Answered, Fails, ReadToml, EnrollWrite, locals
<1>5. CASE Serve(p) \/ UseCA(p)
  BY <1>5 DEF Serve, UseCA, process, locals
<1>6. CASE Outage(p) \/ Bridge(p)
  BY <1>6 DEF Outage, Bridge
<1>7. CASE Truncate(p)
  BY <1>7 DEF Truncate, locals
<1>8. CASE CAFails(p) \/ Dies(p)
  BY <1>8 DEF Dies, CAFails
<1> QED
  BY <1>1, <1>2, <1>3, <1>4, <1>5, <1>6, <1>7, <1>8 DEF Step, InitCmd, Server

LEMMA FirstShimStep ==
  ASSUME InstTyped, FirstShim, [Next]_vars
  PROVE  FirstShim'
<1>1. ASSUME NEW p \in Procs, Step(p) PROVE FirstShim'
  <2>1. \A q \in Procs : q # p => UNCHANGED <<pc[q], at[q]>>
    BY <1>1, OnlyOwn DEF Own
  <2>2. pc'[p] = "idle" => at'[p] = 1
    <3>1. CASE WriteShim(p)
      BY <3>1 DEF WriteShim, Goes, InstTyped, ProcsTyped
    <3>2. CASE Ends(p)
      BY <3>2 DEF Ends, InstTyped, LocalsTyped
    <3> QED
      BY <1>1, <3>1, <3>2, AtKept
  <2> QED
    BY <2>1, <2>2 DEF FirstShim
<1>2. ASSUME NEW mode, EditMode(mode) PROVE FirstShim'
  BY <1>2 DEF EditMode, locals, FirstShim
<1>3. CASE UNCHANGED vars
  BY <1>3 DEF vars, process, locals, FirstShim
<1> QED
  BY <1>1, <1>2, <1>3 DEF Next, Step

\* What a step that is not an edit leaves of Baking is what its parts show: the
\* inits that are at work, the shims, and what is fresh.
LEMMA BakingStep ==
  ASSUME InstTyped, Kept, Wanted, FirstShim, Baking, [Next]_vars
  PROVE  Baking'
<1> USE DEF InstTyped, ProcsTyped
<1> SUFFICES ASSUME ~lost', ~unread', ~misread' PROVE Baking'
  BY DEF Baking
<1>0. ~lost /\ ~unread /\ ~misread
  BY FlagsRise
<1>1. CASE UNCHANGED vars
  BY <1>0, <1>1 DEF vars, files, process, locals, history, Baking, InitsAgree, Righted
<1>2. ASSUME NEW mode, EditMode(mode) PROVE Baking'
  BY <1>2 DEF EditMode, Baking
<1>3. ASSUME NEW p \in Procs, Step(p) PROVE Baking'
  <2>1. intent'.mode = intent.mode
    BY <1>3, ModeKept
  <2>2. \A q \in Procs : q # p => UNCHANGED <<cmd[q], pc[q], wanted[q], at[q]>>
    BY <1>3, OnlyOwn DEF Own
  <2>3. None.name # "init"
    BY DEF None
  <2>4. CASE \E c \in Commands : Start(p, c)
    <3>1. PICK c \in Commands : Start(p, c)
      BY <2>4
    <3>2. wanted'[p] = intent.mode
      BY <3>1, StartSees
    <3>3. InitsAgree => InitsAgree'
      BY <2>1, <2>2, <3>2 DEF InitsAgree
    <3>4. UNCHANGED <<shims, stale, at>> /\ at[p] = 1 /\ pc'[p] # "path"
      BY <3>1 DEF Start, Goes, files, locals, FirstShim, FirstStep, Commands
    <3>5. ASSUME NEW q \in Procs, q # p, fresh'[q] PROVE InitsAgree /\ Righted(q)'
      <4>1. fresh[q]
        BY <3>1, <3>5 DEF Start
      <4> QED
        BY <1>0, <2>1, <2>2, <3>4, <3>5, <4>1 DEF Baking, Righted
    <3>6. ASSUME fresh'[p] PROVE InitsAgree /\ Righted(p)'
      <4>1. InitsAgree
        BY <3>1, <3>6 DEF Start, InitsAgree
      <4>2. \A i \in 1 .. Managers : ~(i < at'[p])
        BY <3>4
      <4> QED
        BY <3>4, <4>1, <4>2 DEF Righted
    <3>7. \A q \in Procs : fresh'[q] => InitsAgree' /\ Righted(q)'
      BY <3>3, <3>5, <3>6
    <3>8. ~stale' => InitsAgree' /\ \A i \in 1 .. Managers :
                       shims'[i] \in {"open", "closed"} => shims'[i] = intent'.mode
      BY <1>0, <2>1, <3>3, <3>4 DEF Baking
    <3> QED
      BY <3>7, <3>8 DEF Baking
  <2>5. CASE CreateShim(p) \/ WriteShim(p)
    <3>1. UNCHANGED <<cmd, wanted, fresh, stale>> /\ pc[p] \in {"createShim", "writeShim"}
      BY <2>5 DEF CreateShim, WriteShim, Goes, history
    <3>2. cmd[p].name = "init"
      <4>1. <<cmd[p].name, pc[p]>> \in Places
        OBVIOUS
      <4> QED
        BY <3>1, <4>1 DEF Places
    <3>3. Baked(p) = wanted[p]
      BY <1>0, <2>3, <3>2 DEF Baked, Wanted
    <3>4. InitsAgree => InitsAgree' /\ Baked(p) = intent.mode
      BY <2>1, <3>1, <3>2, <3>3 DEF InitsAgree
    <3>5. \A i \in 1 .. Managers : shims'[i] \in {shims[i], "empty", Baked(p)}
      BY <2>5 DEF CreateShim, WriteShim, RestTyped, LocalsTyped
    <3>6. ASSUME NEW q \in Procs, q # p, fresh[q] PROVE Righted(q)'
      <4>1. InitsAgree /\ Righted(q)
        BY <1>0, <3>6 DEF Baking
      <4> QED
        BY <2>1, <2>2, <3>4, <3>5, <3>6, <4>1 DEF Righted
    <3>7. ASSUME fresh[p] PROVE Righted(p)'
      <4>1. InitsAgree /\ Righted(p) /\ Baked(p) = intent.mode
        BY <1>0, <3>4, <3>7 DEF Baking
      <4>2. SUFFICES ASSUME NEW i \in 1 .. Managers, i < at'[p] \/ pc'[p] = "path",
                            shims'[i] \in {"open", "closed"}
                     PROVE  shims'[i] = intent.mode
        BY <2>1 DEF Righted
      <4>3. CASE CreateShim(p)
        <5>1. pc'[p] # "path" /\ at' = at
          BY <4>3 DEF CreateShim, Goes, locals
        <5> QED
          BY <3>5, <4>1, <4>2, <5>1 DEF Righted
      <4>4. CASE WriteShim(p)
        <5>1. shims'[at[p]] = intent.mode
          BY <4>1, <4>4 DEF WriteShim, RestTyped, LocalsTyped
        <5>2. at[p] \in 1 .. Managers /\ Managers \in Nat
          BY InstallAssumption DEF LocalsTyped
        <5>3. i <= at[p]
          <6>1. CASE at[p] < Managers
            <7>1. pc'[p] # "path" /\ at'[p] = at[p] + 1
              BY <4>4, <6>1 DEF WriteShim, Goes, LocalsTyped
            <7> QED
              BY <4>2, <5>2, <7>1
          <6>2. CASE ~(at[p] < Managers)
            BY <5>2, <6>2
          <6> QED
            BY <6>1, <6>2
        <5>4. CASE i = at[p]
          BY <5>1, <5>4
        <5>5. CASE i < at[p]
          BY <3>5, <4>1, <4>2, <5>5 DEF Righted
        <5> QED
          BY <5>2, <5>3, <5>4, <5>5
      <4> QED
        BY <2>5, <4>3, <4>4
    <3>8. \A q \in Procs : fresh'[q] => InitsAgree' /\ Righted(q)'
      BY <1>0, <3>1, <3>4, <3>6, <3>7 DEF Baking
    <3>9. ~stale' => InitsAgree' /\ \A i \in 1 .. Managers :
                       shims'[i] \in {"open", "closed"} => shims'[i] = intent'.mode
      BY <1>0, <2>1, <3>1, <3>4, <3>5 DEF Baking
    <3> QED
      BY <3>8, <3>9 DEF Baking
  <2>6. CASE ~CreateShim(p) /\ ~WriteShim(p) /\ ~ \E c \in Commands : Start(p, c)
    <3>1. UNCHANGED shims /\ (InitEnds(p) \/ stale' = stale)
      BY <1>3, <2>6, ShimsKept
    <3>2. Ends(p) \/ UNCHANGED <<cmd, seen, wanted, fresh>>
      BY <1>3, <2>6, SeenKept
    <3>3. Ends(p) => cmd'[p] = None /\ fresh'[p] = FALSE
      BY DEF Ends
    <3>4. InitsAgree => InitsAgree'
      BY <2>1, <2>2, <2>3, <3>2, <3>3 DEF InitsAgree
    <3>5. ASSUME NEW q \in Procs, fresh'[q] PROVE InitsAgree /\ Righted(q)'
      <4>1. fresh[q] /\ (Ends(p) => q # p)
        BY <3>2, <3>3, <3>5 DEF Ends
      <4>2. InitsAgree /\ Righted(q)
        BY <1>0, <4>1 DEF Baking
      <4>3. CASE q # p
        BY <2>1, <2>2, <3>1, <4>2, <4>3 DEF Righted
      <4>4. CASE q = p
        <5>1. at' = at /\ pc'[p] # "path"
          BY <1>3, <2>6, <4>1, <4>4, AtKept
        <5> QED
          BY <2>1, <3>1, <4>2, <4>4, <5>1 DEF Righted
      <4> QED
        BY <4>3, <4>4
    <3>6. ASSUME ~stale'
          PROVE  InitsAgree /\ \A i \in 1 .. Managers :
                   shims[i] \in {"open", "closed"} => shims[i] = intent.mode
      <4>1. CASE ~stale
        BY <1>0, <4>1 DEF Baking
      <4>2. CASE stale
        <5>1. InitEnds(p)
          BY <3>1, <3>6, <4>2
        <5>2. fresh[p] /\ pc[p] = "path"
          BY <3>6, <4>2, <5>1 DEF InitEnds
        <5>3. InitsAgree /\ Righted(p)
          BY <1>0, <5>2 DEF Baking
        <5> QED
          BY <5>2, <5>3 DEF Righted
      <4> QED
        BY <4>1, <4>2 DEF FlagsTyped
    <3> QED
      BY <2>1, <3>1, <3>4, <3>5, <3>6 DEF Baking
  <2> QED
    BY <2>4, <2>5, <2>6
<1> QED
  BY <1>1, <1>2, <1>3 DEF Next, Step

\* ShimsAsConfigured (Installation): a finished shim has the configured mode,
\* unless no fresh init has ended since an edit, or the file was damaged or not
\* read.
THEOREM ShimsConfigured == SettledTexts /\ Spec => []ShimsAsConfigured
<1>1. Init => Wanted /\ FirstShim /\ Baking
  <2> SUFFICES ASSUME Init PROVE Wanted /\ FirstShim /\ Baking
    OBVIOUS
  <2>1. /\ \A i \in 1 .. Managers : shims[i] = "absent"
        /\ \A p \in Procs : /\ cmd[p] = None /\ cmd[p].name = "none"
                            /\ at[p] = 1 /\ fresh[p] = FALSE
    BY DEF Init, None
  <2> QED
    BY <2>1 DEF Wanted, FirstShim, Baking, InitsAgree
<1>2. ConfInv /\ Wanted /\ FirstShim /\ Baking /\ [Next]_vars
        => Wanted' /\ FirstShim' /\ Baking'
  BY WantedStep, FirstShimStep, BakingStep DEF ConfInv
<1>3. Baking => ShimsAsConfigured
  BY DEF Baking, ShimsAsConfigured
<1> QED
  BY <1>1, <1>2, <1>3, ConfInit, ConfStep, PTL DEF Spec
=============================================================================
