------------------------------- MODULE CAStore ------------------------------
(***************************************************************************)
(* EnsureCA and GenerateCA (internal/proxy/ca.go) as run by several        *)
(* processes over one directory.  The pair is two files, each truncated    *)
(* and then written; a process decides by os.Stat alone whether to         *)
(* generate, and one that ends half-way leaves what it wrote.              *)
(* Simplifications: the two Stats are one step, because files are never    *)
(* removed and an absent certificate decides before the key is looked at;  *)
(* so are the two reads of LoadX509KeyPair.  A second writer of a file     *)
(* replaces what the first wrote.                                          *)
(***************************************************************************)
EXTENDS Integers

CONSTANT Procs   \* the processes that may need the CA

\* The content of a file; a number names the key pair it belongs to.
Absent == -1
Empty == 0

VARIABLES cert, caKey,  \* phoenix-ca.crt and phoenix-ca.key
          caPc,         \* where each process is in EnsureCA
          pair,         \* the key pair a process generates, then the CA it loaded
          trusted,      \* the certificate in the system's trust store, or 0
          generated,    \* how many key pairs were generated
          torn,         \* history: a process ended while the key file was empty
          raced         \* history: EnsureCA began while another was generating

caFiles == <<cert, caKey>>
caVars == <<caFiles, caPc, pair, trusted, generated, torn, raced>>

Writing == {"createCert", "writeCert", "createKey", "writeKey"}

CATypeOK ==
  /\ generated \in Nat
  /\ {cert, caKey} \subseteq Absent .. generated
  /\ trusted \in 0 .. generated
  /\ caPc \in [Procs -> {"idle", "load", "loaded", "failed"} \cup Writing]
  /\ pair \in [Procs -> 0 .. generated]
  /\ torn \in BOOLEAN /\ raced \in BOOLEAN

CAInit ==
  /\ cert = Absent /\ caKey = Absent
  /\ caPc = [p \in Procs |-> "idle"]
  /\ pair = [p \in Procs |-> 0]
  /\ trusted = 0
  /\ generated = 0
  /\ torn = FALSE /\ raced = FALSE

CAGoes(p, from, to) == caPc[p] = from /\ caPc' = [caPc EXCEPT ![p] = to]

Usable == cert = caKey /\ cert > 0

----------------------------------------------------------------------------
\* Mutant: a new CA for each session.
MissingOrOld == TRUE

\* os.Stat of both files.
Missing == Absent \in {cert, caKey}

\* EnsureCA begins: it loads the pair if both files exist.
StatCA(p) ==
  /\ caPc[p] = "idle"
  /\ raced' = (raced \/ \E q \in Procs : caPc[q] \in Writing)
  /\ IF Missing
     THEN /\ generated' = generated + 1
          /\ pair' = [pair EXCEPT ![p] = generated']
          /\ caPc' = [caPc EXCEPT ![p] = "createCert"]
     ELSE /\ caPc' = [caPc EXCEPT ![p] = "load"]
          /\ UNCHANGED <<generated, pair>>
  /\ UNCHANGED <<caFiles, trusted, torn>>

\* Mutant: both files are created before either is written.
CreateBoth(p) ==
  /\ CAGoes(p, "createCert", "writeCert")
  /\ cert' = Empty /\ caKey' = Empty
  /\ UNCHANGED <<pair, trusted, generated, torn, raced>>

\* GenerateCA: each file is created or truncated, then written.
CreateCert(p) ==
  /\ CAGoes(p, "createCert", "writeCert")
  /\ cert' = Empty
  /\ UNCHANGED <<caKey, pair, trusted, generated, torn, raced>>

WriteCert(p) ==
  /\ CAGoes(p, "writeCert", "createKey")
  /\ cert' = pair[p]
  /\ UNCHANGED <<caKey, pair, trusted, generated, torn, raced>>

CreateKey(p) ==
  /\ CAGoes(p, "createKey", "writeKey")
  /\ caKey' = Empty
  /\ UNCHANGED <<cert, pair, trusted, generated, torn, raced>>

WriteKey(p) ==
  /\ CAGoes(p, "writeKey", "load")
  /\ caKey' = pair[p]
  /\ UNCHANGED <<cert, pair, trusted, generated, torn, raced>>

LoadCA(p) ==
  /\ CAGoes(p, "load", IF Usable THEN "loaded" ELSE "failed")
  /\ pair' = [pair EXCEPT ![p] = IF Usable THEN cert ELSE 0]
  /\ UNCHANGED <<caFiles, trusted, generated, torn, raced>>

\* InjectCA copies the certificate on disk into the trust store; that needs
\* privileges, and its failure is only a warning.
InjectCA(p) ==
  /\ caPc[p] = "loaded"
  /\ trusted' = IF cert > 0 THEN cert ELSE trusted
  /\ UNCHANGED <<caFiles, caPc, pair, generated, torn, raced>>

\* The process ends, by a crash, an I/O error or at the end of its command.
LeaveCA(p) ==
  /\ caPc' = [caPc EXCEPT ![p] = "idle"]
  /\ pair' = [pair EXCEPT ![p] = 0]
  /\ torn' = (torn \/ caPc[p] = "writeKey")
  /\ UNCHANGED <<caFiles, trusted, generated, raced>>

CAStep(p) ==
  \/ StatCA(p) \/ CreateCert(p) \/ WriteCert(p) \/ CreateKey(p) \/ WriteKey(p)
  \/ LoadCA(p)

\* All processes together, whatever commands they run.
CANext == \E p \in Procs : CAStep(p) \/ InjectCA(p) \/ LeaveCA(p)

CASpec == CAInit /\ [][CANext]_caVars

----------------------------------------------------------------------------
\* EnsureCA "loads the CA from dir if it exists, or generates a new one": it
\* fails on a pair that does not load only if a process once ended with the
\* key file created and not yet written, or two generated at the same time.
\* Every other crash between the steps of GenerateCA is repaired by the next
\* start, and every other interleaving of commands leaves one pair.
CAFailureExplained ==
  \A p \in Procs : caPc[p] = "failed" => torn \/ raced

\* The CA a server signs with is the one in phoenix-ca.crt, which the shims
\* hand to the package managers, and the one in the trust store: no later
\* command replaces the pair under a running server, unless two raced.
ServedIsTrusted ==
  ~raced => \A p \in Procs : caPc[p] = "loaded" => cert = pair[p] /\ trusted \in {0, cert}
=============================================================================
