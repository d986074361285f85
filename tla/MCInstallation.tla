--------------------------- MODULE MCInstallation ---------------------------
(***************************************************************************)
(* Two processes, so that any two commands may overlap, two shims, so that *)
(* init can end between them, and three commands or edits in all.  The     *)
(* processes are interchangeable.                                          *)
(***************************************************************************)
EXTENDS Installation, TLC

Symmetry == Permutations(Procs)

\* Behaviours are followed until a second thing has happened that excuses one
\* of the properties.  What excuses agent.toml and what excuses the CA are
\* independent: no command's way with the one depends on the state of the other.
OneExcuse == Quantify(1..5, LAMBDA i : <<lost, unread, misread, torn, raced>>[i]) <= 1

\* An agent.toml in use, without a key; a table has a line for a key that enroll
\* also writes.
MCTexts == {<< Section("telemetry"), Line("device_id", "sensor"),
               Section("fail_mode"), Line("mode", "closed") >>}

\* What the theorems assume of the texts.
ASSUME TextsAreSettled == \A s \in MCTexts : Settled(s)
=============================================================================
