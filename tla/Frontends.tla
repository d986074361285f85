----------------------------- MODULE Frontends -----------------------------
(***************************************************************************)
(* The two other front ends of the firewall beside the Go proxy, the Rust  *)
(* proxy and the lockfile scan, and what all three ask the backend and the *)
(* feed about the same package.  The front ends share no state, so each    *)
(* behaviour runs one of them.                                             *)
(***************************************************************************)
EXTENDS RustProxy, LockfileScan

VARIABLE front   \* which one runs

frontVars == <<front, rustVars, scanVars>>

FrontInit ==
  /\ RustInit /\ ScanInit
  /\ \/ front = "rust" /\ <<sconfig, lockfile>> = CHOOSE p \in ScanConfigs \X Lockfiles : TRUE
     \/ front = "scan" /\ rconfig = CHOOSE c \in RustConfigs : TRUE

Rust == front = "rust" /\ RustNext /\ UNCHANGED <<front, scanVars>>
Scan == front = "scan" /\ ScanNext /\ UNCHANGED <<front, rustVars>>
FrontNext == Rust \/ Scan

FrontSpec == FrontInit /\ [][FrontNext]_frontVars

FrontTypeOK == front \in {"rust", "scan"} /\ RustTypeOK /\ ScanTypeOK

----------------------------------------------------------------------------
\* The downloads that both proxies recognize.
ReadByBoth(url) == url.name # NoName /\
  \/ url.host = "registry.npmjs.org" /\ url.shape = "tarball" /\ url.version \in Triple
  \/ url.host = "files.pythonhosted.org" /\ url.shape = "wheel" /\ url.version \in Versions
  \/ /\ url.host = "files.pythonhosted.org" /\ url.shape = "sdist"
     /\ url.version \in Dotted /\ url.name.sep # "-"

\* A request for such a download, by its URL, is the same question to both
\* proxies: the Rust proxy asks about it, and has it in the report when it is
\* answered, under the ecosystem, name and version that the Go proxy would ask
\* under, so that one rule or feed entry covers it in both, whatever registries
\* the user adds.  The rest differs: only the Rust proxy asks about metadata, an
\* index, a tarball of yarnpkg or of a version that is not three numbers, an
\* sdist that is no .tar.gz or .zip or whose version is one number; and of a
\* hyphenated sdist it takes a word for the version.
SameQuestion ==
  \A t \in Tasks : ~input[t].connect /\ ReadByBoth(input[t].url) =>
    \A cfg \in MatcherConfigs :
      LET ref == Match(cfg, input[t].url)
      IN  /\ RefOfTask(t) = ref
          /\ task[t] \in {"refused", "passed"} => <<t, ref, action[t]>> \in entries
=============================================================================
