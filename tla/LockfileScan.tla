----------------------------- MODULE LockfileScan ---------------------------
(***************************************************************************)
(* The scan command (cmd/scan.go): parse a lockfile, ask the feed or the   *)
(* firewall API about each package, report, and exit with 1 if one is      *)
(* blocked.  A lockfile is a sequence of lines; a line is its kind with    *)
(* the name and version it holds, and a package-lock.json is one line per  *)
(* entry.  Names and references are those of Registries.                   *)
(* Simplification: a range such as >= is a pin, because parseRequirements- *)
(* Txt takes the version after either.                                     *)
(***************************************************************************)
EXTENDS Registries

CONSTANTS Lockfiles,    \* the lockfiles that may be scanned: [format, lines]
          ScanConfigs   \* [strict, feed]

\* Kinds of line: an entry of "packages" of a package-lock.json, of the top
\* level of "dependencies", or below it; a requirement, one with extras, or
\* what is skipped; a header of Cargo.lock, of a package or of another table,
\* a name and a version.  The real name of an npm entry is the one it has in
\* the registry: an alias is installed under another.
LockLines ==
  [kind : {"package", "dependency", "nested", "pin", "extras", "skipped",
           "[[package]]", "[[patch.unused]]", "name", "version"},
   name : NameType(BOOLEAN), real : NameType(BOOLEAN), version : STRING]

ASSUME ScanAssumption ==
  \A lf \in Lockfiles : /\ lf.format \in {"package-lock.json", "requirements.txt", "Cargo.lock"}
                        /\ lf.lines \in Seq(LockLines)

\* Actions of the feed and of the API (FallbackFeed.Check, Client.Check).
ScanActions == {"allow", "warn", "block"}

VARIABLES sconfig,
          lockfile,
          scan,     \* where RunE is
          todo,     \* the packages still to check, at their lines
          records,  \* the reporter's: <<ref, action>>
          exit,     \* the exit code, or "running"
          said      \* history: <<ref, action>> of the feed or the API, or "error"

scanVars == <<sconfig, lockfile, scan, todo, records, exit, said>>

----------------------------------------------------------------------------
(* The parsers: the packages of a lockfile, each at the line it is read at. *)

Complete(l) == l.name # NoName /\ l.version # ""

Entries(lines, kind) == {i \in DOMAIN lines : lines[i].kind = kind /\ Complete(lines[i])}

\* "packages" of v2 and v3, where the root has no name and a link no version;
\* without any, the top level of the "dependencies" of v1.  The name is the
\* key's, whatever "name" the entry has.
ParseNpm(lines) ==
  LET packages == Entries(lines, "package")
  IN  [i \in IF packages # {} THEN packages ELSE Entries(lines, "dependency") |->
         Ref("npm", lines[i].name, lines[i].version)]

\* Lines that are not "name operator version" are skipped: comments, options,
\* bare names and names with extras.  A name is lower-cased.
ParseRequirements(lines) ==
  [i \in Entries(lines, "pin") |-> Ref("pypi", Lower(lines[i].name), lines[i].version)]

\* The lines from a package header (0: the start) to the next one.
Block(lines, h) ==
  {i \in DOMAIN lines : h < i /\ \A j \in h + 1 .. i : lines[j].kind # "[[package]]"}

\* The name and version collected there: the last ones, whatever table they are in.
Of(lines, h, kind) == {i \in Block(lines, h) : lines[i].kind = kind}
Collected(lines, h) == [name |-> lines[Max(Of(lines, h, "name"))].name,
                        version |-> lines[Max(Of(lines, h, "version"))].version]

Packages(lines) == {h \in DOMAIN lines : lines[h].kind = "[[package]]"}

HasPackage(lines, h) ==
  /\ Of(lines, h, "name") # {} /\ Of(lines, h, "version") # {}
  /\ Complete(Collected(lines, h))

\* Mutant: the last package has no header after it and is forgotten.
SavedAtHeaders(lines) ==
  {h \in {0} \cup Packages(lines) : HasPackage(lines, h) /\ \E i \in Packages(lines) : h < i}

\* A complete package is appended before the next one, or at the end.
Saved(lines) == {h \in {0} \cup Packages(lines) : HasPackage(lines, h)}

ParseCargo(lines) ==
  [h \in Saved(lines) |-> Ref("crates", Collected(lines, h).name, Collected(lines, h).version)]

Parse(lf) == CASE lf.format = "package-lock.json" -> ParseNpm(lf.lines)
               [] lf.format = "requirements.txt" -> ParseRequirements(lf.lines)
               [] lf.format = "Cargo.lock" -> ParseCargo(lf.lines)

\* The packages it returns.
Found(lf) == {Parse(lf)[i] : i \in DOMAIN Parse(lf)}

----------------------------------------------------------------------------
(* What a lockfile pins, as npm, pip and cargo read it.                    *)

\* The lines of one table: no header of any kind comes between.
Table(lines, h) ==
  {i \in DOMAIN lines : /\ h < i
                        /\ \A j \in h + 1 .. i : lines[j].kind \notin {"[[package]]",
                                                                       "[[patch.unused]]"}}

Pinned(lf) ==
  LET lines == lf.lines
      At(kinds) == {i \in DOMAIN lines : lines[i].kind \in kinds /\ Complete(lines[i])}
  IN  CASE lf.format = "package-lock.json" ->
             {Ref("npm", lines[i].real, lines[i].version) :
                i \in At(IF \E i \in DOMAIN lines : lines[i].kind = "package"
                         THEN {"package"} ELSE {"dependency", "nested"})}
        [] lf.format = "requirements.txt" ->
             {Ref("pypi", lines[i].name, lines[i].version) : i \in At({"pin", "extras"})}
        [] lf.format = "Cargo.lock" ->
             {Ref("crates", lines[i[1]].name, lines[i[2]].version) :
                i \in {p \in (DOMAIN lines) \X (DOMAIN lines) :
                         /\ lines[p[1]].kind = "name" /\ lines[p[2]].kind = "version"
                         /\ \E h \in Packages(lines) : {p[1], p[2]} \subseteq Table(lines, h)}}

\* What it pins in a plain way: an npm package under its own name, at the top
\* level if the file is of v1; a requirement without extras, whose name has no
\* "_"; a crate whose header is followed by no other table.
Plainly(lf) ==
  LET lines == lf.lines
      At(kind) == {i \in DOMAIN lines : /\ lines[i].kind = kind /\ Complete(lines[i])
                                        /\ lines[i].real = lines[i].name}
  IN  CASE lf.format = "package-lock.json" ->
             {Ref("npm", lines[i].name, lines[i].version) :
                i \in IF \E i \in DOMAIN lines : lines[i].kind = "package"
                      THEN At("package") ELSE At("dependency")}
        [] lf.format = "requirements.txt" ->
             {Ref("pypi", lines[i].name, lines[i].version) :
                i \in {i \in At("pin") : lines[i].name.sep # "_"}}
        [] lf.format = "Cargo.lock" ->
             {Ref("crates", lines[i[1]].name, lines[i[2]].version) :
                i \in {p \in (DOMAIN lines) \X (DOMAIN lines) :
                         /\ lines[p[1]].name # NoName /\ lines[p[2]].version # ""
                         /\ \E h \in Packages(lines) : /\ Table(lines, h) = Block(lines, h)
                                                       /\ Of(lines, h, "name") = {p[1]}
                                                       /\ Of(lines, h, "version") = {p[2]}}}

----------------------------------------------------------------------------
ScanInit ==
  /\ sconfig \in ScanConfigs
  /\ lockfile \in Lockfiles
  /\ scan = "parse"
  /\ todo = <<>> /\ records = {} /\ said = {}
  /\ exit = "running"

\* The lockfile may be unreadable, or have no packages.
ParseLockfile ==
  /\ scan = "parse"
  /\ \/ /\ todo' = Parse(lockfile)
        /\ scan' = IF DOMAIN todo' = {} THEN "done" ELSE "feed"
        /\ exit' = IF DOMAIN todo' = {} THEN "0" ELSE exit
     \/ scan' = "done" /\ exit' = "error" /\ UNCHANGED todo
  /\ UNCHANGED <<sconfig, lockfile, records, said>>

\* A configured feed that does not load is an error.
LoadFeed ==
  /\ scan = "feed"
  /\ \/ scan' = "check" /\ UNCHANGED exit
     \/ scan' = "done" /\ exit' = "error"
  /\ UNCHANGED <<sconfig, lockfile, todo, records, said>>

\* feedKey folds the case of a name.
FeedSays(ref) == InFeed(sconfig.feed, [ref EXCEPT !.name = Lower(@)])

\* Strict mode blocks what could not be checked, and turns a warning into a block.
Judged(a) == CASE a = "error" -> IF sconfig.strict THEN "block" ELSE "allow"
               [] a = "warn" /\ sconfig.strict -> "block"
               [] OTHER -> a

\* The next package, with what the feed or else the API says of it: in the order
\* of the lines, except that package-lock.json is a Go map, which has no order.
CheckNext(i, a) ==
  /\ scan = "check" /\ i \in DOMAIN todo
  /\ lockfile.format = "package-lock.json" \/ \A j \in DOMAIN todo : i <= j
  /\ FeedSays(todo[i]) \in {Unlisted, a}
  /\ records' = records \cup {<<todo[i], Judged(a)>>}
  /\ said' = said \cup {<<todo[i], a>>}
  /\ todo' = [j \in DOMAIN todo \ {i} |-> todo[j]]
  /\ UNCHANGED <<sconfig, lockfile, scan, exit>>

\* Summary, Write, whose error is only a warning, and HasBlocked.
Finish ==
  /\ scan = "check" /\ DOMAIN todo = {}
  /\ scan' = "done"
  /\ exit' = IF \E e \in records : e[2] = "block" THEN "1" ELSE "0"
  /\ UNCHANGED <<sconfig, lockfile, todo, records, said>>

ScanNext ==
  \/ ParseLockfile \/ LoadFeed \/ Finish
  \/ \E i \in DOMAIN todo, a \in ScanActions \cup {"error"} : CheckNext(i, a)

----------------------------------------------------------------------------
ScanTypeOK ==
  /\ sconfig \in ScanConfigs /\ lockfile \in Lockfiles
  /\ scan \in {"parse", "feed", "check", "done"}
  /\ exit \in {"running", "0", "1", "error"} /\ (exit = "running") = (scan # "done")
  /\ \A e \in records : e[2] \in ScanActions
  /\ {todo[i] : i \in DOMAIN todo} \cup {e[1] : e \in said} \subseteq Found(lockfile)

\* What was said of a package, and whether a scan may end with 0 after it.
Verdicts(ref) == {a \in ScanActions \cup {"error"} : <<ref, a>> \in said}
Passes(ref) ==
  /\ Verdicts(ref) # {}
  /\ Verdicts(ref) \subseteq IF sconfig.strict THEN {"allow"} ELSE {"allow", "warn", "error"}

\* A scan ends with 0 only if every package that the lockfile pins in a plain
\* way, the last one included, was asked about under the reference by which the
\* Go proxy asks when it is downloaded, and not blocked; in strict mode, only if
\* each was allowed without a warning or an error.
ScanTells ==
  exit = "0" => \A pin \in Plainly(lockfile) : pin.version \in Triple =>
    \A cfg \in MatcherConfigs : \A url \in Downloads(pin) : Passes(Match(cfg, url))

\* scan.go: "check all packages against the Phoenix firewall": the same of every
\* package that the lockfile pins.
ScanChecksAll ==
  exit = "0" => \A pin \in Pinned(lockfile) : pin.version \in Triple =>
    \A cfg \in MatcherConfigs : \A url \in Downloads(pin) : Passes(Match(cfg, url))
=============================================================================
