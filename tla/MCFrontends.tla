---------------------------- MODULE MCFrontends ----------------------------
(***************************************************************************)
(* Two connections and a cache of one entry, so that requests for one      *)
(* package overlap and entries are evicted; every kind of URL the Rust     *)
(* proxy tells apart.  One lockfile per format and, for the scan, lines of *)
(* every kind the parsers skip.                                            *)
(***************************************************************************)
EXTENDS Frontends, FiniteSets

Scoped == Name("@s", "a", FALSE, "")
Plain == Name("", "a", FALSE, "")
Spelled == Name("", "b", TRUE, "_")
Lib == Name("", "b", FALSE, "-")
Capital == Name("", "c", TRUE, "-")

MCInputs ==
  [connect : {FALSE}, url : {Url("registry.npmjs.org", "tarball", Scoped, "1.2.3"),
                             Url("registry.yarnpkg.com", "metadata", Plain, ""),
                             Url("registry.npmjs.org", "tarball", NoName, ""),
                             Url("files.pythonhosted.org", "wheel", Spelled, "next"),
                             Url("files.pythonhosted.org", "sdist", Spelled, "1.2"),
                             Url("files.pythonhosted.org", "sdist", Lib, "1.2.3"),
                             Url("pypi.org", "index", Spelled, ""),
                             Url("example.com", "tarball", Plain, "1.2.3")}]
    \cup [connect : {TRUE}, url : {Url("pypi.org", "index", Spelled, "")}]

\* Of the packages above it blocks all versions of one, blocks and warns about another
\* one's, and does not list the others.
RustFeed == (Ref("npm", Scoped, "*") :> "block") @@ (Ref("pypi", Lib, "next") :> "warn")
              @@ (Ref("pypi", Lib, "*") :> "block")

MCRustConfigs ==
  {c \in RustConfigType({RustFeed}) :
     /\ c.failOn \in {"block", "any"} /\ (c.failOn = "any" => c.strict = (c.mode = "warn"))
     /\ c.ci => c.strict /\ c.mode = "enforce"}

\* Lockfiles, with lines of every kind that the parsers read or skip.
LockLine(kind, name, version) ==
  [kind |-> kind, name |-> name, real |-> name, version |-> version]

Npm(kind, names) ==
  [format |-> "package-lock.json",
   lines |-> << LockLine("package", NoName, "1.2.3"), LockLine("package", Lib, "") >>
               \o [i \in DOMAIN names |-> LockLine(kind, names[i], "1.2.3")]]

NpmV1 == [format |-> "package-lock.json",
          lines |-> << LockLine("dependency", Plain, "1.2.3"), LockLine("dependency", Lib, "1.2.3") >>]

Requirements(names) ==
  [format |-> "requirements.txt",
   lines |-> << LockLine("skipped", NoName, "") >>
               \o [i \in DOMAIN names |-> LockLine("pin", names[i], "1.2.3")]]

Crate(name) == << LockLine("[[package]]", NoName, ""), LockLine("name", name, ""),
                  LockLine("version", NoName, "1.2.3"), LockLine("skipped", NoName, "") >>
Cargo(names) ==
  [format |-> "Cargo.lock",
   lines |-> << LockLine("version", NoName, "1") >> \o FlattenSeq([i \in DOMAIN names |-> Crate(names[i])])]

MCLockfiles ==
  {Npm("package", <<Scoped, Plain>>), NpmV1, Npm("package", <<>>),
   Requirements(<<Capital, Lib, Capital>>), Cargo(<<Plain, Lib>>)}

\* Lockfiles of the same formats whose packages the parsers do not all find, or
\* find under another name.
With(lf, lines) == [lf EXCEPT !.lines = @ \o lines]
OddLockfiles ==
  {With(Npm("package", <<Plain>>), << [LockLine("package", Lib, "1.2.3") EXCEPT !.real = Scoped] >>),
   With(NpmV1, << LockLine("nested", Scoped, "1.2.3") >>),
   With(Requirements(<<Lib>>), << LockLine("extras", Plain, "1.2.3") >>),
   Requirements(<<Capital, Spelled>>),
   With(Cargo(<<Plain, Lib>>), << LockLine("[[patch.unused]]", NoName, ""), LockLine("name", Capital, ""),
                                  LockLine("version", NoName, "1.2.3") >>)}

MCScanConfigs ==
  [strict : BOOLEAN,
   feed : {<<>>, Ref("npm", Plain, "*") :> "warn", Ref("crates", Lib, "1.2.3") :> "block",
           Ref("pypi", Lower(Capital), "*") :> "allow"}]

Symmetry == Permutations(Tasks)

\* No registry beside the built-in ones, then GitLab hosts and a custom
\* registry, then custom registries on the hosts of built-in ones.
MCMatcherConfigs ==
  {[gitlab |-> {}, extra |-> <<>>],
   [gitlab |-> {"git.example.com"},
    extra |-> << [eco |-> "npm", host |-> "packages.example.com"] >>],
   [gitlab |-> {},
    extra |-> << [eco |-> "generic", host |-> "registry.npmjs.org"],
                 [eco |-> "maven", host |-> "files.pythonhosted.org"] >>]}

\* For the scan alone: one configuration of the Rust proxy, and no connection to it.
NoInputs == {}
PlainConfigs == {[strict |-> FALSE, mode |-> "enforce", failOn |-> "block", ci |-> FALSE,
                  feed |-> RustFeed]}
=============================================================================
