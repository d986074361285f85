----------------------------- MODULE Registries ----------------------------
(***************************************************************************)
(* internal/registry: which package a URL downloads, as the Go proxy sees  *)
(* it.  A URL is its host, the shape of its path, and the name and version *)
(* the path spells; a regular expression of the code is the hosts, shapes  *)
(* and kinds of version it accepts.  A name keeps its scope (or group),    *)
(* its case and what separates its words (sep, "" for a single word),      *)
(* because the matchers change those.                                      *)
(***************************************************************************)
EXTENDS SequencesExt, Integers

CONSTANT MatcherConfigs   \* the registry configurations of the Go proxy

ASSUME RegistriesAssumption ==
  \A cfg \in MatcherConfigs : cfg.extra \in Seq([eco : STRING, host : STRING])

Name(scope, id, upper, sep) == [scope |-> scope, id |-> id, upper |-> upper, sep |-> sep]
NoName == Name("", "", FALSE, "")
NameType(cases) == [scope : STRING, id : STRING, upper : cases, sep : {"", "-", "_"}]

Ref(eco, name, version) == [eco |-> eco, name |-> name, version |-> version]
NoRef == Ref("", NoName, "")

Url(host, shape, name, version) ==
  [host |-> host, shape |-> shape, name |-> name, version |-> version]

\* Versions: three numbers, two numbers, one number, and a tag.
Triple == {"1.2.3"}
Dotted == Triple \cup {"1.2"}
Numbered == Dotted \cup {"1"}
Versions == Numbered \cup {"next"}

\* Paths that end in an archive called {name}-{version}.{extension}; an old
\* sdist is a .tar.bz2.
Archives == {"tarball", "sdist", "old sdist", "wheel", "crate file", "gem", "maven artifact",
             "gitlab npm", "gitlab pypi", "gitlab maven", "gitlab generic"}
Shapes == Archives \cup {"metadata", "index", "crate api", "name/version"}

Lower(name) == Name(name.scope, name.id, FALSE, name.sep)
\* normalizePypiName
Normal(name) == Name(name.scope, name.id, FALSE, IF name.sep = "" THEN "" ELSE "-")

\* What a fallback feed, a function from references to actions, says of one:
\* the version's entry, or else the wildcard's.
Unlisted == "unlisted"
InFeed(feed, ref) ==
  LET any == [ref EXCEPT !.version = "*"]
  IN  IF ref \in DOMAIN feed THEN feed[ref]
      ELSE IF any \in DOMAIN feed THEN feed[any] ELSE Unlisted

----------------------------------------------------------------------------
\* A matcher: the ecosystem it reports, and the URLs it takes.
Row(eco, hosts, shapes, versions) ==
  [eco |-> eco, hosts |-> hosts, shapes |-> shapes, versions |-> versions, guess |-> FALSE]

NpmRows == << Row("npm", {"registry.npmjs.org"}, {"tarball"}, Triple) >>

PypiRows == << Row("pypi", {"files.pythonhosted.org"}, {"wheel"}, Versions),
               Row("pypi", {"files.pythonhosted.org"}, {"sdist"}, Dotted) >>

CargoRows == << Row("crates", {"crates.io"}, {"crate api"}, Versions),
                Row("crates", {"static.crates.io"}, {"crate file"}, Versions) >>

GemRows == << Row("rubygems", {"rubygems.org", "index.rubygems.org"}, {"gem"}, Numbered) >>

MavenRows == << Row("maven", {"repo1.maven.org", "repo.maven.apache.org"},
                    {"maven artifact"}, Versions) >>

GitLabRows(hosts) ==
  << Row("npm", hosts, {"gitlab npm"}, Triple), Row("pypi", hosts, {"gitlab pypi"}, Dotted),
     Row("maven", hosts, {"gitlab maven"}, Versions),
     Row("generic", hosts, {"gitlab generic"}, Versions) >>

\* A custom registry takes every URL of its host and guesses.
CustomRow(reg) == [Row(reg.eco, {reg.host}, Shapes, Versions) EXCEPT !.guess = TRUE]

\* A configuration lists GitLab hosts, and valid "ecosystem:host" entries;
\* invalid entries are skipped by ParseCustomRegistry.
Custom(cfg) == [i \in DOMAIN cfg.extra |-> CustomRow(cfg.extra[i])]

GitLab(cfg) == IF cfg.gitlab = {} /\ cfg.extra = <<>> THEN <<>>
               ELSE GitLabRows({"gitlab.com"} \cup cfg.gitlab)

Matchers(cfg) == NpmRows \o PypiRows \o CargoRows \o GemRows \o MavenRows
                   \o GitLab(cfg) \o Custom(cfg)

----------------------------------------------------------------------------
Takes(row, url) ==
  url.host \in row.hosts /\ url.shape \in row.shapes /\ url.version \in row.versions

\* extractNameVersion and extractFromPath: the file's name without its scope
\* or group, and with what is not taken for an extension in the version; then
\* the last two segments; then the whole path without a version.
Guess(eco, url) ==
  LET file == [url.name EXCEPT !.scope = ""]
      rest == CASE url.shape = "wheel" -> "-py3-none-any"
                [] url.shape = "old sdist" -> ".tar.bz2"
                [] OTHER -> ""
  IN  IF url.shape \in Archives /\ url.version \in Dotted
      THEN Ref(eco, IF eco = "pypi" THEN Normal(file) ELSE file, url.version \o rest)
      ELSE IF url.shape = "name/version" /\ url.version \in Numbered
      THEN Ref(eco, file, url.version)
      ELSE Ref(eco, url.name, "")

RefOf(row, url) ==
  IF row.guess THEN Guess(row.eco, url)
  ELSE Ref(row.eco, IF row.eco = "pypi" THEN Normal(url.name) ELSE url.name, url.version)

\* CompositeMatchers.Match: the first matcher that takes the URL decides.
Match(cfg, url) ==
  LET rows == Matchers(cfg)
      first == SelectInSeq(rows, LAMBDA row : Takes(row, url))
  IN  IF first = 0 THEN NoRef ELSE RefOf(rows[first], url)

\* Where a version of a package is downloaded from by default, in the forms that
\* the built-in matchers know; on PyPI the file may spell the name in any way,
\* but a wheel has no hyphen in it.
Downloads(ref) ==
  LET escaped == Name(ref.name.scope, ref.name.id, TRUE, IF ref.name.sep = "" THEN "" ELSE "_")
  IN  CASE ref.eco = "npm" -> {Url("registry.npmjs.org", "tarball", ref.name, ref.version)}
        [] ref.eco = "pypi" -> {Url("files.pythonhosted.org", "wheel", escaped, ref.version)}
             \cup {Url("files.pythonhosted.org", "sdist", n, ref.version) :
                     n \in {ref.name, escaped}}
        [] ref.eco = "crates" -> {Url("crates.io", "crate api", ref.name, ref.version),
                                  Url("static.crates.io", "crate file", ref.name, ref.version)}
=============================================================================
