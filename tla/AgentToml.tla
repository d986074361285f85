------------------------------ MODULE AgentToml -----------------------------
(***************************************************************************)
(* ~/.config/phoenix-firewall/agent.toml as its writers and readers see    *)
(* it: init writes a template, enroll edits single lines with              *)
(* upsertTOMLLine (cmd/enroll.go), and every command reads the file through *)
(* viper when it starts (cmd/root.go, internal/config).                    *)
(* The text is a sequence of lines; comments, blank lines and the settings *)
(* nobody here reads are left out.  A header is a line of its own kind.    *)
(***************************************************************************)
EXTENDS SequencesExt, Integers

CONSTANT Words   \* what else the lines of a text may say

\* What is written in agent.toml, by the commands or by hand.
Terms == {"[", "api_key", "device_id", "mode", "", "policy", "fail_mode", "open", "closed",
          "given", "device", "dev", "no file"} \cup Words

Line(k, v) == [key |-> k, val |-> v]
Section(s) == Line("[", s)
TomlLine == [key : Terms, val : Terms]

\* The configuration init writes: no key yet, fail_mode "open".
Template == << Line("api_key", ""), Section("policy"),
               Section("fail_mode"), Line("mode", "open") >>

----------------------------------------------------------------------------
LineOf(lines, k) == SelectInSeq(lines, LAMBDA l : l.key = k)

\* Mutant: a new key is appended, below whatever section comes last.
UpsertAtEnd(lines, k, v) ==
  IF LineOf(lines, k) # 0
  THEN ReplaceAt(lines, LineOf(lines, k), Line(k, v))
  ELSE Append(lines, Line(k, v))

\* The first line with the key is replaced, whatever section it is in; a new
\* key goes before the first header, or last if there is none.
Upsert(lines, k, v) ==
  LET at == LineOf(lines, k)
      header == LineOf(lines, "[")
  IN  IF at # 0 THEN ReplaceAt(lines, at, Line(k, v))
      ELSE InsertAt(lines, IF header # 0 THEN header ELSE Len(lines) + 1, Line(k, v))

\* What enroll makes of the text it read: its upserts, one after the other;
\* an empty key is left out.
Enrolled(lines, k, device) ==
  Upsert(IF k = "" THEN lines ELSE Upsert(lines, "api_key", k), "device_id", device)

----------------------------------------------------------------------------
\* TOML: a line belongs to the nearest header above it, or to the top level.
HeaderOver(lines, i) ==
  LET at == SelectLastInSubSeq(lines, 1, i, LAMBDA l : l.key = "[")
  IN  IF at = 0 THEN "top level" ELSE lines[at].val

Setting(lines, section, k) ==
  LET at == {i \in DOMAIN lines : lines[i].key = k /\ HeaderOver(lines, i) = section}
  IN  IF at = {} THEN "" ELSE lines[Min(at)].val

\* A text in which every setting that is followed here stands once and where
\* config.Load looks for it, whatever other lines and tables there are: the key
\* above all headers, the mode under [fail_mode].
Settled(s) ==
  /\ s \in Seq(TomlLine)
  /\ \A i, j \in 1 .. Len(s) :
       s[i].key = s[j].key /\ s[i].key \in {"api_key", "mode"} => i = j
  /\ \A i, j \in 1 .. Len(s) : s[i].key = "api_key" /\ j < i => s[j].key # "["
  /\ \A i \in 1 .. Len(s) : s[i].key = "mode" =>
       \E j \in 1 .. i : /\ s[j] = Section("fail_mode")
                         /\ \A n \in j + 1 .. i : s[n].key # "["

\* Mutant: the mode is taken as it is written, or not written.
FailModeAsIs(mode) == mode

\* failModeOrDefault: anything but "closed" is "open".
FailMode(mode) == IF mode = "closed" THEN "closed" ELSE "open"

\* config.Load after initConfig; a missing or empty file gives the defaults.
Load(lines) == [key |-> Setting(lines, "top level", "api_key"),
                mode |-> FailMode(Setting(lines, "fail_mode", "mode"))]
=============================================================================
