----------------------------- MODULE Manifests -----------------------------
(***************************************************************************)
(* What each ecosystem's resolver reads out of its manifest: the eleven    *)
(* files beside coord/coord.go.                                            *)
(*                                                                         *)
(* A manifest is the sequence of its lines, or the record of its fields    *)
(* where the code uses a JSON or XML parser, each reduced to what the      *)
(* resolver can tell about it. A name or a version is the sequence of its  *)
(* "/"-separated segments, so that a name in a path is a prefix of it.     *)
(***************************************************************************)
EXTENDS Naturals, Sequences, SequencesExt

Absent  == <<>>           \* the empty string: nothing stated
Unknown == <<".">>        \* SCIP's marker of a component not determined
Pointer == <<"${}">>      \* a value that names another: ${x}, $(x), a template

Or(v, fallback) == IF v = Absent THEN fallback ELSE v
Stated(v)       == IF v = Pointer THEN Absent ELSE v

Identity(name, version) ==
  [failed |-> FALSE, name |-> Or(name, Unknown), version |-> Or(version, Unknown)]
Malformed == [failed |-> TRUE, name |-> Absent, version |-> Absent]

(* The first line that passes the test, as the one-element sequence of it. *)
FirstLine(lines, Test(_)) ==
  LET i == SelectInSeq(lines, Test) IN IF i = 0 THEN <<>> ELSE << lines[i] >>

-----------------------------------------------------------------------------
(* go.mod: [directive, module]; the version is the module's major suffix.  *)

MajorSuffixes == { <<"v2">>, <<"v3">> }

ScanModulePath(lines) ==
  FirstLine(lines, LAMBDA l : l.directive = "module" /\ l.module # Absent)

FromGoMod(lines) ==
  LET found == ScanModulePath(lines) IN
  IF found = <<>> THEN Malformed
  ELSE LET module == Head(found).module
           last   == << module[Len(module)] >>
       IN  Identity(module, IF last \in MajorSuffixes /\ Len(module) > 1 THEN last ELSE Absent)

-----------------------------------------------------------------------------
(* package.json and composer.json: [wellFormed, name, version].            *)

FromPackageJSON(doc) == IF doc.wellFormed THEN Identity(doc.name, doc.version) ELSE Malformed

FromComposer(doc) == IF doc.wellFormed THEN Identity(doc.name, doc.version) ELSE Malformed

-----------------------------------------------------------------------------
(* Cargo.toml and pyproject.toml, line by line. A line is                  *)
(* [kind, table, key, value, quotes]: a "header" names a table, a "key"    *)
(* assigns value (Absent when it is not a plain string), and quotes lists  *)
(* the triple quotes on the line in order, "D" for """ and "S" for '''.    *)

OpensMultiline(line) ==
  LET count(d) == Cardinality({ i \in DOMAIN line.quotes : line.quotes[i] = d }) IN
  CASE count("D") = 1                    -> "D"
    [] count("D") = 0 /\ count("S") = 1  -> "S"
    [] OTHER                             -> "none"

(* Mutant: the scanner trusts line boundaries. *)
ScanLine_Lines(table, seen, line) ==
  IF line.kind = "header" THEN [seen EXCEPT !.inTable = line.table = table]
  ELSE IF ~seen.inTable \/ line.kind # "key" THEN seen
  ELSE CASE line.key = "name"    -> [seen EXCEPT !.name = line.value]
         [] line.key = "version" -> [seen EXCEPT !.version = line.value]
         [] OTHER                -> seen

ScanLine(table, seen, line) ==
  IF seen.delim # "none"
  THEN [seen EXCEPT !.delim = IF Contains(line.quotes, @) THEN "none" ELSE @]
  ELSE IF line.kind = "header" THEN [seen EXCEPT !.inTable = line.table = table]
  ELSE IF OpensMultiline(line) # "none" THEN [seen EXCEPT !.delim = OpensMultiline(line)]
  ELSE IF ~seen.inTable \/ line.kind # "key" THEN seen
  ELSE CASE line.key = "name"    -> [seen EXCEPT !.name = line.value]
         [] line.key = "version" -> [seen EXCEPT !.version = line.value]
         [] OTHER                -> seen

ScanTomlTable(lines, table) ==
  FoldLeft(LAMBDA seen, line : ScanLine(table, seen, line),
           [delim |-> "none", inTable |-> FALSE, name |-> Absent, version |-> Absent], lines)

FromCargo(lines) ==
  LET t == ScanTomlTable(lines, "package") IN Identity(t.name, t.version)

ScanProjectTable(lines) == ScanTomlTable(lines, "project")

FromPyProject(lines) ==
  LET t == ScanProjectTable(lines) IN Identity(t.name, t.version)

-----------------------------------------------------------------------------
(* pom.xml: [wellFormed, group, artifact, version, parentGroup,            *)
(* parentVersion]; the two halves of a name or neither.                    *)

EmptyPOM == [group |-> Absent, artifact |-> Absent, version |-> Absent,
             parentGroup |-> Absent, parentVersion |-> Absent]

MavenName(group, artifact) ==
  IF group = Absent \/ artifact = Absent THEN Unknown ELSE group \o <<":">> \o artifact

DecodePOM(doc) == IF doc.wellFormed THEN doc.pom ELSE EmptyPOM

FromPOM(doc) ==
  LET p == DecodePOM(doc) IN
  Identity(MavenName(Stated(Or(p.group, p.parentGroup)), Stated(p.artifact)),
           Stated(Or(p.version, p.parentVersion)))

-----------------------------------------------------------------------------
(* Directory.Build.props: [wellFormed, groups], a group being the sequence *)
(* of its [id, assembly, version, prefix] property groups.                 *)

FirstStated(groups, pick(_)) ==
  LET values == FlattenSeq([g \in DOMAIN groups |-> pick(groups[g])])
      found  == FirstLine(values, LAMBDA v : Stated(v) # Absent)
  IN  IF found = <<>> THEN Absent ELSE Head(found)

DecodeProps(doc) == IF doc.wellFormed THEN doc.groups ELSE <<>>

FromProps(doc) ==
  LET groups == DecodeProps(doc) IN
  Identity(FirstStated(groups, LAMBDA g : << g.id, g.assembly >>),
           FirstStated(groups, LAMBDA g : << g.version, g.prefix >>))

-----------------------------------------------------------------------------
(* settings.gradle.kts: lines [assigns, literal]; Package.swift: lines     *)
(* [package, named, literal], named when a name: label follows whatever    *)
(* Package( the line holds. Neither states a version.                      *)

ScanRootProjectName(lines) ==
  LET found == FirstLine(lines, LAMBDA l : l.assigns) IN
  IF found = <<>> THEN Absent ELSE Stated(Head(found).literal)

FromGradleSettings(lines) == Identity(ScanRootProjectName(lines), Absent)

ScanPackageName(lines) ==
  LET opens == SelectInSeq(lines, LAMBDA l : l.package)
      rest  == IF opens = 0 THEN <<>> ELSE SubSeq(lines, opens, Len(lines))
      found == FirstLine(rest, LAMBDA l : l.named)
  IN  IF found = <<>> THEN Absent ELSE Stated(Head(found).literal)

FromSwiftPackage(lines) == Identity(ScanPackageName(lines), Absent)

-----------------------------------------------------------------------------
(* Gemfile.lock beside a Gemfile: lines [indent, text, name, version]. The *)
(* gem is the first entry at four spaces under the specs: of the PATH      *)
(* block whose remote is this directory, "remote:." without its blank.     *)

ScanLockLine(seen, line) ==
  IF seen.state = "found" THEN seen
  ELSE IF line.indent = 0
  THEN [seen EXCEPT !.state = IF line.text = "PATH" THEN "inPath" ELSE "outside"]
  ELSE CASE seen.state = "inPath" /\ line.text = "remote:."  -> [seen EXCEPT !.state = "inOurs"]
         [] seen.state = "inPath" /\ line.text = "specs:"     -> [seen EXCEPT !.state = "outside"]
         [] seen.state = "inOurs" /\ line.text = "specs:"     -> [seen EXCEPT !.state = "inSpecs"]
         [] seen.state = "inSpecs" /\ line.indent = 4 ->
              [state |-> "found", name |-> line.name, version |-> line.version]
         [] OTHER -> seen

ScanLockPathSection(lines) ==
  FoldLeft(ScanLockLine, [state |-> "outside", name |-> Absent, version |-> Absent], lines)

FromGemfile(lock) ==
  LET gem == ScanLockPathSection(lock) IN Identity(gem.name, gem.version)

-----------------------------------------------------------------------------
(* CMakeLists.txt: lines [command, closed, args]. The name is the first    *)
(* argument of the first closed project() call, the version what follows   *)
(* its VERSION keyword.                                                    *)

Keyword == <<"VERSION">>

ProjectIdentity(args) ==
  LET versions == { i \in 2 .. Len(args) - 1 : args[i] = Keyword } IN
  IF args = <<>> THEN Identity(Absent, Absent)
  ELSE Identity(Stated(args[1]),
                IF versions = {} THEN Absent
                ELSE Stated(args[1 + (CHOOSE i \in versions : \A j \in versions : i <= j)]))

ScanProjectCall(lines) == FirstLine(lines, LAMBDA l : l.command = "project" /\ l.closed)

FromCMake(lines) ==
  LET call == ScanProjectCall(lines) IN
  IF call = <<>> THEN Identity(Absent, Absent) ELSE ProjectIdentity(Head(call).args)
=============================================================================
