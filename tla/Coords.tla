------------------------------- MODULE Coords -------------------------------
(***************************************************************************)
(* The coordinates of a repository: coord/coord.go. Resolve looks for the  *)
(* nearest directory at or above a tree that holds any registered          *)
(* manifest, reads every manifest of that one directory, and spreads what  *)
(* they state over the extensions their ecosystems own. A descriptor is a  *)
(* coordinate's prefix and the namespace of the directory; the link pass   *)
(* joins two facts when the whole descriptors are equal.                   *)
(*                                                                         *)
(* A directory and an import path are sequences of segments.               *)
(***************************************************************************)
EXTENDS Manifests, TLC

CONSTANTS
  Trees,      \* the trees that are indexed into one store
  Start,      \* the directory of a tree
  Layouts,    \* what may surround it: directory -> manifest -> document
  Dirs,       \* directories of source files at or below Start
  Paths       \* import paths a source file may write

VARIABLES
  layout,     \* the manifests of each tree's surroundings
  cur,        \* the directory Resolve is looking at
  outcome,    \* "looking", "resolved", "no manifest" or "failed"
  set         \* the coord.Set of a resolved tree

vars == <<layout, cur, outcome, set>>

(* The registry, in the order Manifests() sorts the filenames. *)
Manifests == << "CMakeLists.txt", "Cargo.toml", "Directory.Build.props", "Gemfile",
                "Package.swift", "composer.json", "go.mod", "package.json", "pom.xml",
                "pyproject.toml", "settings.gradle.kts" >>

Ecosystem(scheme, manager, exts) == [scheme |-> scheme, manager |-> manager, exts |-> exts]

CMake    == Ecosystem("scip-cc", "cmake",
                      {".c", ".cc", ".cpp", ".cxx", ".h", ".hh", ".hpp", ".hxx"})
Cargo    == Ecosystem("scip-rust", "cargo", {".rs"})
NuGet    == Ecosystem("scip-csharp", "nuget", {".cs"})
RubyGems == Ecosystem("scip-ruby", "gem", {".rb"})
SwiftPM  == Ecosystem("scip-swift", "swiftpm", {".swift"})
Composer == Ecosystem("scip-php", "composer", {".php"})
GoMod    == Ecosystem("scip-go", "gomod", {".go"})
NPM      == Ecosystem("scip-typescript", "npm", {".ts"})
Maven    == Ecosystem("scip-java", "maven", {".java"})
PyPI     == Ecosystem("scip-python", "pip", {".py"})
Gradle   == Ecosystem("scip-kotlin", "gradle", {".kt", ".kts"})

Registry == << CMake, Cargo, NuGet, RubyGems, SwiftPM, Composer, GoMod, NPM, Maven, PyPI, Gradle >>

ecosystems == [m \in Range(Manifests) |->
                 Registry[CHOOSE i \in DOMAIN Manifests : Manifests[i] = m]]

(* Register: an extension has one owner. *)
Extensions == UNION { ecosystems[m].exts : m \in DOMAIN ecosystems }
owner      == [e \in Extensions |-> CHOOSE m \in DOMAIN ecosystems : e \in ecosystems[m].exts]

From(m, doc) ==
  CASE m = "CMakeLists.txt"        -> FromCMake(doc)
    [] m = "Cargo.toml"            -> FromCargo(doc)
    [] m = "Directory.Build.props" -> FromProps(doc)
    [] m = "Gemfile"               -> FromGemfile(doc)
    [] m = "Package.swift"         -> FromSwiftPackage(doc)
    [] m = "composer.json"         -> FromComposer(doc)
    [] m = "go.mod"                -> FromGoMod(doc)
    [] m = "package.json"          -> FromPackageJSON(doc)
    [] m = "pom.xml"               -> FromPOM(doc)
    [] m = "pyproject.toml"        -> FromPyProject(doc)
    [] m = "settings.gradle.kts"   -> FromGradleSettings(doc)

(* A tree's directory and those above it, up to the file system's root, may *)
(* hold registered manifests; source files are below the directory.         *)
ASSUME StartAssumption == Start \in Seq(STRING)

ASSUME LayoutsAssumption ==
  \A l \in Layouts :
    /\ DOMAIN l = { SubSeq(Start, 1, n) : n \in 0 .. Len(Start) }
    /\ \A d \in DOMAIN l : DOMAIN l[d] \subseteq Range(Manifests)

ASSUME DirsAssumption == \A d \in Dirs : d \in Seq(STRING) /\ IsPrefix(Start, d)

ASSUME PathsAssumption == Paths \subseteq Seq(STRING) \ {Absent}

-----------------------------------------------------------------------------
NoRoot == <<"no root">>   \* the Root of a coordinate that owns no file here

Coord(scheme, manager, name, version, root) ==
  [scheme |-> scheme, manager |-> manager, name |-> name, version |-> version, root |-> root]

Prefix(c) == << c.scheme, c.manager, Or(c.name, Unknown), Or(c.version, Unknown) >>

Foreign(scheme, manager, name) == Coord(scheme, manager, name, Unknown, NoRoot)

(* Mutant: a coordinate without the directory of the others. *)
unknown_Rootless(e, root) == Coord(e.scheme, e.manager, Unknown, Unknown, NoRoot)

(* Ecosystem.unknown: the right scheme and manager, and the repository root. *)
unknown(e, root) == Coord(e.scheme, e.manager, Unknown, Unknown, root)

(* Coord.Namespace of a file of dir: dir relative to the root, "" outside it. *)
Namespace(c, dir) ==
  IF IsPrefix(c.root, dir) THEN SubSeq(dir, Len(c.root) + 1, Len(dir)) ELSE <<>>

(* Mutant: the package's own name for its namespace. *)
Import_Last(c, path) ==
  IF IsPrefix(c.name, path)
  THEN [coord |-> c, ns |-> IF path = c.name THEN <<>> ELSE << Last(path) >>]
  ELSE [coord |-> Foreign(c.scheme, c.manager, path), ns |-> <<>>]

(* Coord.Import: inside the module a namespace, outside a foreign coordinate. *)
Import(c, path) ==
  IF IsPrefix(c.name, path)
  THEN [coord |-> c, ns |-> SubSeq(path, Len(c.name) + 1, Len(path))]
  ELSE [coord |-> Foreign(c.scheme, c.manager, path), ns |-> <<>>]

(* What a symbol of the namespace renders, up to the symbol's own suffix. *)
Descriptor(c, ns) == << Prefix(c), ns >>

-----------------------------------------------------------------------------
(* Mutant: a manifest that does not parse is passed over. *)
Present_Readable(docs) == { m \in DOMAIN docs : ~From(m, docs[m]).failed }

(* The manifests of a directory, and what they state. *)
Present(docs) == { m \in Range(Manifests) : m \in DOMAIN docs }

Found(docs, root) ==
  [m \in DOMAIN docs |-> LET id == From(m, docs[m]) IN
     Coord(ecosystems[m].scheme, ecosystems[m].manager, id.name, id.version, root)]

(* The first of some manifests, in the registry's order. *)
First(found) ==
  LET at == { i \in DOMAIN Manifests : Manifests[i] \in found }
  IN  Manifests[CHOOSE i \in at : \A j \in at : i <= j]

(* Mutant: no entry for an ecosystem without a manifest. *)
newSet_Found(root, found) ==
  [byExt   |-> [e \in { x \in Extensions : owner[x] \in DOMAIN found } |-> found[owner[e]]],
   primary |-> found[First(DOMAIN found)]]

newSet(root, found) ==
  [byExt   |-> [e \in Extensions |-> IF owner[e] \in DOMAIN found THEN found[owner[e]]
                                     ELSE unknown(ecosystems[owner[e]], root)],
   primary |-> found[First(DOMAIN found)]]

For(s, ext) == s.byExt[ext]

NoSet == [byExt |-> <<>>, primary |-> <<>>]

Init ==
  /\ layout \in [Trees -> Layouts]
  /\ cur = [t \in Trees |-> Start]
  /\ outcome = [t \in Trees |-> "looking"]
  /\ set = [t \in Trees |-> NoSet]

(* One turn of Resolve's loop: read the directory's manifests in order, and *)
(* stop, fail on the first malformed one, or go up to the parent.           *)
Resolve(t) ==
  LET docs == layout[t][cur[t]] IN
  /\ outcome[t] = "looking"
  /\ \/ /\ \E m \in Present(docs) : From(m, docs[m]).failed
        /\ outcome' = [outcome EXCEPT ![t] = "failed"]
        /\ UNCHANGED <<cur, set>>
     \/ /\ Present(docs) # {}
        /\ \A m \in Present(docs) : ~From(m, docs[m]).failed
        /\ outcome' = [outcome EXCEPT ![t] = "resolved"]
        /\ set' = [set EXCEPT ![t] = newSet(cur[t], Found(docs, cur[t]))]
        /\ UNCHANGED cur
     \/ /\ Present(docs) = {} /\ cur[t] = <<>>
        /\ outcome' = [outcome EXCEPT ![t] = "no manifest"]
        /\ UNCHANGED <<cur, set>>
     \/ /\ Present(docs) = {} /\ cur[t] # <<>>
        /\ cur' = [cur EXCEPT ![t] = Front(@)]
        /\ UNCHANGED <<outcome, set>>
  /\ UNCHANGED layout

Next == \E t \in Trees : Resolve(t)

Spec == Init /\ [][Next]_vars
-----------------------------------------------------------------------------
(* What a coordinate must be for the link pass to join exactly what belongs *)
(* together.                                                                *)
Resolved == { t \in Trees : outcome[t] = "resolved" }

TypeOK ==
  /\ \A t \in Trees : cur[t] \in DOMAIN layout[t]
  /\ \A t \in Trees : IsPrefix(cur[t], Start)
  /\ outcome \in [Trees -> {"looking", "resolved", "no manifest", "failed"}]
  /\ \A t \in Trees : IF t \in Resolved THEN DOMAIN set[t].byExt = Extensions
                                        ELSE set[t] = NoSet

-----------------------------------------------------------------------------
(* The nearest directory at or above the tree that holds a manifest. *)
Holds(t)   == { d \in DOMAIN layout[t] : DOMAIN layout[t][d] # {} }
Nearest(t) == CHOOSE d \in Holds(t) : \A e \in Holds(t) : Len(e) <= Len(d)

(* Exactly the nearest manifests decide (Resolve): every extension is       *)
(* stamped against the directory that holds them, a manifest further up     *)
(* changes nothing, not even when it is malformed, and a tree fails only    *)
(* when one of its own manifests is malformed or there is none at all.      *)
NearestManifestsDecide ==
  \A t \in Trees :
    /\ outcome[t] = "no manifest" => Holds(t) = {}
    /\ outcome[t] = "failed" => \E m \in DOMAIN layout[t][Nearest(t)] :
                                  From(m, layout[t][Nearest(t)][m]).failed
    /\ outcome[t] = "resolved" =>
         /\ \A e \in Extensions :
              LET c == For(set[t], e)  docs == layout[t][Nearest(t)] IN
              /\ c.root = Nearest(t)
              /\ c.scheme = ecosystems[owner[e]].scheme
              /\ c.name # Unknown => owner[e] \in DOMAIN docs
         /\ set[t].primary \in Range(set[t].byExt)
         /\ \A m \in DOMAIN layout[t][Nearest(t)] : ~From(m, layout[t][Nearest(t)][m]).failed

(* Two files that could be told apart never render one descriptor: not the  *)
(* files of two ecosystems, whatever their manifests state or fail to       *)
(* state, and not the files of two directories, resolved ecosystem or not   *)
(* (Ecosystem.unknown keeps the root for this).                             *)
DescriptorsSeparate ==
  \A t \in Resolved :
    LET rendered == [e \in Extensions |-> [d \in Dirs |->
                       Descriptor(For(set[t], e), Namespace(For(set[t], e), d))]]
    IN  \A e1, e2 \in Extensions : \A d1, d2 \in Dirs :
          rendered[e1][d1] = rendered[e2][d2] => owner[e1] = owner[e2] /\ d1 = d2

(* An import renders the descriptor of a directory's definitions exactly    *)
(* when it names that directory of this module: one that leaves the module  *)
(* joins nothing of it (Coord.Import and Coord.Namespace agree).            *)
ImportJoinsItsPackage ==
  \A t \in Resolved : \A p \in Paths : \A d \in Dirs :
    LET c == For(set[t], ".go")  i == Import(c, p) IN
    Descriptor(i.coord, i.ns) = Descriptor(c, Namespace(c, d))
      <=> p = c.name \o SubSeq(d, Len(c.root) + 1, Len(d))

-----------------------------------------------------------------------------
(* TOML as its specification reads it: the quote a line starts inside of,   *)
(* the table it belongs to and the last value a key of the table is given.  *)
Toggle(open, q) == IF open = "none" THEN q ELSE IF open = q THEN "none" ELSE open

Inside(lines) ==
  LET at[i \in 1 .. Len(lines) + 1] ==
        IF i = 1 THEN "none" ELSE FoldLeft(Toggle, at[i - 1], lines[i - 1].quotes)
  IN  at

TomlValue(lines, table, key) ==
  LET plain(i)  == Inside(lines)[i] = "none"
      headers   == { i \in DOMAIN lines : plain(i) /\ lines[i].kind = "header" }
      within(i) == \E h \in headers : /\ h < i /\ lines[h].table = table
                                      /\ \A g \in headers : g < i => g <= h
      stated    == { i \in DOMAIN lines : /\ plain(i) /\ within(i) /\ lines[i].kind = "key"
                                          /\ lines[i].key = key
                                          /\ Inside(lines)[i + 1] = "none" }
  IN  IF stated = {} THEN Absent
      ELSE lines[CHOOSE i \in stated : \A j \in stated : j <= i].value

(* The gem of a Gemfile.lock: the entries under the specs: of a PATH block  *)
(* whose remote is this directory.                                          *)
LockedGems(lines) ==
  { i \in DOMAIN lines : \E p \in 1 .. i - 1 :
      /\ lines[p].indent = 0 /\ lines[p].text = "PATH"
      /\ \A k \in p + 1 .. i : lines[k].indent # 0
      /\ \E r, s \in p + 1 .. i - 1 : /\ r < s
                                      /\ lines[r].text = "remote:." /\ lines[s].text = "specs:"
      /\ lines[i].indent = 4 }

(* The documents. Only some formats have values that name another. A line   *)
(* of TOML has the triple quotes of one string at most, none after it       *)
(* closed the one it started in, and a header has none. Bundler writes a    *)
(* block's remote before its specs.                                         *)
Written == Seq(STRING) \ {Pointer}

TripleQuotes == { <<>>, <<"D">>, <<"S">>, <<"D", "D">>, <<"S", "S">> }

TomlDocument(lines) ==
  /\ lines \in Seq([kind : STRING, table : STRING, key : STRING, value : Written, quotes : TripleQuotes])
  /\ \A i \in DOMAIN lines :
       LET open == Inside(lines)[i] IN
       IF open = "none" THEN lines[i].kind = "header" => lines[i].quotes = <<>>
                        ELSE lines[i].quotes # <<open, open>>

LockDocument(lines) ==
  /\ lines \in Seq([indent : Nat, text : STRING, name : Written, version : Written])
  /\ \A i, j \in DOMAIN lines : i < j /\ lines[i].text = "specs:" /\ lines[j].text = "remote:."
                                  => \E k \in i .. j : lines[k].indent = 0

Document(m, doc) ==
  CASE m = "go.mod"                            -> doc \in Seq([directive : STRING, module : Written])
    [] m \in {"package.json", "composer.json"} -> doc \in [wellFormed : BOOLEAN, name : Written,
                                                           version : Written]
    [] m \in {"Cargo.toml", "pyproject.toml"}  -> TomlDocument(doc)
    [] m = "Gemfile"                           -> LockDocument(doc)
    [] m = "pom.xml" -> doc.pom \in [group : Seq(STRING), artifact : Seq(STRING), version : Seq(STRING),
                                     parentGroup : Seq(STRING), parentVersion : Seq(STRING)]
    [] m = "Directory.Build.props" ->
         doc.groups \in Seq([id : Seq(STRING), assembly : Seq(STRING), version : Seq(STRING),
                             prefix : Seq(STRING)])
    [] OTHER -> TRUE

ASSUME DocumentsAssumption ==
  \A l \in Layouts : \A d \in DOMAIN l : \A m \in DOMAIN l[d] : Document(m, l[d][m])

(* A scanner that reads a manifest line by line states what the format      *)
(* states, nothing a multi-line string, another table, another checkout's   *)
(* block or a variable reference merely mentions.                           *)
IdentityIsStated ==
  \A t \in Resolved : \A m \in DOMAIN layout[t][Nearest(t)] :
    LET doc == layout[t][Nearest(t)][m]
        c   == For(set[t], CHOOSE e \in ecosystems[m].exts : TRUE)
    IN
    /\ c.name \notin {Absent, Pointer} /\ c.version \notin {Absent, Pointer}
    /\ m = "Cargo.toml" => /\ c.name = Or(TomlValue(doc, "package", "name"), Unknown)
                           /\ c.version = Or(TomlValue(doc, "package", "version"), Unknown)
    /\ m = "pyproject.toml" => /\ c.name = Or(TomlValue(doc, "project", "name"), Unknown)
                               /\ c.version = Or(TomlValue(doc, "project", "version"), Unknown)
    /\ m = "Gemfile" => IF LockedGems(doc) = {} THEN c.name = Unknown /\ c.version = Unknown
                        ELSE LET gem == doc[CHOOSE i \in LockedGems(doc) :
                                              \A j \in LockedGems(doc) : i <= j]
                             IN  c.name = Or(gem.name, Unknown) /\ c.version = Or(gem.version, Unknown)
=============================================================================
