------------------------------ MODULE MCCoords ------------------------------
(* A tree two directories below the file system's root, one or two          *)
(* manifests anywhere at or above it, and documents of each format that     *)
(* reach every branch of its resolver.                                      *)
EXTENDS Coords

A == <<"a">>   B == <<"b">>   One == <<"1">>

MCStart == <<"r", "s">>
MCDirs  == { <<"r", "s">>, <<"r", "s", "a">>, <<"r", "s", "b">>, <<"r", "s", "a", "b">> }
MCPaths == { A, <<"a", "s">>, <<"a", "s", "a">>, <<"a", "b">>, <<"a", "v2">>, <<"a", "v2", "a">>,
             <<"a", "v2", "s", "b">>, B, <<"s", "a">> }

Module(d, p) == [directive |-> d, module |-> p]
GoMods == { << >>, << Module("require", B) >>, << Module("module", A) >>,
            << Module("module", Absent), Module("module", <<"a", "v2">>) >> }

JSONs == { [wellFormed |-> w, name |-> n, version |-> v] :
             w \in BOOLEAN, n \in {Absent, A}, v \in {Absent, One} }

POMs == { [wellFormed |-> w, pom |-> [group |-> g, artifact |-> a, version |-> v,
                                      parentGroup |-> pg, parentVersion |-> One]] :
            w \in BOOLEAN, g \in {Absent, Pointer, A}, a \in {Absent, Pointer, B},
            v \in {Absent, Pointer, One}, pg \in {Absent, B} }

Group(i, a, v, p) == [id |-> i, assembly |-> a, version |-> v, prefix |-> p]
Props == { [wellFormed |-> w, groups |-> gs] : w \in BOOLEAN, gs \in {
             << >>, << Group(Pointer, A, Absent, One) >>,
             << Group(Absent, Absent, Pointer, Absent), Group(B, A, One, Absent) >>,
             << Group(Absent, Pointer, Absent, Absent) >> } }

Line(kind, table, key, value, quotes) ==
  [kind |-> kind, table |-> table, key |-> key, value |-> value, quotes |-> quotes]
Header(table) == Line("header", table, "", Absent, << >>)
Key(k, v)     == Line("key", "", k, v, << >>)
Quotes(qs)    == Line("key", "", "description", Absent, qs)
TomlLines == { Header("package"), Header("project"), Key("name", A), Key("version", One),
               Key("name", Absent), Quotes(<<"D">>), Quotes(<<"S">>), Quotes(<<"D", "D">>) }
Opened(lines) == Inside(lines)[Len(lines) + 1] # "none"
(* Inside a string no line opens and closes at once: the scanner would take *)
(* it for the close. *)
Framed(mid) == { << Header(t) >> \o mid \o << Key("name", B) >> : t \in {"package", "project"} }
Tomls == { ls \in UNION { [1 .. n -> TomlLines] : n \in 0 .. 2 }
                 \cup UNION { Framed(mid) : mid \in UNION { [1 .. n -> TomlLines] : n \in 0 .. 3 } } :
             /\ ~Opened(ls)
             /\ \A i \in DOMAIN ls : Len(ls[i].quotes) = 2 => Inside(ls)[i] # "D" }
FewTomls == { << >>, << Header("package"), Key("name", A) >>,
              << Header("project"), Key("name", A), Key("version", One) >> }

Lock(i, x) == [indent |-> i, text |-> x, name |-> Absent, version |-> Absent]
Gem(i, n, v) == [indent |-> i, text |-> "gem", name |-> n, version |-> v]
Block(head, remote, gems) == << Lock(0, head), Lock(2, remote), Lock(2, "specs:") >> \o gems
Blocks == { Block(h, r, gs) : h \in {"PATH", "GEM"}, r \in {"remote:.", "remote:../x"},
              gs \in { << >>, << Gem(4, A, One), Gem(6, B, Absent) >>, << Gem(4, B, Absent), Gem(4, A, One) >> } }
Locks == { << >> } \cup Blocks \cup { x \o y : x, y \in Blocks }
FewLocks == { << >>, << Lock(0, "PATH"), Lock(2, "remote:."), Lock(2, "specs:"), Gem(4, A, One) >> }

Assign(a, l) == [assigns |-> a, literal |-> l]
Settings == { << >>, << Assign(FALSE, A), Assign(TRUE, A), Assign(TRUE, B) >>, << Assign(TRUE, Pointer) >> }

Swift(p, n, l) == [package |-> p, named |-> n, literal |-> l]
Packages == { << >>, << Swift(FALSE, TRUE, B), Swift(TRUE, FALSE, Absent), Swift(FALSE, TRUE, A) >>,
              << Swift(TRUE, TRUE, Pointer), Swift(FALSE, TRUE, B) >> }

Call(c, closed, args) == [command |-> c, closed |-> closed, args |-> args]
CMakes == { << >>, << Call("project", TRUE, << >>) >>,
            << Call("set", TRUE, <<B>>), Call("project", FALSE, <<B>>), Call("project", TRUE, <<A, Keyword, One>>) >>,
            << Call("project", TRUE, <<Pointer, Keyword>>) >>,
            << Call("project", TRUE, <<Keyword, Keyword, Pointer, Keyword, One>>) >> }

Documents(m, few) ==
  CASE m = "go.mod"                            -> GoMods
    [] m \in {"package.json", "composer.json"} -> JSONs
    [] m = "pom.xml"                           -> IF few THEN { d \in POMs : d.pom.parentGroup = B /\ d.pom.group = Absent } ELSE POMs
    [] m = "Directory.Build.props"             -> Props
    [] m \in {"Cargo.toml", "pyproject.toml"}  -> IF few THEN FewTomls ELSE Tomls
    [] m = "Gemfile"                           -> IF few THEN FewLocks ELSE Locks
    [] m = "settings.gradle.kts"               -> Settings
    [] m = "Package.swift"                     -> Packages
    [] m = "CMakeLists.txt"                    -> CMakes

Above == { SubSeq(MCStart, 1, n) : n \in 0 .. Len(MCStart) }
Place(dir, docs) == [d \in Above |-> IF d = dir THEN docs ELSE << >>]
Both(p, q) == [d \in Above |-> p[d] @@ q[d]]

Placed(few) == UNION { { Place(d, m :> doc) : d \in Above, doc \in Documents(m, few) } : m \in Range(Manifests) }
Alone  == UNION { { Place(<<"r">>, m :> doc) : doc \in Documents(m, FALSE) } : m \in Range(Manifests) }
Nested == { Place(MCStart, m :> doc) : m \in {"go.mod"}, doc \in GoMods }

Beside == { p \in Placed(TRUE) : p[<<"r">>] # << >> }

(* One manifest of every shape; a go.mod below any other; any two in one    *)
(* directory. *)
MCLayouts == Alone \cup { Both(p, q) : p \in Nested \cup { Place(<< >>, << >>) }, q \in Placed(TRUE) }
                   \cup { Both(p, q) : p, q \in Beside }

(* Two trees beside each other, for the one question about two. *)
MCPairs == { Place(<<"r">>, m :> doc) : m \in {"Gemfile"}, doc \in FewLocks }
=============================================================================
