------------------------------ MODULE LinkGraph ------------------------------
(***************************************************************************)
(* The five derived edge tables as functions of the base facts: the        *)
(* Rebuild... and Relink... queries of store/sqlc/query.sql.               *)
(*                                                                         *)
(* A graph is a record: which files have a row, the occurrences each file  *)
(* was last loaded with, the number of times it was loaded (the uuids of   *)
(* its occurrences are minted anew every time), and the derived tables.    *)
(* A descriptor is the symbol it belongs to and a member suffix, "" for    *)
(* the symbol itself: `Storer#Put().` is Put of Storer.                    *)
(***************************************************************************)
EXTENDS Naturals, Sequences

CONSTANTS
  Files,       \* paths a batch may load
  Symbols,     \* the occurrences a file may hold
  MaxSymbols,  \* how many of them
  Types,       \* symbols whose descriptor ends in '#'
  Methods      \* member suffixes that end in '().'

Callable == {"function", "method"}
Typed    == {"variable", "field", "parameter", "constant"}
Kinds    == Callable \cup Typed \cup {"type", "interface", "package", "module"}
Places   == 1..MaxSymbols

ASSUME PlacesAssumption == MaxSymbols \in Nat
ASSUME SymbolAssumption ==
  \A s \in Symbols : /\ s.at \in Nat /\ s.kind \in Kinds
                     /\ s.role \in {"definition", "reference"}
                     /\ DOMAIN s.desc = {"of", "member"}

\* A file's occurrences, in the order of (range_start, id).
Text == {s \in Seq(Symbols) :
           Len(s) <= MaxSymbols /\ \A i, j \in 1..Len(s) : i < j => s[i].at <= s[j].at}

\* An occurrence is a file and a place in it; its uuid is the one flatten gave
\* it in the file's last load.
Sym(d, x) == d.text[x[1]][x[2]]
Id(d, x)  == <<x[1], d.gen[x[1]], x[2]>>

Occurrences(d, U) == {x \in U \X Places : x[2] \in DOMAIN d.text[x[1]]}
Refs(d, U) == {x \in Occurrences(d, U) : Sym(d, x).role = "reference"}
Defs(d)    == {x \in Occurrences(d, Files) : Sym(d, x).role = "definition"}

\* reference.descriptor = definition.descriptor, in different files, with the
\* referencing side restricted to the files of U.
Linked(d, U) ==
  {j \in Refs(d, U) \X Defs(d) :
     j[1][1] # j[2][1] /\ Sym(d, j[1]).desc = Sym(d, j[2]).desc}

\* The four tables a reference leads to, from the pairs L it links.
ResolvesTo(d, L) == {<<Id(d, j[1]), Id(d, j[2])>> : j \in L}

Imports(d, L) ==
  {<<j[1][1], j[2][1]>> : j \in {k \in L : Sym(d, k[2]).kind = "package"}}

\* The nearest preceding callable definition of the same file, if any; of two
\* at one offset the one with the smaller id.
Enclosing(s, p) ==
  LET Before == {c \in DOMAIN s : /\ s[c].role = "definition" /\ s[c].kind \in Callable
                                  /\ s[c].at <= s[p].at}
  IN {c \in Before : \A e \in Before : s[e].at < s[c].at \/ (s[e].at = s[c].at /\ c <= e)}

Calls(d, L) ==
  {<<Id(d, <<x[1][1][1], x[2]>>), Id(d, x[1][2])>> :
     x \in {y \in L \X Places :
              /\ Sym(d, y[1][1]).kind \in Callable /\ Sym(d, y[1][2]).kind \in Callable
              /\ y[2] \in Enclosing(d.text[y[1][1][1]], y[1][1][2])}}

\* A declaration immediately followed, in its scope, by a type reference.
Declares(s, p) ==
  /\ p - 1 \in DOMAIN s /\ s[p].kind = "type"
  /\ s[p - 1].role = "definition" /\ s[p - 1].kind \in Typed
  /\ s[p - 1].scope = s[p].scope

TypeDefines(d, L) ==
  {<<Id(d, <<j[1][1], j[1][2] - 1>>), Id(d, j[2])>> :
     j \in {k \in L : Declares(d.text[k[1][1]], k[1][2])}}

\* Structural method-set containment: no reference occurrence is involved, so
\* there is no file to restrict it to.
TypeDefs(d) == {x \in Defs(d) : Sym(d, x).desc.of \in Types /\ Sym(d, x).desc.member = ""}
Members(d, t) == {x \in Defs(d) : /\ Sym(d, x).desc.of = Sym(d, t).desc.of
                                  /\ Sym(d, x).desc.member \in Methods}
MethodSet(d, t) == {Sym(d, x).desc.member : x \in Members(d, t)}

Satisfies(d) ==
  {x \in TypeDefs(d) \X TypeDefs(d) :
     /\ x[1][1] # x[2][1]
     /\ Sym(d, x[1]).kind # "interface" /\ Sym(d, x[2]).kind = "interface"
     /\ MethodSet(d, x[2]) # {} /\ MethodSet(d, x[2]) \subseteq MethodSet(d, x[1])}

Overrides(d, x) ==
  {y \in Members(d, x[1]) \X Members(d, x[2]) :
     Sym(d, y[1]).desc.member = Sym(d, y[2]).desc.member}

Implements(d) ==
  LET Pairs == Satisfies(d) \cup UNION {Overrides(d, x) : x \in Satisfies(d)}
  IN {<<Id(d, y[1]), Id(d, y[2])>> : y \in Pairs}

\* The derived tables, with the referencing side restricted to U; there is no
\* referencing side to restrict implements to.
Tables == {"resolves_to", "calls", "implements", "type_defines", "imports"}
Derive(d, U) ==
  LET L == Linked(d, U)
  IN [resolves_to  |-> ResolvesTo(d, L), calls |-> Calls(d, L), implements |-> Implements(d),
      type_defines |-> TypeDefines(d, L), imports |-> Imports(d, L)]
Rebuilt(d) == Derive(d, Files)
=============================================================================
