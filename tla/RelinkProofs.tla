---------------------------- MODULE RelinkProofs ----------------------------
(***************************************************************************)
(* The incremental re-link equals the full rebuild, for every corpus: any  *)
(* files, any symbols, any texts, any number of loads and batches.         *)
(*                                                                         *)
(* The argument is the banner of query.sql, made exact.  A row of the four *)
(* scoped tables comes from one pair of a reference and a definition it    *)
(* names, and belongs to the reference's file.  Replacing a file changes   *)
(* the pairs it takes part in and no other; the two neighbourhoods name    *)
(* the owners of all of those.  So the rows outside the owners are, at     *)
(* every moment of a batch, what the rebuild would derive for them.        *)
(***************************************************************************)
EXTENDS Relink, TLAPS

Scoped == Tables \ {"implements"}

\* The rows of table t that the linked pair j gives rise to.
Edges(d, j, t) ==
  CASE t = "resolves_to"  -> ResolvesTo(d, {j})
    [] t = "calls"        -> Calls(d, {j})
    [] t = "type_defines" -> TypeDefines(d, {j})
    [] t = "imports"      -> Imports(d, {j})

Pair == (Files \X Places) \X (Files \X Places)

-----------------------------------------------------------------------------
(* What the derivations are built from.                                    *)

(* A scoped table is derived pair by pair: a row is there because of one   *)
(* reference and one definition (the DISTINCT joins of query.sql).         *)
LEMMA OneByOne ==
  ASSUME NEW d, NEW U, NEW t \in Scoped, NEW r
  PROVE r \in Derive(d, U)[t] <=> \E j \in Linked(d, U) : r \in Edges(d, j, t)
<1>1. \A L : \A q : q \in ResolvesTo(d, L) <=> \E j \in L : q \in ResolvesTo(d, {j})
  BY DEF ResolvesTo
<1>2. \A L : \A q : q \in Calls(d, L) <=> \E j \in L : q \in Calls(d, {j})
  BY DEF Calls
<1>3. \A L : \A q : q \in TypeDefines(d, L) <=> \E j \in L : q \in TypeDefines(d, {j})
  BY DEF TypeDefines
<1>4. \A L : \A q : q \in Imports(d, L) <=> \E j \in L : q \in Imports(d, {j})
  BY DEF Imports
<1>5. CASE t = "resolves_to"
  BY <1>1, <1>5 DEF Derive, Edges
<1>6. CASE t = "calls"
  BY <1>2, <1>6 DEF Derive, Edges
<1>7. CASE t = "type_defines"
  BY <1>3, <1>7 DEF Derive, Edges
<1>8. CASE t = "imports"
  BY <1>4, <1>8 DEF Derive, Edges
<1> QED
  BY <1>5, <1>6, <1>7, <1>8 DEF Scoped, Tables

(* A row lies between the two files of its pair and belongs to the first:  *)
(* what the ...BySourceFile and ...ByOwners deletes select.                *)
LEMMA Ends ==
  ASSUME NEW d, NEW j \in Pair, NEW t \in Scoped, NEW r \in Edges(d, j, t)
  PROVE SourceFile(t, r) = j[1][1] /\ TargetFile(t, r) = j[2][1]
<1>1. CASE t = "resolves_to"
  BY <1>1 DEF Edges, ResolvesTo, Id, SourceFile, TargetFile, Pair
<1>2. CASE t = "calls"
  BY <1>2 DEF Edges, Calls, Id, SourceFile, TargetFile, Pair
<1>3. CASE t = "type_defines"
  BY <1>3 DEF Edges, TypeDefines, Id, SourceFile, TargetFile, Pair
<1>4. CASE t = "imports"
  BY <1>4 DEF Edges, Imports, SourceFile, TargetFile, Pair
<1> QED
  BY <1>1, <1>2, <1>3, <1>4 DEF Scoped, Tables

(* The added conjunct of the Relink... queries selects whole files of the  *)
(* referencing side.                                                       *)
LEMMA LinkedScope ==
  ASSUME NEW d, NEW U \in SUBSET Files, NEW j
  PROVE /\ j \in Linked(d, U) <=> j \in Linked(d, Files) /\ j[1][1] \in U
        /\ j \in Linked(d, U) => j \in Pair
BY DEF Linked, Refs, Defs, Occurrences, Pair

(* A scoped table, by the files that own its rows.                         *)
LEMMA ScopedRows ==
  ASSUME NEW d, NEW U \in SUBSET Files, NEW t \in Scoped, NEW r
  PROVE r \in Derive(d, U)[t] <=> r \in Rebuilt(d)[t] /\ SourceFile(t, r) \in U
<1>1. r \in Derive(d, U)[t] <=>
        \E j \in Linked(d, Files) : j[1][1] \in U /\ r \in Edges(d, j, t)
  BY OneByOne, LinkedScope
<1>2. r \in Rebuilt(d)[t] <=> \E j \in Linked(d, Files) : r \in Edges(d, j, t)
  BY OneByOne DEF Rebuilt
<1>3. \A j \in Linked(d, Files) : r \in Edges(d, j, t) => SourceFile(t, r) = j[1][1]
  BY Ends, LinkedScope
<1> QED
  BY <1>1, <1>2, <1>3

IsCall(d, j, r) ==
  \E p \in Places : /\ Sym(d, j[1]).kind \in Callable /\ Sym(d, j[2]).kind \in Callable
                    /\ p \in Enclosing(d.text[j[1][1]], j[1][2])
                    /\ r = <<Id(d, <<j[1][1], p>>), Id(d, j[2])>>

(* The calls of one pair, without the detour through its comprehension.    *)
LEMMA CallOf ==
  ASSUME NEW d, NEW j, NEW r
  PROVE r \in Calls(d, {j}) <=> IsCall(d, j, r)
<1>1. ASSUME NEW p \in Places,
             Sym(d, j[1]).kind \in Callable, Sym(d, j[2]).kind \in Callable,
             p \in Enclosing(d.text[j[1][1]], j[1][2]),
             r = <<Id(d, <<j[1][1], p>>), Id(d, j[2])>>
      PROVE r \in Calls(d, {j})
  <2> DEFINE y == <<j, p>>
  <2>1. y \in {j} \X Places /\ y[1] = j /\ y[2] = p
    OBVIOUS
  <2> QED
    BY <1>1, <2>1 DEF Calls
<1>2. ASSUME r \in Calls(d, {j})
      PROVE IsCall(d, j, r)
  BY <1>2 DEF Calls, IsCall
<1> QED
  BY <1>1, <1>2 DEF IsCall

(* What a pair gives rise to depends on its two files and on nothing else  *)
(* of the graph.                                                           *)
LEMMA Local ==
  ASSUME NEW d, NEW e, NEW j \in Pair, NEW t \in Scoped,
         \A g \in {j[1][1], j[2][1]} : d.text[g] = e.text[g] /\ d.gen[g] = e.gen[g]
  PROVE /\ Edges(d, j, t) = Edges(e, j, t)
        /\ j \in Linked(d, Files) <=> j \in Linked(e, Files)
<1>1. j[1] \in Files \X Places /\ j[2] \in Files \X Places
  BY DEF Pair
<1>2. \A x : x[1] \in {j[1][1], j[2][1]} => Sym(d, x) = Sym(e, x) /\ Id(d, x) = Id(e, x)
  BY DEF Sym, Id
<1>3. ResolvesTo(d, {j}) = ResolvesTo(e, {j})
  BY <1>2 DEF ResolvesTo
<1>4. Calls(d, {j}) = Calls(e, {j})
  <2>1. d.text[j[1][1]] = e.text[j[1][1]]
    OBVIOUS
  <2>2. \A p : Id(d, <<j[1][1], p>>) = Id(e, <<j[1][1], p>>)
    BY <1>2
  <2>3. Sym(d, j[1]) = Sym(e, j[1]) /\ Sym(d, j[2]) = Sym(e, j[2]) /\ Id(d, j[2]) = Id(e, j[2])
    BY <1>2
  <2>4. ASSUME NEW r
        PROVE r \in Calls(d, {j}) <=> r \in Calls(e, {j})
    <3>1. (r \in Calls(d, {j}) <=> IsCall(d, j, r)) /\ (r \in Calls(e, {j}) <=> IsCall(e, j, r))
      BY CallOf
    <3> QED
      BY <2>1, <2>2, <2>3, <3>1 DEF IsCall
  <2> QED
    BY <2>4 DEF Calls
<1>5. TypeDefines(d, {j}) = TypeDefines(e, {j})
  BY <1>2 DEF TypeDefines
<1>6. Imports(d, {j}) = Imports(e, {j})
  BY <1>2 DEF Imports
<1>7. j \in Linked(d, Files) <=> j \in Linked(e, Files)
  BY <1>1, <1>2 DEF Linked, Refs, Defs, Occurrences
<1> QED
  BY <1>3, <1>4, <1>5, <1>6, <1>7 DEF Edges
-----------------------------------------------------------------------------
(* What a load does to the rows of others.                                 *)

(* Both calls of Touch name every file whose rows lead to the loaded one:  *)
(* the first those of its old definitions, the second those of its new.    *)
LEMMA Neighbourhood ==
  ASSUME NEW d, NEW f \in Files, NEW j \in Linked(d, Files), j[2][1] = f
  PROVE j[1][1] \in RelinkOwners(d, f)
<1>1. j[1] \in Refs(d, {j[1][1]}) /\ j[2] \in Defs(d) /\ j[1][1] \in Files
  BY DEF Linked, Refs, Defs, Occurrences
<1>2. Sym(d, j[1]).desc = Sym(d, j[2]).desc
  BY DEF Linked
<1> QED
  BY <1>1, <1>2 DEF RelinkOwners

(* A file that is not loaded keeps its occurrences and their ids; the      *)
(* loaded one is always in its own neighbourhood.                          *)
LEMMA Replaced ==
  ASSUME NEW d, DOMAIN d.text = Files, DOMAIN d.gen = Files,
         NEW f \in Files, NEW s, NEW e, e = ReplaceFile(d, f, s)
  PROVE /\ \A g \in Files : g # f => d.text[g] = e.text[g] /\ d.gen[g] = e.gen[g]
        /\ e.text[f] = s /\ e.gen[f] = d.gen[f] + 1
        /\ DOMAIN e.text = Files /\ DOMAIN e.gen = Files
        /\ e.files = d.files \cup {f} /\ e.rows = Without(d, f)
        /\ f \in RelinkOwners(e, f)
BY DEF ReplaceFile, RelinkOwners

(* Outside the two neighbourhoods a load changes nothing a rebuild would   *)
(* derive, and no row derived there leads to the loaded file.              *)
LEMMA Unaffected ==
  ASSUME NEW d, DOMAIN d.text = Files, DOMAIN d.gen = Files,
         NEW f \in Files, NEW s, NEW e, e = ReplaceFile(d, f, s),
         NEW t \in Scoped, NEW r,
         SourceFile(t, r) \notin RelinkOwners(d, f) \cup RelinkOwners(e, f)
  PROVE /\ r \in Rebuilt(d)[t] <=> r \in Rebuilt(e)[t]
        /\ r \in Rebuilt(d)[t] => TargetFile(t, r) # f
        /\ SourceFile(t, r) # f
<1>1. SourceFile(t, r) # f
  BY Replaced
<1>2. \A g \in Files : g # f => d.text[g] = e.text[g] /\ d.gen[g] = e.gen[g]
  BY Replaced
<1>3. ASSUME NEW j \in Linked(d, Files), r \in Edges(d, j, t)
      PROVE j[2][1] # f /\ TargetFile(t, r) # f /\ \E k \in Linked(e, Files) : r \in Edges(e, k, t)
  <2>1. j \in Pair
    BY LinkedScope
  <2>2. SourceFile(t, r) = j[1][1] /\ TargetFile(t, r) = j[2][1]
    BY <1>3, <2>1, Ends
  <2>3. j[2][1] # f
    BY <2>2, Neighbourhood
  <2>4. \A g \in {j[1][1], j[2][1]} : d.text[g] = e.text[g] /\ d.gen[g] = e.gen[g]
    BY <1>1, <1>2, <2>1, <2>2, <2>3 DEF Pair
  <2>5. Edges(d, j, t) = Edges(e, j, t) /\ (j \in Linked(d, Files) <=> j \in Linked(e, Files))
    BY <2>1, <2>4, Local
  <2> QED
    BY <1>3, <2>2, <2>3, <2>5
<1>4. ASSUME NEW j \in Linked(e, Files), r \in Edges(e, j, t)
      PROVE \E k \in Linked(d, Files) : r \in Edges(d, k, t)
  <2>1. j \in Pair
    BY LinkedScope
  <2>2. SourceFile(t, r) = j[1][1]
    BY <1>4, <2>1, Ends
  <2>3. j[2][1] # f
    BY <2>2, Neighbourhood
  <2>4. \A g \in {j[1][1], j[2][1]} : d.text[g] = e.text[g] /\ d.gen[g] = e.gen[g]
    BY <1>1, <1>2, <2>1, <2>2, <2>3 DEF Pair
  <2>5. Edges(d, j, t) = Edges(e, j, t) /\ (j \in Linked(d, Files) <=> j \in Linked(e, Files))
    BY <2>1, <2>4, Local
  <2> QED
    BY <1>4, <2>5
<1> QED
  BY <1>1, <1>3, <1>4, OneByOne DEF Rebuilt
-----------------------------------------------------------------------------
(* Where derived rows end.                                                 *)

Anchored(d, t, r) ==
  \E x, y \in Occurrences(d, Files) :
    r = IF t = "imports" THEN <<x[1], y[1]>> ELSE <<Id(d, x), Id(d, y)>>

\* No more occurrences in a file than the bound on a text.
Fits(d) == \A f \in Files : DOMAIN d.text[f] \subseteq Places

(* Both ends of every derived row are occurrences of the graph it was      *)
(* derived from, or files that hold one: the inserts satisfy the endpoint  *)
(* foreign keys.                                                           *)
LEMMA DerivedAnchored ==
  ASSUME NEW d, Fits(d), NEW U \in SUBSET Files, NEW t \in Tables, NEW r \in Derive(d, U)[t]
  PROVE Anchored(d, t, r)
<1>1. CASE t = "implements"
  <2>1. r \in Implements(d)
    BY <1>1 DEF Derive
  <2>2. PICK y : y \in Satisfies(d) \cup UNION {Overrides(d, x) : x \in Satisfies(d)}
                 /\ r = <<Id(d, y[1]), Id(d, y[2])>>
    BY <2>1 DEF Implements
  <2>3. y[1] \in Defs(d) /\ y[2] \in Defs(d)
    <3>1. CASE y \in Satisfies(d)
      BY <3>1 DEF Satisfies, TypeDefs
    <3>2. CASE \E x \in Satisfies(d) : y \in Overrides(d, x)
      BY <3>2 DEF Overrides, Members
    <3> QED
      BY <2>2, <3>1, <3>2
  <2> QED
    BY <1>1, <2>2, <2>3 DEF Anchored, Defs
<1>2. CASE t \in Scoped
  <2>1. PICK j \in Linked(d, U) : r \in Edges(d, j, t)
    BY <1>2, OneByOne
  <2>2. j[1] \in Occurrences(d, Files) /\ j[2] \in Occurrences(d, Files)
    BY DEF Linked, Refs, Defs, Occurrences
  <2>3. CASE t = "resolves_to"
    BY <2>1, <2>2, <2>3 DEF Edges, ResolvesTo, Anchored
  <2>4. CASE t = "imports"
    BY <2>1, <2>2, <2>4 DEF Edges, Imports, Anchored
  <2>5. CASE t = "calls"
    <3>1. IsCall(d, j, r)
      BY <2>1, <2>5, CallOf DEF Edges
    <3>2. PICK p \in Places : /\ p \in Enclosing(d.text[j[1][1]], j[1][2])
                              /\ r = <<Id(d, <<j[1][1], p>>), Id(d, j[2])>>
      BY <3>1 DEF IsCall
    <3>3. <<j[1][1], p>> \in Occurrences(d, Files)
      BY <2>2, <3>2 DEF Occurrences, Enclosing
    <3> QED
      BY <2>2, <2>5, <3>2, <3>3 DEF Anchored
  <2>6. CASE t = "type_defines"
    <3> DEFINE q == j[1][2] - 1
    <3>1. /\ Declares(d.text[j[1][1]], j[1][2])
          /\ r = <<Id(d, <<j[1][1], q>>), Id(d, j[2])>>
      BY <2>1, <2>6 DEF Edges, TypeDefines
    <3>2. <<j[1][1], q>> \in Occurrences(d, Files)
      BY <2>2, <3>1 DEF Occurrences, Declares, Fits
    <3> QED
      BY <2>2, <2>6, <3>1, <3>2 DEF Anchored
  <2> QED
    BY <1>2, <2>3, <2>4, <2>5, <2>6 DEF Scoped, Tables
<1> QED
  BY <1>1, <1>2 DEF Scoped
-----------------------------------------------------------------------------
(* The inductive invariant.                                                *)

\* A file without a row holds nothing.
Unloaded(d) == \A f \in Files \ d.files : d.text[f] = << >>

\* No row points at an occurrence or a file that is not there.
Anchors(d) ==
  \A t \in Tables : \A r \in d.rows[t] :
    IF t = "imports" THEN r[1] \in d.files /\ r[2] \in d.files
    ELSE \A i \in 1..2 : \E x \in Occurrences(d, Files) : r[i] = Id(d, x)

\* The rows of files outside the batch's neighbourhood are already those of
\* a rebuild, and those committed before.
Synced ==
  \A t \in Scoped : \A r : SourceFile(t, r) \notin owners =>
    /\ r \in tx.rows[t] <=> r \in Rebuilt(tx)[t]
    /\ r \in tx.rows[t] <=> r \in graph.rows[t]

\* A batch only adds files, and reloads them whole.
Grown ==
  /\ graph.files \subseteq tx.files
  /\ \A f \in Files : \/ tx.gen[f] > graph.gen[f] /\ f \in tx.files
                      \/ tx.gen[f] = graph.gen[f] /\ tx.text[f] = graph.text[f]

IInv ==
  /\ TypeOK
  /\ Unloaded(graph) /\ Unloaded(tx)
  /\ EqualsRebuild
  /\ Anchors(graph) /\ Anchors(tx)
  /\ pc = "idle" => tx = graph
  /\ pc \in {"open", "linked"} => Synced /\ Grown
  /\ pc = "linked" => tx.rows = Rebuilt(tx)

(* A type-correct graph gives every file a text it may hold.               *)
LEMMA GraphTexts ==
  ASSUME NEW d, IsGraph(d)
  PROVE \A f \in Files : d.text[f] \in Text
<1>1. << >> \in Text
  BY PlacesAssumption DEF Text
<1> QED
  BY <1>1, TextsAssumption DEF IsGraph

(* A graph of the right type has room for each of its texts.               *)
LEMMA GraphFits ==
  ASSUME NEW d, IsGraph(d)
  PROVE Fits(d)
<1>1. ASSUME NEW f \in Files
      PROVE DOMAIN d.text[f] \subseteq Places
  <2>1. d.text[f] \in Text
    BY GraphTexts
  <2>2. d.text[f] \in Seq(Symbols) /\ Len(d.text[f]) <= MaxSymbols
    BY <2>1 DEF Text
  <2> QED
    BY <2>2, PlacesAssumption DEF Places
<1> QED
  BY <1>1 DEF Fits

(* The tables of a derivation have the type of a graph's and no dangling   *)
(* row.                                                                    *)
LEMMA DerivedRows ==
  ASSUME NEW d, IsGraph(d), Unloaded(d), NEW U \in SUBSET Files, NEW t \in Tables,
         NEW r \in Derive(d, U)[t]
  PROVE /\ r \in Rows(t)
        /\ IF t = "imports" THEN r[1] \in d.files /\ r[2] \in d.files
           ELSE \A i \in 1..2 : \E x \in Occurrences(d, Files) : r[i] = Id(d, x)
<1>1. PICK x \in Occurrences(d, Files), y \in Occurrences(d, Files) :
        r = IF t = "imports" THEN <<x[1], y[1]>> ELSE <<Id(d, x), Id(d, y)>>
  BY DerivedAnchored, GraphFits DEF Anchored
<1>2. \A z \in Occurrences(d, Files) : z[1] \in d.files
  <2>1. ASSUME NEW z \in Occurrences(d, Files), z[1] \notin d.files
        PROVE FALSE
    <3>1. z[1] \in Files /\ z[2] \in DOMAIN d.text[z[1]]
      BY DEF Occurrences
    <3>2. d.text[z[1]] = << >>
      BY <2>1, <3>1 DEF Unloaded
    <3> QED
      BY <3>1, <3>2
  <2> QED
    BY <2>1
<1>3. \A z \in Occurrences(d, Files) : Id(d, z) \in Ids /\ z[1] \in Files
  <2>1. \A f \in Files : d.gen[f] \in Nat
    <3>1. d.gen \in [Files -> 0..MaxLoads]
      BY DEF IsGraph
    <3> QED
      BY <3>1
  <2> QED
    BY <2>1 DEF Occurrences, Id, Ids
<1>4. CASE t = "imports"
  BY <1>1, <1>2, <1>3, <1>4 DEF Rows
<1>5. CASE t # "imports"
  BY <1>1, <1>3, <1>5 DEF Rows
<1> QED
  BY <1>4, <1>5
-----------------------------------------------------------------------------
(* Every step keeps it.                                                    *)

(* A rebuild reads the base facts and nothing else.                        *)
LEMMA SameBase ==
  ASSUME NEW d, NEW e, d.text = e.text, d.gen = e.gen
  PROVE Rebuilt(d) = Rebuilt(e)
<1>1. ASSUME NEW t \in Scoped
      PROVE Rebuilt(d)[t] = Rebuilt(e)[t]
  <2>1. \A j \in Linked(d, Files) : j \in Linked(e, Files) /\ Edges(d, j, t) = Edges(e, j, t)
    BY LinkedScope, Local
  <2>2. \A j \in Linked(e, Files) : j \in Linked(d, Files) /\ Edges(d, j, t) = Edges(e, j, t)
    BY LinkedScope, Local
  <2>3. \A r : r \in Rebuilt(d)[t] <=> r \in Rebuilt(e)[t]
    BY <2>1, <2>2, OneByOne DEF Rebuilt
  <2> QED
    BY <2>3
<1>2. Implements(d) = Implements(e)
  <2>1. \A x : Sym(d, x) = Sym(e, x) /\ Id(d, x) = Id(e, x)
    BY DEF Sym, Id
  <2>2. Defs(d) = Defs(e)
    BY <2>1 DEF Defs, Occurrences
  <2>3. TypeDefs(d) = TypeDefs(e)
    <3>1. \A x : x \in TypeDefs(d) <=> x \in TypeDefs(e)
      BY <2>1, <2>2, Zenon DEF TypeDefs
    <3> QED
      BY <3>1, Zenon DEF TypeDefs
  <2>4. \A x : Members(d, x) = Members(e, x)
    BY <2>1, <2>2 DEF Members
  <2>5. \A x : MethodSet(d, x) = MethodSet(e, x)
    BY <2>1, <2>4 DEF MethodSet
  <2>6. Satisfies(d) = Satisfies(e)
    BY <2>1, <2>3, <2>5 DEF Satisfies
  <2>7. \A x : Overrides(d, x) = Overrides(e, x)
    BY <2>1, <2>4 DEF Overrides
  <2> QED
    BY <2>1, <2>6, <2>7 DEF Implements
<1>3. /\ ResolvesTo(d, Linked(d, Files)) = ResolvesTo(e, Linked(e, Files))
      /\ Calls(d, Linked(d, Files)) = Calls(e, Linked(e, Files))
      /\ TypeDefines(d, Linked(d, Files)) = TypeDefines(e, Linked(e, Files))
      /\ Imports(d, Linked(d, Files)) = Imports(e, Linked(e, Files))
  BY <1>1 DEF Rebuilt, Derive, Scoped, Tables
<1> QED
  BY <1>2, <1>3 DEF Rebuilt, Derive

(* A graph whose derived tables are swapped for a full derivation is again *)
(* a graph without a dangling row.                                         *)
LEMMA RebuiltGraph ==
  ASSUME NEW d, IsGraph(d), Unloaded(d), NEW e, e = [d EXCEPT !.rows = Rebuilt(d)]
  PROVE /\ IsGraph(e) /\ Unloaded(e) /\ Anchors(e)
        /\ e.rows = Rebuilt(e) /\ Rebuilt(e) = Rebuilt(d)
        /\ e.files = d.files /\ e.text = d.text /\ e.gen = d.gen
<1>1. DOMAIN d = {"files", "text", "gen", "rows"}
  BY DEF IsGraph
<1>2. /\ e.files = d.files /\ e.text = d.text /\ e.gen = d.gen /\ e.rows = Rebuilt(d)
      /\ DOMAIN e = {"files", "text", "gen", "rows"}
  BY <1>1
<1>3. Unloaded(e)
  BY <1>2 DEF Unloaded
<1>4. Rebuilt(e) = Rebuilt(d)
  BY <1>2, SameBase
<1>5. DOMAIN Rebuilt(d) = Tables
  BY DEF Rebuilt, Derive, Tables
<1>6. \A t \in Tables : \A r \in Rebuilt(d)[t] :
        /\ r \in Rows(t)
        /\ IF t = "imports" THEN r[1] \in d.files /\ r[2] \in d.files
           ELSE \A i \in 1..2 : \E x \in Occurrences(d, Files) : r[i] = Id(d, x)
  BY DerivedRows DEF Rebuilt
<1>7. IsGraph(e)
  BY <1>2, <1>5, <1>6 DEF IsGraph
<1>8. \A x : Id(e, x) = Id(d, x)
  BY <1>2 DEF Id
<1>9. Occurrences(e, Files) = Occurrences(d, Files)
  BY <1>2 DEF Occurrences
<1>10. Anchors(e)
  BY <1>2, <1>6, <1>8, <1>9 DEF Anchors
<1> QED
  BY <1>2, <1>3, <1>4, <1>7, <1>10
(* Replacing a file leaves a graph of the right type in which no row       *)
(* dangles: deleteFile cleared both sides before the occurrences went.     *)
LEMMA ReplacedGraph ==
  ASSUME NEW d, IsGraph(d), Unloaded(d), Anchors(d),
         NEW f \in Files, NEW s \in Texts[f], d.gen[f] < MaxLoads,
         NEW e, e = ReplaceFile(d, f, s)
  PROVE IsGraph(e) /\ Unloaded(e) /\ Anchors(e)
<1>1. /\ DOMAIN d.text = Files /\ DOMAIN d.gen = Files /\ DOMAIN d.rows = Tables
      /\ d.gen \in [Files -> 0..MaxLoads] /\ d.files \subseteq Files
      /\ \A g \in Files : d.text[g] \in Texts[g] \cup {<< >>}
      /\ \A t \in Tables : d.rows[t] \subseteq Rows(t)
  BY DEF IsGraph
<1>2. /\ \A g \in Files : g # f => d.text[g] = e.text[g] /\ d.gen[g] = e.gen[g]
      /\ e.text[f] = s /\ e.gen[f] = d.gen[f] + 1
      /\ e.files = d.files \cup {f} /\ e.rows = Without(d, f)
      /\ DOMAIN e.text = Files
  BY <1>1, Replaced
<1>3. DOMAIN e = {"files", "text", "gen", "rows"}
  BY DEF ReplaceFile
<1>4. e.gen \in [Files -> 0..MaxLoads]
  <2>1. e.gen = [d.gen EXCEPT ![f] = @ + 1]
    BY DEF ReplaceFile
  <2>2. d.gen[f] + 1 \in 0..MaxLoads
    BY <1>1, LoadsAssumption
  <2> QED
    BY <1>1, <2>1, <2>2
<1>5. /\ DOMAIN e.rows = Tables
      /\ \A t \in Tables : \A r \in e.rows[t] :
           /\ r \in d.rows[t] /\ SourceFile(t, r) # f
           /\ t # "imports" => TargetFile(t, r) # f
  BY <1>2 DEF Without
<1>6. IsGraph(e)
  BY <1>1, <1>2, <1>3, <1>4, <1>5 DEF IsGraph
<1>7. Unloaded(e)
  BY <1>2 DEF Unloaded
<1>8. Anchors(e)
  <2>1. ASSUME NEW r \in e.rows["imports"]
        PROVE r[1] \in e.files /\ r[2] \in e.files
    BY <1>2, <1>5 DEF Anchors, Tables
  <2>2. ASSUME NEW t \in Tables, t # "imports", NEW r \in e.rows[t], NEW i \in 1..2
        PROVE \E x \in Occurrences(e, Files) : r[i] = Id(e, x)
    <3>1. r[1][1] # f /\ r[2][1] # f
      BY <1>5, <2>2 DEF SourceFile, TargetFile
    <3>2. PICK x \in Occurrences(d, Files) : r[i] = Id(d, x)
      BY <1>5, <2>2 DEF Anchors
    <3>3. x[1] # f /\ x[1] \in Files /\ x[2] \in DOMAIN d.text[x[1]]
      BY <3>1, <3>2 DEF Id, Occurrences
    <3>4. x \in Occurrences(e, Files) /\ Id(e, x) = Id(d, x)
      BY <1>2, <3>3 DEF Occurrences, Id
    <3> QED
      BY <3>2, <3>4
  <2> QED
    BY <2>1, <2>2 DEF Anchors
<1> QED
  BY <1>6, <1>7, <1>8

(* The load of a file keeps the invariant: what is outside the grown       *)
(* neighbourhood is still what a rebuild derives.                          *)
LEMMA LoadKeeps ==
  ASSUME IInv, NEW f \in Files, NEW s \in Texts[f], Load(f, s)
  PROVE IInv'
<1>1. /\ pc = "open" /\ pc' = "open" /\ graph' = graph
      /\ tx' = ReplaceFile(tx, f, s) /\ tx.gen[f] = graph.gen[f] /\ tx.gen[f] < MaxLoads
      /\ owners' = owners \cup RelinkOwners(tx, f) \cup RelinkOwners(tx', f)
  BY DEF Load
<1>2. IsGraph(graph) /\ IsGraph(tx) /\ owners \subseteq Files /\ Synced /\ Grown
  BY <1>1 DEF IInv, TypeOK
<1>3. /\ DOMAIN tx.text = Files /\ DOMAIN tx.gen = Files /\ DOMAIN tx.rows = Tables
      /\ tx.gen \in [Files -> 0..MaxLoads] /\ tx.files \subseteq Files
      /\ graph.gen \in [Files -> 0..MaxLoads]
  BY <1>2 DEF IsGraph
<1>4. /\ \A g \in Files : g # f => tx'.text[g] = tx.text[g] /\ tx'.gen[g] = tx.gen[g]
      /\ tx'.gen[f] = tx.gen[f] + 1
      /\ tx'.files = tx.files \cup {f} /\ tx'.rows = Without(tx, f)
  BY <1>1, <1>3, Replaced
<1>5. IsGraph(tx') /\ Unloaded(tx') /\ Anchors(tx')
  BY <1>1, <1>2, ReplacedGraph DEF IInv
<1>6. owners' \subseteq Files
  BY <1>1, <1>2, <1>3 DEF RelinkOwners
<1>7. TypeOK'
  BY <1>1, <1>2, <1>5, <1>6 DEF TypeOK
<1>8. Synced'
  <2>1. ASSUME NEW t \in Scoped, NEW r, SourceFile(t, r) \notin owners'
        PROVE /\ r \in tx'.rows[t] <=> r \in Rebuilt(tx')[t]
              /\ r \in tx'.rows[t] <=> r \in graph.rows[t]
    <3>1. /\ r \in tx.rows[t] <=> r \in Rebuilt(tx)[t]
          /\ r \in tx.rows[t] <=> r \in graph.rows[t]
      BY <1>1, <1>2, <2>1 DEF Synced
    <3>2. /\ r \in Rebuilt(tx)[t] <=> r \in Rebuilt(tx')[t]
          /\ r \in Rebuilt(tx)[t] => TargetFile(t, r) # f
          /\ SourceFile(t, r) # f
      BY <1>1, <1>3, <2>1, Unaffected
    <3>3. r \in tx'.rows[t] <=> r \in tx.rows[t]
      BY <1>4, <3>1, <3>2 DEF Without, Scoped
    <3> QED
      BY <3>1, <3>2, <3>3
  <2> QED
    BY <1>1, <2>1 DEF Synced
<1>9. Grown'
  <2>1. graph'.files \subseteq tx'.files
    BY <1>1, <1>2, <1>4 DEF Grown
  <2>2. ASSUME NEW g \in Files
        PROVE \/ tx'.gen[g] > graph'.gen[g] /\ g \in tx'.files
              \/ tx'.gen[g] = graph'.gen[g] /\ tx'.text[g] = graph'.text[g]
    <3>1. CASE g = f
      BY <1>1, <1>3, <1>4, <3>1, LoadsAssumption
    <3>2. CASE g # f
      BY <1>1, <1>2, <1>4, <3>2 DEF Grown
    <3> QED
      BY <3>1, <3>2
  <2> QED
    BY <2>1, <2>2 DEF Grown
<1>10. Unloaded(graph)' /\ EqualsRebuild' /\ Anchors(graph)'
  BY <1>1 DEF IInv, Unloaded, EqualsRebuild, Anchors
<1> QED
  BY <1>1, <1>5, <1>7, <1>8, <1>9, <1>10 DEF IInv
(* The re-link ends in a full rebuild: outside the owners the rows are     *)
(* there already, inside they are derived, and implements is derived whole.*)
LEMMA RelinkKeeps ==
  ASSUME IInv, RelinkBatch
  PROVE IInv'
<1> DEFINE R == [t \in Tables |-> Cleared(tx, owners, t) \cup Derive(tx, owners)[t]]
<1>1. /\ pc = "open" /\ pc' = "linked" /\ graph' = graph /\ owners' = owners
      /\ tx' = [tx EXCEPT !.rows = R]
  BY DEF RelinkBatch
<1>2. IsGraph(tx) /\ Unloaded(tx) /\ owners \subseteq Files /\ Synced /\ Grown
  BY <1>1 DEF IInv, TypeOK
<1>3. R = Rebuilt(tx)
  <2>1. ASSUME NEW t \in Scoped, NEW r
        PROVE r \in Cleared(tx, owners, t) \cup Derive(tx, owners)[t] <=> r \in Rebuilt(tx)[t]
    <3>1. r \in Derive(tx, owners)[t] <=> r \in Rebuilt(tx)[t] /\ SourceFile(t, r) \in owners
      BY <1>2, ScopedRows
    <3>2. r \in Cleared(tx, owners, t) <=> r \in Rebuilt(tx)[t] /\ SourceFile(t, r) \notin owners
      BY <1>2 DEF Cleared, Synced, Scoped
    <3> QED
      BY <3>1, <3>2
  <2>2. ASSUME NEW t \in Scoped
        PROVE R[t] = Rebuilt(tx)[t]
    BY <2>1 DEF Scoped
  <2>3. R["implements"] = Rebuilt(tx)["implements"]
    BY DEF Cleared, Rebuilt, Derive, Tables
  <2>4. \A t \in Tables : R[t] = Rebuilt(tx)[t]
    BY <2>2, <2>3 DEF Scoped
  <2> HIDE DEF R
  <2>5. R = [t \in Tables |-> R[t]]
    BY DEF R
  <2> QED
    BY <2>4, <2>5 DEF Rebuilt, Derive, Tables
<1>4. tx' = [tx EXCEPT !.rows = Rebuilt(tx)]
  BY <1>1, <1>3
<1>5. /\ IsGraph(tx') /\ Unloaded(tx') /\ Anchors(tx')
      /\ tx'.rows = Rebuilt(tx') /\ Rebuilt(tx') = Rebuilt(tx)
      /\ tx'.files = tx.files /\ tx'.text = tx.text /\ tx'.gen = tx.gen
  BY <1>2, <1>4, RebuiltGraph
<1>6. Synced'
  <2>1. ASSUME NEW t \in Scoped, NEW r, SourceFile(t, r) \notin owners
        PROVE /\ r \in tx'.rows[t] <=> r \in Rebuilt(tx')[t]
              /\ r \in tx'.rows[t] <=> r \in graph.rows[t]
    BY <1>2, <1>5, <2>1 DEF Synced
  <2> QED
    BY <1>1, <2>1 DEF Synced
<1>7. Grown'
  BY <1>1, <1>2, <1>5 DEF Grown
<1>8. TypeOK'
  BY <1>1, <1>2, <1>5 DEF TypeOK, IInv
<1>9. Unloaded(graph)' /\ EqualsRebuild' /\ Anchors(graph)'
  BY <1>1 DEF IInv, Unloaded, EqualsRebuild, Anchors
<1> QED
  BY <1>1, <1>5, <1>6, <1>7, <1>8, <1>9 DEF IInv

(* Every other step of the pass copies a linked graph or rebuilds one.     *)
LEMMA StepKeeps ==
  ASSUME IInv, [Next]_vars
  PROVE IInv'
<1>1. CASE NewBatch
  <2>1. pc = "idle" /\ pc' = "open" /\ tx' = graph /\ owners' = {} /\ graph' = graph
    BY <1>1 DEF NewBatch
  <2>2. Synced' /\ Grown'
    BY <2>1 DEF IInv, EqualsRebuild, Synced, Grown
  <2>3. TypeOK'
    BY <2>1 DEF IInv, TypeOK
  <2>4. Unloaded(graph)' /\ Unloaded(tx)' /\ EqualsRebuild' /\ Anchors(graph)' /\ Anchors(tx)'
    BY <2>1 DEF IInv, Unloaded, EqualsRebuild, Anchors
  <2> QED
    BY <2>1, <2>2, <2>3, <2>4 DEF IInv
<1>2. CASE RelinkBatch
  BY <1>2, RelinkKeeps
<1>3. CASE Commit
  <2>1. pc = "linked" /\ pc' = "idle" /\ graph' = tx /\ tx' = tx /\ owners' = owners
    BY <1>3 DEF Commit
  <2>2. TypeOK'
    BY <2>1 DEF IInv, TypeOK
  <2>3. Unloaded(graph)' /\ Unloaded(tx)' /\ EqualsRebuild' /\ Anchors(graph)' /\ Anchors(tx)'
    BY <2>1 DEF IInv, Unloaded, EqualsRebuild, Anchors
  <2> QED
    BY <2>1, <2>2, <2>3 DEF IInv
<1>4. CASE Rollback
  <2>1. pc' = "idle" /\ graph' = graph /\ tx' = graph /\ owners' = owners
    BY <1>4 DEF Rollback
  <2>2. TypeOK'
    BY <2>1 DEF IInv, TypeOK
  <2>3. Unloaded(graph)' /\ Unloaded(tx)' /\ EqualsRebuild' /\ Anchors(graph)' /\ Anchors(tx)'
    BY <2>1 DEF IInv, Unloaded, EqualsRebuild, Anchors
  <2> QED
    BY <2>1, <2>2, <2>3 DEF IInv
<1>5. CASE RebuildAll
  <2>1. /\ pc = "idle" /\ pc' = "idle" /\ graph' = [graph EXCEPT !.rows = Rebuilt(graph)]
        /\ tx' = graph' /\ owners' = owners
    BY <1>5 DEF RebuildAll
  <2>2. /\ IsGraph(graph') /\ Unloaded(graph') /\ Anchors(graph')
        /\ graph'.rows = Rebuilt(graph')
    BY <2>1, RebuiltGraph DEF IInv, TypeOK
  <2>3. TypeOK'
    BY <2>1, <2>2 DEF IInv, TypeOK
  <2> QED
    BY <2>1, <2>2, <2>3 DEF IInv, EqualsRebuild
<1>6. CASE \E f \in Files : \E s \in Texts[f] : Load(f, s)
  BY <1>6, LoadKeeps
<1>7. CASE UNCHANGED vars
  <2>1. graph' = graph /\ tx' = tx /\ owners' = owners /\ pc' = pc
    BY <1>7 DEF vars
  <2> QED
    BY <2>1 DEF IInv, TypeOK, Unloaded, EqualsRebuild, Anchors, Synced, Grown
<1> QED
  BY <1>1, <1>2, <1>3, <1>4, <1>5, <1>6, <1>7 DEF Next

(* The empty graph derives nothing.                                        *)
LEMMA InitHolds ==
  ASSUME Init
  PROVE IInv
<1>1. graph = Empty /\ tx = Empty /\ owners = {} /\ pc = "idle"
  BY DEF Init
<1>2. /\ Empty.text = [f \in Files |-> << >>] /\ Empty.files = {}
      /\ Empty.rows = [t \in Tables |-> {}] /\ Empty.gen = [f \in Files |-> 0]
      /\ DOMAIN Empty = {"files", "text", "gen", "rows"}
  BY DEF Empty
<1>3. IsGraph(Empty) /\ Unloaded(Empty) /\ Anchors(Empty)
  BY <1>2, LoadsAssumption DEF IsGraph, Unloaded, Anchors
<1>4. Occurrences(Empty, Files) = {}
  BY <1>2 DEF Occurrences
<1>5. \A t \in Tables : \A r : r \notin Rebuilt(Empty)[t]
  BY <1>3, <1>4, DerivedAnchored, GraphFits DEF Rebuilt, Anchored
<1>6. Empty.rows = Rebuilt(Empty)
  <2>1. \A t \in Tables : Rebuilt(Empty)[t] = {}
    BY <1>5
  <2> QED
    BY <1>2, <2>1 DEF Rebuilt, Derive, Tables
<1> QED
  BY <1>1, <1>3, <1>6 DEF IInv, TypeOK, EqualsRebuild
-----------------------------------------------------------------------------
(* What follows for every behaviour.                                       *)

(* The strengthening everything below rests on holds throughout.           *)
THEOREM RelinkInvariant == Spec => []IInv
<1>1. Init => IInv
  BY InitHolds
<1>2. IInv /\ [Next]_vars => IInv'
  BY StepKeeps
<1> QED
  BY <1>1, <1>2, PTL DEF Spec

(* Graphs hold files, their occurrences and rows between them, however     *)
(* many batches are loaded, rolled back or rebuilt.                        *)
THEOREM RelinkTypeCorrect == Spec => []TypeOK
<1>1. IInv => TypeOK
  BY DEF IInv
<1> QED
  BY <1>1, RelinkInvariant, PTL

(* link.Batch's claim: an incremental re-link leaves exactly the edges a   *)
(* full RebuildAll would, whatever the batch loaded and in which order.    *)
THEOREM IncrementalEqualsFull == Spec => []EqualsRebuild
<1>1. IInv => EqualsRebuild
  BY DEF IInv
<1> QED
  BY <1>1, RelinkInvariant, PTL

(* No derived row ever points at an occurrence or a file that is gone, not *)
(* even inside the transaction: the endpoint foreign keys cannot fire.     *)
THEOREM NoRowDangles == Spec => []NoDanglingRow
<1>1. IInv => NoDanglingRow
  BY DEF IInv, NoDanglingRow, Anchors
<1> QED
  BY <1>1, RelinkInvariant, PTL

(* A batch moves no edge of a file outside the neighbourhood it touched.   *)
THEOREM OwnersOnly == Spec => OnlyOwnersChange
<1>1. ASSUME IInv, [Next]_vars, pc = "linked", graph' # graph,
             NEW t \in Tables \ {"implements"},
             NEW r \in (graph.rows[t] \ graph'.rows[t]) \cup (graph'.rows[t] \ graph.rows[t])
      PROVE SourceFile(t, r) \in owners
  <2>1. graph' = tx
    BY <1>1 DEF Next, vars, NewBatch, RelinkBatch, Commit, Rollback, RebuildAll, Load
  <2>2. Synced
    BY <1>1 DEF IInv
  <2> QED
    BY <1>1, <2>1, <2>2 DEF Synced, Scoped
<1>2. IInv /\ [Next]_vars =>
        [pc = "linked" /\ graph' # graph =>
           \A t \in Tables \ {"implements"} :
             \A r \in (graph.rows[t] \ graph'.rows[t]) \cup (graph'.rows[t] \ graph.rows[t]) :
               SourceFile(t, r) \in owners]_vars
  BY <1>1
<1> QED
  BY <1>2, RelinkInvariant, PTL DEF Spec, OnlyOwnersChange
(* The derivation a reader is promised and the one the pass computes are   *)
(* one and the same.                                                       *)
LEMMA SameDerivation ==
  /\ \A d : Readers!Rebuilt(d) = Rebuilt(d)
  /\ Readers!Text = Text
<1>1. \A d : Readers!Rebuilt(d) = Rebuilt(d)
  BY DEF Rebuilt, Derive, Linked, Refs, Defs, Occurrences, Sym, Id, ResolvesTo, Calls,
         TypeDefines, Imports, Implements, Satisfies, Overrides, TypeDefs, Members, MethodSet,
         Enclosing, Declares, Callable, Typed, Places,
         Readers!Rebuilt, Readers!Derive, Readers!Linked, Readers!Refs, Readers!Defs,
         Readers!Occurrences, Readers!Sym, Readers!Id, Readers!ResolvesTo, Readers!Calls,
         Readers!TypeDefines, Readers!Imports, Readers!Implements, Readers!Satisfies,
         Readers!Overrides, Readers!TypeDefs, Readers!Members, Readers!MethodSet,
         Readers!Enclosing, Readers!Declares, Readers!Callable, Readers!Typed, Readers!Places
<1>2. Readers!Text = Text
  BY DEF Text, Readers!Text
<1> QED
  BY <1>1, <1>2

(* The re-link implements the graph that is always linked: what a reader   *)
(* sees of batches, rollbacks and rebuilds are whole, linked publications. *)
THEOREM RelinkImplementsLinkedGraph == Spec => ReadersSeeLinkedGraphs
<1>1. Init => Readers!Init
  BY DEF Init, Readers!Init
<1>2. ASSUME IInv, Commit
      PROVE Readers!Publish
  <2>1. pc = "linked" /\ graph' = tx
    BY <1>2 DEF Commit
  <2>2. Grown /\ IsGraph(tx) /\ IsGraph(graph) /\ tx.rows = Rebuilt(tx)
    BY <1>2, <2>1 DEF IInv, TypeOK
  <2>3. tx.files \subseteq Files /\ graph.files \subseteq tx.files
    BY <2>2 DEF IsGraph, Grown
  <2>4. \A f \in Files : tx.text[f] \in Text
    BY <2>2, GraphTexts
  <2> QED
    BY <2>1, <2>2, <2>3, <2>4, SameDerivation DEF Readers!Publish, Grown
<1>3. ASSUME IInv, RebuildAll
      PROVE Readers!Publish
  <2>1. graph' = [graph EXCEPT !.rows = Rebuilt(graph)] /\ IsGraph(graph) /\ Unloaded(graph)
    BY <1>3 DEF RebuildAll, IInv, TypeOK
  <2>2. /\ graph'.rows = Rebuilt(graph')
        /\ graph'.files = graph.files /\ graph'.text = graph.text /\ graph'.gen = graph.gen
    BY <2>1, RebuiltGraph
  <2>3. graph.files \subseteq Files /\ \A f \in Files : graph.text[f] \in Text
    BY <2>1, GraphTexts DEF IsGraph
  <2> QED
    BY <2>2, <2>3, SameDerivation DEF Readers!Publish
<1>4. IInv /\ [Next]_vars => [Readers!Publish]_graph
  BY <1>2, <1>3 DEF Next, vars, NewBatch, RelinkBatch, Rollback, Load
<1> QED
  BY <1>1, <1>4, RelinkInvariant, PTL DEF Spec, ReadersSeeLinkedGraphs, Readers!Spec
=============================================================================
