------------------------------ MODULE Extract ------------------------------
(***************************************************************************)
(* The files of one repository, each parsed by the stanza its extension is *)
(* registered for (extract/extract.go), pass after pass.                   *)
(***************************************************************************)
EXTENDS Tree

CONSTANT Programs   \* a program is a sequence of files: ext, path, coord, tree

\* A tree's nodes: one ends before the other starts, or one is in the other.
Around(x, y) == x[1] <= y[1] /\ y[2] <= x[2]
Apart(x, y)  == x[2] <= y[1]
WellNested(t) ==
  /\ \A n \in DOMAIN t : {"from", "to"} \subseteq DOMAIN t[n] /\ t[n].from \in Nat /\ t[n].to \in Nat
  /\ \A m, n \in DOMAIN t :
       LET x == Span(t, m)
           y == Span(t, n)
       IN Apart(x, y) \/ Apart(y, x) \/ Around(x, y) \/ Around(y, x)

ASSUME ProgramsAssumption ==
  \A p \in Programs : \A f \in DOMAIN p : p[f].tree \in Seq(Range(p[f].tree)) /\ WellNested(p[f].tree)

Go    == INSTANCE StanzaGo
Ts    == INSTANCE StanzaTs
Py    == INSTANCE StanzaPy
Java  == INSTANCE StanzaJava
Rb    == INSTANCE StanzaRb
Rs    == INSTANCE StanzaRs
Cs    == INSTANCE StanzaCs

VARIABLES
  program,   \* the files
  stage,     \* the pass a file waits for
  builder    \* the builder of its parse

vars == <<program, stage, builder>>

\* The extensions of the stanzas; a file of another is not parsed.
byExt == { "go", "ts", "py", "java", "rb", "rs", "cs" }

ParserFor(file) == IF file.ext \in byExt THEN file.ext ELSE ""

Fresh(file) ==
  CASE ParserFor(file) = "go" -> Go!Parse(file.coord, file)
    [] ParserFor(file) = "ts" -> Ts!Parse(file.coord, file)
    [] ParserFor(file) = "py" -> Py!Parse(file.coord, file)
    [] ParserFor(file) = "java" -> Java!Parse(file.coord, file)
    [] ParserFor(file) = "rb" -> Rb!Parse(file.coord, file)
    [] ParserFor(file) = "rs" -> Rs!Parse(file.coord, file)
    [] ParserFor(file) = "cs" -> Cs!Parse(file.coord, file)

Init ==
  /\ program \in Programs
  /\ stage = [f \in DOMAIN program |-> "unread"]
  /\ builder = [f \in DOMAIN program |-> <<>>]

\* A builder is its parse's own, so the files go one after another.
Step(f, from, to, b) ==
  /\ stage[f] = from
  /\ \A g \in DOMAIN program : g < f => stage[g] \in {"done", "failed"}
  /\ stage' = [stage EXCEPT ![f] = to]
  /\ builder' = [builder EXCEPT ![f] = b]
  /\ UNCHANGED program

\* A file no stanza parses is skipped; one whose text the grammar cannot read
\* has no facts.
Parse(f) ==
  IF ParserFor(program[f]) = "" \/ program[f].tree = <<>>
  THEN Step(f, "unread", "failed", <<>>) ELSE Step(f, "unread", "scopes", Fresh(program[f]))

\* The pass a stanza runs next: in Ruby a definition needs no import.
After(lang, pass) ==
  LET passes == IF lang = "rb" THEN <<"scopes", "definitions", "imports", "references", "done">>
                               ELSE <<"scopes", "imports", "definitions", "references", "done">>
  IN passes[(CHOOSE i \in DOMAIN passes : passes[i] = pass) + 1]

Pass(f, pass, b) == Step(f, pass, After(ParserFor(program[f]), pass), b)

collectScopes(f) ==
  LET b == builder[f] IN
  \/ ParserFor(program[f]) = "go" /\ Pass(f, "scopes", Go!collectScopes(b))
  \/ ParserFor(program[f]) = "ts" /\ Pass(f, "scopes", Ts!collectScopes(b))
  \/ ParserFor(program[f]) = "py" /\ Pass(f, "scopes", Py!collectScopes(b))
  \/ ParserFor(program[f]) = "java" /\ Pass(f, "scopes", Java!collectScopes(b))
  \/ ParserFor(program[f]) = "rb" /\ Pass(f, "scopes", Rb!collectScopes(b))
  \/ ParserFor(program[f]) = "rs" /\ Pass(f, "scopes", Rs!collectScopes(b))
  \/ ParserFor(program[f]) = "cs" /\ Pass(f, "scopes", Cs!collectScopes(b))

collectImports(f) ==
  LET b == builder[f] IN
  \/ ParserFor(program[f]) = "go" /\ Pass(f, "imports", Go!collectImports(b))
  \/ ParserFor(program[f]) = "ts" /\ Pass(f, "imports", Ts!collectImports(b))
  \/ ParserFor(program[f]) = "py" /\ Pass(f, "imports", Py!collectImports(b))
  \/ ParserFor(program[f]) = "java" /\ Pass(f, "imports", Java!collectImports(b))
  \/ ParserFor(program[f]) = "rb" /\ Pass(f, "imports", Rb!collectImports(b))
  \/ ParserFor(program[f]) = "rs" /\ Pass(f, "imports", Rs!collectImports(b))
  \/ ParserFor(program[f]) = "cs" /\ Pass(f, "imports", Cs!collectImports(b))

collectDefinitions(f) ==
  LET b == builder[f] IN
  \/ ParserFor(program[f]) = "go" /\ Pass(f, "definitions", Go!collectDefinitions(b))
  \/ ParserFor(program[f]) = "ts" /\ Pass(f, "definitions", Ts!collectDefinitions(b))
  \/ ParserFor(program[f]) = "py" /\ Pass(f, "definitions", Py!collectDefinitions(b))
  \/ ParserFor(program[f]) = "java" /\ Pass(f, "definitions", Java!collectDefinitions(b))
  \/ ParserFor(program[f]) = "rb" /\ Pass(f, "definitions", Rb!collectDefinitions(b))
  \/ ParserFor(program[f]) = "rs" /\ Pass(f, "definitions", Rs!collectDefinitions(b))
  \/ ParserFor(program[f]) = "cs" /\ Pass(f, "definitions", Cs!collectDefinitions(b))

collectReferences(f) ==
  LET b == builder[f] IN
  \/ ParserFor(program[f]) = "go" /\ Pass(f, "references", Go!collectReferences(b))
  \/ ParserFor(program[f]) = "ts" /\ Pass(f, "references", Ts!collectReferences(b))
  \/ ParserFor(program[f]) = "py" /\ Pass(f, "references", Py!collectReferences(b))
  \/ ParserFor(program[f]) = "java" /\ Pass(f, "references", Java!collectReferences(b))
  \/ ParserFor(program[f]) = "rb" /\ Pass(f, "references", Rb!collectReferences(b))
  \/ ParserFor(program[f]) = "rs" /\ Pass(f, "references", Rs!collectReferences(b))
  \/ ParserFor(program[f]) = "cs" /\ Pass(f, "references", Cs!collectReferences(b))

Next == \E f \in DOMAIN program :
  Parse(f) \/ collectScopes(f) \/ collectImports(f) \/ collectDefinitions(f) \/ collectReferences(f)

Spec == Init /\ [][Next]_vars
-----------------------------------------------------------------------------
(***************************************************************************)
(* What the facts of a file must be for the store and the link pass. In    *)
(* the instances an identifier that names a symbol is tagged with what it  *)
(* names in the language; `known` says the syntax of the file alone tells. *)
(***************************************************************************)
F == INSTANCE Facts WITH MaxOffset <- 1000

Done == { f \in DOMAIN program : stage[f] = "done" }
AllDone == \A f \in DOMAIN program : stage[f] \in {"done", "failed"}
Occ(f)  == Range(builder[f].occs)

\* The facts of a file as the store is given them; edges are looked at apart.
FactsOf(f) ==
  LET b == builder[f] IN
  [path |-> program[f].path, lang |-> program[f].ext, coord |-> b.coord, root |-> "",
   scopes |-> b.scopes, occurrences |-> b.occs, edges |-> <<>>, parseError |-> ""]
Ref(kind, id) == [vertex |-> kind, id |-> id]

\* What an occurrence means; a file's own, without width, is its root's.
Named(f, o) ==
  LET t == program[f].tree
  IN  { n \in DOMAIN t : t[n].tag # "" /\ (Span(t, n) = <<o.from, o.to>> \/ (o.to = 0 /\ n = 1)) }
Meaning(f, o) == LET at == Named(f, o) IN IF at = {} THEN "" ELSE program[f].tree[Least(at)].tag
Known(f, o)   == \E n \in Named(f, o) : program[f].tree[n].known

\* The definitions of a descriptor, in every file: what the link pass joins.
DefsLike(desc) ==
  UNION { { <<f, d>> : d \in { d \in Occ(f) : d.role = "definition" /\ d.desc = desc } } : f \in Done }
SameMeaning(x, f, r) == Meaning(x[1], x[2]) = Meaning(f, r)

\* Java's and C#'s overloads have one descriptor, as java.go states: no call
\* elsewhere could tell which it means. A reference to one joins them all.
Overloads(x, f, r) ==
  /\ program[f].ext \in {"java", "cs"} /\ x[2].kind = "method"
  /\ \E y \in DefsLike(r.desc) : y[2].kind = "method" /\ SameMeaning(y, f, r)

Stages == {"unread", "failed", "scopes", "imports", "definitions", "references", "done"}

\* What a stanza emits the store can flatten and the codec can write: ids are
\* in order, scopes and edges name what the file has (codec.go, store.go).
TypeOK ==
  /\ stage \in [DOMAIN program -> Stages]
  /\ \A f \in Done :
       /\ F!Flattens(FactsOf(f)) /\ F!Encodable(FactsOf(f))
       /\ \A e \in builder[f].edges :
            LET edge == [kind |-> e[1], source |-> Ref(e[2], e[3]), target |-> Ref(e[4], e[5])]
            IN F!endpoints(FactsOf(f), edge) /\ F!TableOf(edge) # "none"

\* Scopes nest: a scope's parent is the smallest scope around it, so a name
\* is looked up in the scopes that really enclose it (collectScopes). A scope
\* no text is in, where another ends, is not in that one.
ScopesNest ==
  \A f \in Done : \A i, j \in DOMAIN builder[f].scopes :
    LET s == builder[f].scopes[i]
        o == builder[f].scopes[j]
        p == builder[f].scopes[s.parent]
        around(x, y) == x.from <= y.from /\ y.to <= x.to
    IN i # j /\ around(o, s) /\ s.from < s.to => s.parent # 0 /\ around(p, s) /\ around(o, p)

\* An identifier is one occurrence: what a definition owns is not a reference
\* as well, and of several captures one is chosen (claimed, refPriority). Ruby's
\* accessor declares two methods by one symbol.
OneOccurrencePerName ==
  \A f \in Done : \A o, p \in Occ(f) :
    <<o.from, o.to>> = <<p.from, p.to>> /\ o # p =>
      /\ program[f].ext = "rb" /\ o.role = "definition" /\ p.role = "definition"
      /\ o.desc # p.desc

\* A descriptor never names another symbol: every definition a reference
\* joins, in its file or another, is of what the reference means, overloads
\* aside. Where the code breaks this, in programs that reuse a name in one
\* function, for an import or for another kind of thing, runs of their own show.
NoFalseJoin ==
  AllDone => \A f \in Done : \A r \in Occ(f) :
    r.role = "reference" => \A x \in DefsLike(r.desc) : SameMeaning(x, f, r) \/ Overloads(x, f, r)

\* What the file alone tells, the link pass resolves: the reference's
\* descriptor is that of a definition of what it means, in whichever file.
Joins ==
  AllDone => \A f \in Done : \A r \in Occ(f) :
    r.role = "reference" /\ Known(f, r) => \E x \in DefsLike(r.desc) : SameMeaning(x, f, r)

\* A reference to a symbol its file defines has one local edge and needs no
\* link pass, and a local edge leads to a definition of that very symbol, an
\* overload aside: of two declarations of a name, to the one in scope. An
\* import's module is the link pass's, the file's own too.
ResolvedInFile ==
  \A f \in Done : \A r \in { r \in Occ(f) : r.role = "reference" } :
    LET to == { d \in Occ(f) : <<"references_local", "occurrence", r.id, "occurrence", d.id>>
                                 \in builder[f].edges }
    IN /\ Known(f, r) /\ r.kind # "package"
            /\ (\E d \in Occ(f) : d.role = "definition" /\ SameMeaning(<<f, d>>, f, r))
         => Cardinality(to) = 1
       /\ \A d \in to : SameMeaning(<<f, d>>, f, r) \/ Overloads(<<f, d>>, f, r)
=============================================================================
