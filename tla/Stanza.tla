------------------------------- MODULE Stanza -------------------------------
(***************************************************************************)
(* The skeleton the stanzas of extract/ share: one file's builder, the     *)
(* scopes, the occurrences, the names visible at an offset, the order in   *)
(* which captures are looked at. A language module says what its query     *)
(* captures and what a descriptor is made of.                              *)
(*                                                                         *)
(* A descriptor is a coordinate -- its name, the scheme and manager being  *)
(* the stanza's -- and a suffix, the sequence of its <<name, mark>>.       *)
(***************************************************************************)
EXTENDS Tree

Unknown == "."
NoType  == <<>>

NS(segments)  == [i \in DOMAIN segments |-> <<segments[i], "/">>]
Desc(c, suffix) == [coord |-> c, suffix |-> suffix]
NoTarget      == Desc(<<>>, <<>>)
Builtin       == <<"builtin">>
Sub(s, n)     == SubSeq(s, n, Len(s))

\* A symbol of a descriptor; of a coordinate's root; of the file's namespace;
\* a member of SCIP's "." for a type the file does not state.
Hang(d, name, mark)      == Desc(d.coord, Append(d.suffix, <<name, mark>>))
Top(c, name, mark)       == Desc(c, << <<name, mark>> >>)
Own(b, name, mark)       == Desc(b.coord, Append(b.ns, <<name, mark>>))
OfUnknown(b, name, mark) == Hang(Own(b, Unknown, "#"), name, mark)

\* A target when it is known, a member of it, the one found nearest; or another.
OrElse(target, otherwise)             == IF target # NoTarget THEN target ELSE otherwise
HangOr(target, name, mark, otherwise) == IF target # NoTarget THEN Hang(target, name, mark) ELSE otherwise
NearestOf(found, otherwise) ==
  IF found = {} THEN otherwise ELSE (CHOOSE x \in found : \A y \in found : y.at <= x.at).desc

\* A builder: the file's coordinate, namespace and tree, what its passes found.
NewBuilder(coord, ns, dir, tree) ==
  [coord |-> coord, ns |-> ns, dir |-> dir, tree |-> tree,
   scopes |-> <<>>, occs |-> <<>>, edges |-> {}, claimed |-> {}, defs |-> <<>>,
   imports |-> <<>>, bindings |-> <<>>]

Bind(f, key, value) == [k \in DOMAIN f \cup {key} |-> IF k = key THEN value ELSE f[k]]

-----------------------------------------------------------------------------
(* Scopes: byte containment, outermost first; of two captures of one range  *)
(* the kind that sorts first stays.                                         *)
Kinds == <<"block", "constant", "field", "file", "function", "interface", "method",
           "module", "package", "parameter", "type", "variable">>
Rank(kind) == CHOOSE i \in DOMAIN Kinds : Kinds[i] = kind

(* Mutant: the scope opened last is the parent, closed or not. *)
Scoped_Unclosed(b, kindOf) ==
  LET t == b.tree
      captured == { n \in DOMAIN t : t[n].type \in DOMAIN kindOf }
      spans == Sorted({ Span(t, n) : n \in captured },
                            LAMBDA x, y : x[1] < y[1] \/ (x[1] = y[1] /\ x[2] > y[2]))
      kind(i) == Kinds[Least({ Rank(kindOf[t[n].type]) :
                                 n \in { m \in captured : Span(t, m) = spans[i] } })]
  IN [b EXCEPT
       !.scopes = [i \in DOMAIN spans |->
                     [id |-> i, kind |-> kind(i), from |-> spans[i][1], to |-> spans[i][2],
                      parent |-> i - 1]],
       !.edges = @ \cup { <<"contains", "scope", i - 1, "scope", i>> : i \in 2 .. Len(spans) }]

Scoped(b, kindOf) ==
  LET t == b.tree
      captured == { n \in DOMAIN t : t[n].type \in DOMAIN kindOf }
      spans == Sorted({ Span(t, n) : n \in captured },
                            LAMBDA x, y : x[1] < y[1] \/ (x[1] = y[1] /\ x[2] > y[2]))
      kind(i) == Kinds[Least({ Rank(kindOf[t[n].type]) :
                                 n \in { m \in captured : Span(t, m) = spans[i] } })]
      parent(i) == Greatest({ j \in 1 .. i - 1 : spans[j][2] > spans[i][1] })
  IN [b EXCEPT
       !.scopes = [i \in DOMAIN spans |->
                     [id |-> i, kind |-> kind(i), from |-> spans[i][1], to |-> spans[i][2],
                      parent |-> parent(i)]],
       !.edges = @ \cup { <<"contains", "scope", parent(i), "scope", i>> :
                            i \in { j \in DOMAIN spans : parent(j) # 0 } }]

\* Of the scopes S, the innermost: the last to start, of those the first to end.
Innermost(b, S) ==
  IF S = {} THEN 0
  ELSE CHOOSE i \in S : \A j \in S :
         \/ b.scopes[j].from < b.scopes[i].from
         \/ b.scopes[j].from = b.scopes[i].from /\ b.scopes[j].to >= b.scopes[i].to

fileScope(b) == IF b.scopes = <<>> THEN 0 ELSE 1

Enclosing(b, span) ==
  Innermost(b, { i \in DOMAIN b.scopes : b.scopes[i].from <= span[1] /\ span[2] <= b.scopes[i].to })

-----------------------------------------------------------------------------
(* Occurrences, numbered from 1, each in the scope it is given.             *)
(* Mutant: ids are numbered from the occurrences there already are. *)
AddedIn_FromZero(b, desc, role, kind, span, scope) ==
  LET id == Len(b.occs) IN
  [b EXCEPT !.occs = Append(@, [id |-> id, desc |-> desc, role |-> role, kind |-> kind,
                                from |-> span[1], to |-> span[2], scope |-> scope]),
            !.edges = @ \cup (IF scope = 0 THEN {}
                              ELSE { <<"contains", "scope", scope, "occurrence", id>> })]

AddedIn(b, desc, role, kind, span, scope) ==
  LET id == Len(b.occs) + 1 IN
  [b EXCEPT !.occs = Append(@, [id |-> id, desc |-> desc, role |-> role, kind |-> kind,
                                from |-> span[1], to |-> span[2], scope |-> scope]),
            !.edges = @ \cup (IF scope = 0 THEN {}
                              ELSE { <<"contains", "scope", scope, "occurrence", id>> })]
Added(b, desc, role, kind, span) == AddedIn(b, desc, role, kind, span, Enclosing(b, span))

\* A definition: the occurrence, the file's edge, and what lookups need of it.
Defined(b, desc, kind, name, span, scope, type) ==
  LET a == AddedIn(b, desc, "definition", kind, span, scope)
      id == Len(a.occs)
  IN [a EXCEPT !.edges = @ \cup { <<"defines", "file", 0, "occurrence", id>> },
               !.defs = Append(@, [occ |-> id, name |-> name, scope |-> scope,
                                   from |-> span[1], type |-> type])]

\* The package or module a file is: a definition no lookup by name finds.
PackageDefined(b, span, scope) ==
  LET a == AddedIn(b, Desc(b.coord, b.ns), "definition", "package", span, scope)
  IN  [a EXCEPT !.edges = @ \cup { <<"defines", "file", 0, "occurrence", Len(a.occs)>> }]

\* descIndex: the first definition of a descriptor.
Indexed(b, desc) ==
  Least({ i \in DOMAIN b.occs : b.occs[i].role = "definition" /\ b.occs[i].desc = desc })

\* A reference, and its edge when the file defines the very descriptor.
Referred(b, desc, kind, span, scope) ==
  LET a == AddedIn(b, desc, "reference", kind, span, scope)
      def == Indexed(b, desc)
  IN IF def = 0 THEN a
     ELSE [a EXCEPT !.edges = @ \cup
             { <<"references_local", "occurrence", Len(a.occs), "occurrence", def>> }]

-----------------------------------------------------------------------------
(* The definition of a name visible at an offset: of those in a scope around *)
(* it, declared no later unless its kind of scope hoists, the innermost; of  *)
(* two in one scope the earlier. 0 when there is none.                       *)
Declared(b, name, pos, hoisting) ==
  { i \in DOMAIN b.defs :
      LET d == b.defs[i] IN
      /\ d.name = name /\ d.scope # 0
      /\ b.scopes[d.scope].from <= pos /\ pos < b.scopes[d.scope].to
      /\ d.from <= pos \/ b.scopes[d.scope].kind \in hoisting }

(* Mutant: the first visible declaration is taken, however far out. *)
Visible_Outer(b, name, pos, hoisting) == Least(Declared(b, name, pos, hoisting))

Visible(b, name, pos, hoisting) ==
  LET S == Declared(b, name, pos, hoisting)
      at == Innermost(b, { b.defs[i].scope : i \in S })
  IN Least({ i \in S : b.defs[i].scope = at })

DescriptorOf(b, def) == b.occs[b.defs[def].occ].desc

-----------------------------------------------------------------------------
(* Captures in the order of their names' offsets; a name belongs to the     *)
(* first definition that captures it, and to the most specific reference    *)
(* otherwise.                                                               *)
Anonymous(b, n) == Text(b.tree, n) \in {"", "_"}

Definitions(t, cands) ==
  Sorted(cands, LAMBDA x, y :
    \/ t[x.name].from < t[y.name].from
    \/ t[x.name].from = t[y.name].from /\ Rank(x.as) < Rank(y.as)
    \/ t[x.name].from = t[y.name].from /\ x.as = y.as /\ x.node < y.node)

Claim(b, n) == [b EXCEPT !.claimed = @ \cup { Span(b.tree, n) }]
\* claimSubtree: every identifier of a subtree is owned.
ClaimSubtree(b, n, types) ==
  [b EXCEPT !.claimed = @ \cup { Span(b.tree, c) :
                                  c \in { c \in Within(b.tree, n) \cup {n} : b.tree[c].type \in types } }]

Define(b, cands, step(_, _)) ==
  FoldLeft(LAMBDA a, c : IF Span(a.tree, c.name) \in a.claimed THEN a
                         ELSE IF Anonymous(a, c.name) THEN Claim(a, c.name)
                         ELSE step(Claim(a, c.name), c),
           b, Definitions(b.tree, cands))

\* The captures that are references: of the free ones of a name the better
\* than which there is none, by their offsets.
ReferencesAmong(t, free, better) ==
  LET best == { c \in free : ~ \E d \in free : Span(t, d.name) = Span(t, c.name) /\ <<d, c>> \in better }
      first(s) == CHOOSE c \in best : /\ Span(t, c.name) = s
                                      /\ \A d \in best : Span(t, d.name) = s => c.node <= d.node
      order == Sorted({ Span(t, c.name) : c \in best },
                      LAMBDA x, y : x[1] < y[1] \/ (x[1] = y[1] /\ x[2] < y[2]))
  IN [i \in DOMAIN order |-> first(order[i])]

(* Mutant: a definition's own name is a reference as well. *)
References_Claimed(b, cands, better) == ReferencesAmong(b.tree, cands, better)

References(b, cands, better) ==
  ReferencesAmong(b.tree, { c \in cands : Span(b.tree, c.name) \notin b.claimed }, better)

Refer(b, cands, better, step(_, _)) ==
  FoldLeft(LAMBDA a, r : IF Anonymous(a, r.name) THEN a ELSE step(a, r), b, References(b, cands, better))
=============================================================================
