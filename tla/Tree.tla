-------------------------------- MODULE Tree --------------------------------
(***************************************************************************)
(* A concrete syntax tree as gotreesitter hands it to a stanza, and what a *)
(* query finds in it. The tree is the sequence of its nodes in preorder;   *)
(* a node is its place in it and 0 is no node. Nodes nest: `from` and `to` *)
(* are byte offsets. An import string carries its segments in `path`.      *)
(***************************************************************************)
EXTENDS Integers, Sequences, FiniteSets, SequencesExt

Least(S)    == IF S = {} THEN 0 ELSE CHOOSE x \in S : \A y \in S : x <= y
Greatest(S) == IF S = {} THEN 0 ELSE CHOOSE x \in S : \A y \in S : y <= x
\* A finite set as a sequence, by a strict total order of its elements.
Sorted(S, before(_, _)) ==
  LET rank == [x \in S |-> Cardinality({ y \in S : before(y, x) }) + 1]
  IN  [i \in 1 .. Cardinality(S) |-> CHOOSE x \in S : rank[x] = i]
InOrder(S) == Sorted(S, <)

Type(t, n) == IF n = 0 THEN "" ELSE t[n].type
Text(t, n) == IF n = 0 THEN "" ELSE t[n].text
Span(t, n) == <<t[n].from, t[n].to>>

Kids(t, n)       == { c \in DOMAIN t : n # 0 /\ t[c].parent = n }
NamedKids(t, n)  == InOrder({ c \in Kids(t, n) : t[c].named })
FirstNamed(t, n) == Least({ c \in Kids(t, n) : t[c].named })
Field(t, n, f)   == Least({ c \in Kids(t, n) : t[c].field = f })
FieldText(t, n, f) == Text(t, Field(t, n, f))
OrNode(n, otherwise) == IF n # 0 THEN n ELSE otherwise
OfType(t, n, ty) == Least({ c \in Kids(t, n) : t[c].named /\ t[c].type = ty })

LastNamed(t, n) == Greatest({ c \in Kids(t, n) : t[c].named })
\* A node out of the wrappers around it.
Bare(t, node, wrappers) ==
  LET w[n \in 0 .. Len(t)] == IF Type(t, n) \in wrappers THEN w[FirstNamed(t, n)] ELSE n
  IN  w[node]

Within(t, n) == { c \in DOMAIN t : n # 0 /\ t[n].from <= t[c].from /\ t[c].to <= t[n].to /\ n < c }

\* The words of a dotted name.
Words(t, n) ==
  LET leaves == InOrder({ c \in Within(t, n) \cup ({n} \ {0}) : t[c].named /\ Kids(t, c) = {} })
  IN  [i \in DOMAIN leaves |-> t[leaves[i]].text]

\* A dotted name as one name.
Dotted(words) ==
  FoldLeft(LAMBDA a, w : IF a = "" THEN w ELSE a \o "." \o w, "", words)

\* The ancestors of a node, and the nearest one of the given types.
Ancestors(t, n) ==
  LET up[m \in 0 .. Len(t)] == IF m = 0 THEN {} ELSE {t[m].parent} \cup up[t[m].parent]
  IN  up[n] \ {0}
Nearest(t, n, types) == Greatest({ a \in Ancestors(t, n) : t[a].type \in types })

AnyField == ""   \* the field of a child that may have any

\* A query of patterns <<type, field, type of the child, capture>>: the nodes
\* and the children they name.
Matches(t, patterns) ==
  UNION { UNION { { [as |-> p[4], node |-> n, name |-> c] :
                      c \in { c \in Kids(t, n) : t[c].type = p[3] /\ p[2] \in {AnyField, t[c].field} } } :
                    p \in { p \in patterns : t[n].type = p[1] } } : n \in DOMAIN t }

\* Two levels down: <<type, field, type, field, type of the grandchild, capture>>.
Matches2(t, patterns) ==
  UNION { UNION { { [as |-> p[6], node |-> n, name |-> c] :
                      c \in { c \in DOMAIN t :
                                LET m == t[c].parent IN
                                /\ m # 0 /\ t[m].parent = n
                                /\ t[m].type = p[3] /\ p[2] \in {AnyField, t[m].field}
                                /\ t[c].type = p[5] /\ p[4] \in {AnyField, t[c].field} } } :
                    p \in { p \in patterns : t[n].type = p[1] } } : n \in DOMAIN t }

\* A pattern of one node, captured under its own name.
Leaves(t, types, as) == { [as |-> as, node |-> n, name |-> n] : n \in { n \in DOMAIN t : t[n].type \in types } }
=============================================================================
