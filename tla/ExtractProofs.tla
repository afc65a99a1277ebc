---------------------------- MODULE ExtractProofs ----------------------------
(***************************************************************************)
(* The scopes of every file nest (Extract), in any program and in each of  *)
(* the seven languages. A tree's spans nest; sorted by where they start,   *)
(* the longer first, the last one before a scope that is still open is the *)
(* smallest around it; and none of the passes after the first touches a    *)
(* scope or the tree, which is shown of each step of their folds.          *)
(***************************************************************************)
EXTENDS Extract, Stanza, DataInduction, FiniteSetTheorems

(* Sorting spans. *)
Before(x, y)  == x[1] < y[1] \/ (x[1] = y[1] /\ x[2] > y[2])
Below(S, x)   == { y \in S : Before(y, x) }
Position(S)   == [x \in S |-> Cardinality(Below(S, x)) + 1]
SpanOrder(S)  == [i \in 1 .. Cardinality(S) |-> CHOOSE x \in S : Position(S)[x] = i]

(* An element's place is one of as many as there are elements.            *)
LEMMA PositionType ==
  ASSUME NEW S, IsFiniteSet(S), S \subseteq Nat \X Nat, NEW x \in S
  PROVE  Position(S)[x] \in 1 .. Cardinality(S)
<1>1. Below(S, x) \subseteq S \ {x}
  BY DEF Below, Before
<1>2. IsFiniteSet(S \ {x}) /\ Cardinality(S \ {x}) = Cardinality(S) - 1 /\ Cardinality(S) \in Nat
  BY FS_RemoveElement, FS_CardinalityType
<1>3. IsFiniteSet(Below(S, x)) /\ Cardinality(Below(S, x)) <= Cardinality(S) - 1
  BY <1>1, <1>2, FS_Subset
<1>4. Cardinality(Below(S, x)) \in Nat
  BY <1>3, FS_CardinalityType
<1> QED  BY <1>2, <1>3, <1>4 DEF Position

(* What comes before an element comes earlier.                            *)
LEMMA PositionAscends ==
  ASSUME NEW S, IsFiniteSet(S), S \subseteq Nat \X Nat, NEW x \in S, NEW y \in S, Before(x, y)
  PROVE  Position(S)[x] < Position(S)[y]
<1>1. Below(S, x) \subseteq Below(S, y) \ {x}
  <2> SUFFICES ASSUME NEW z \in S, Before(z, x) PROVE Before(z, y) /\ z # x
    BY DEF Below
  <2>1. /\ x[1] \in Nat /\ x[2] \in Nat /\ y[1] \in Nat /\ y[2] \in Nat
        /\ z[1] \in Nat /\ z[2] \in Nat
    OBVIOUS
  <2> QED  BY <2>1 DEF Before
<1>2. IsFiniteSet(Below(S, y))
  <2>1. Below(S, y) \in SUBSET S
    BY DEF Below
  <2> QED  BY <2>1, FS_Subset
<1>3. x \in Below(S, y)
  BY DEF Below
<1>4. /\ IsFiniteSet(Below(S, y) \ {x})
      /\ Cardinality(Below(S, y) \ {x}) = Cardinality(Below(S, y)) - 1
      /\ Cardinality(Below(S, y)) \in Nat
  BY <1>2, <1>3, FS_RemoveElement, FS_CardinalityType
<1>5. IsFiniteSet(Below(S, x)) /\ Cardinality(Below(S, x)) <= Cardinality(Below(S, y)) - 1
  BY <1>1, <1>4, FS_Subset
<1>6. Cardinality(Below(S, x)) \in Nat
  BY <1>5, FS_CardinalityType
<1> QED  BY <1>4, <1>5, <1>6 DEF Position

(* As many places as elements, and each place taken: the order is a       *)
(* bijection.                                                             *)
LEMMA SpansInOrder ==
  ASSUME NEW S, IsFiniteSet(S), S \subseteq Nat \X Nat
  PROVE  /\ Cardinality(S) \in Nat
         /\ \A i \in 1 .. Cardinality(S) : SpanOrder(S)[i] \in S /\ Position(S)[SpanOrder(S)[i]] = i
<1> DEFINE n == Cardinality(S)
           P == Position(S)
<1>1. n \in Nat /\ IsFiniteSet(1 .. n) /\ Cardinality(1 .. n) = n
  <2>1. n \in Nat
    BY FS_CardinalityType
  <2> QED  BY <2>1, FS_Interval
<1>2. P \in [S -> 1 .. n]
  <2>1. P = [x \in S |-> P[x]]
    BY DEF Position
  <2> QED  BY <2>1, PositionType
<1>3. \A x, y \in S : P[x] = P[y] => x = y
  <2> SUFFICES ASSUME NEW x \in S, NEW y \in S, x # y PROVE P[x] # P[y]
    OBVIOUS
  <2>1. Before(x, y) \/ Before(y, x)
    BY DEF Before
  <2>2. P[x] \in Nat /\ P[y] \in Nat
    BY <1>1, <1>2
  <2> HIDE DEF P
  <2>3. P[x] < P[y] \/ P[y] < P[x]
    BY <2>1, PositionAscends DEF P
  <2> QED  BY <2>2, <2>3
<1> HIDE DEF P, n
<1>4. P \in Injection(S, 1 .. n)
  BY <1>2, <1>3 DEF Injection, IsInjective
<1>5. P \in Surjection(S, 1 .. n)
  BY <1>1, <1>4, FS_Injection DEF n
<1>6. ASSUME NEW i \in 1 .. n PROVE SpanOrder(S)[i] \in S /\ P[SpanOrder(S)[i]] = i
  <2>1. \E x \in S : P[x] = i
    BY <1>5 DEF Surjection
  <2> QED  BY <2>1 DEF SpanOrder, n, P
<1> QED  BY <1>1, <1>6 DEF n, P

(* The order of the places is the order of the spans.                     *)
LEMMA SpanOrderAscends ==
  ASSUME NEW S, IsFiniteSet(S), S \subseteq Nat \X Nat,
         NEW i \in 1 .. Cardinality(S), NEW j \in 1 .. Cardinality(S)
  PROVE  Before(SpanOrder(S)[j], SpanOrder(S)[i]) <=> j < i
<1> DEFINE x == SpanOrder(S)[i]
           y == SpanOrder(S)[j]
<1>1. x \in S /\ y \in S /\ Position(S)[x] = i /\ Position(S)[y] = j /\ Cardinality(S) \in Nat
  BY SpansInOrder
<1> HIDE DEF x, y
<1>2. i # j => Before(x, y) \/ Before(y, x)
  BY <1>1 DEF Before
<1>3. Before(y, x) => j < i
  BY <1>1, PositionAscends
<1>4. Before(x, y) => i < j
  BY <1>1, PositionAscends
<1> QED  BY <1>1, <1>2, <1>3, <1>4 DEF x, y

-----------------------------------------------------------------------------
(* The scope a scope is in. *)
Nesting(S)   == \A x, y \in S : Apart(x, y) \/ Apart(y, x) \/ Around(x, y) \/ Around(y, x)

Open(s, i) == { j \in 1 .. i - 1 : s[j][2] > s[i][1] }

(* A set of indices has a greatest one.                                   *)
LEMMA GreatestOf ==
  ASSUME NEW n \in Nat, NEW S \in SUBSET (1 .. n), S # {}
  PROVE  Greatest(S) \in S /\ \A y \in S : y <= Greatest(S)
<1> DEFINE up == {n - x : x \in S}
<1>1. \A x \in S : x \in Nat /\ n - x \in Nat /\ n - (n - x) = x
  OBVIOUS
<1>2. up \in SUBSET Nat /\ up # {}
  BY <1>1
<1>3. PICK u \in up : \A v \in up : ~(<<v, u>> \in OpToRel(<, Nat))
  BY <1>2, NatLessThanWellFounded, WFMin
<1>4. PICK x \in S : u = n - x
  OBVIOUS
<1>5. \A y \in S : y <= x
  <2> TAKE y \in S
  <2>1. ~(n - y < n - x)
    BY <1>1, <1>3, <1>4 DEF OpToRel
  <2> QED  BY <1>1, <2>1
<1> QED  BY <1>5 DEF Greatest

(* Of spans that nest, sorted, the last one before s[i] that is still     *)
(* open is around s[i], and inside whatever else is around it.            *)
LEMMA ParentIsAround ==
  ASSUME NEW S, IsFiniteSet(S), S \subseteq Nat \X Nat, Nesting(S),
         NEW i \in 1 .. Cardinality(S), NEW j \in 1 .. Cardinality(S), i # j,
         LET s == SpanOrder(S) IN Around(s[j], s[i]) /\ s[i][1] < s[i][2]
  PROVE  LET s == SpanOrder(S)
             p == Greatest(Open(s, i))
         IN  p \in 1 .. i - 1 /\ Around(s[p], s[i]) /\ Around(s[j], s[p])
<1> DEFINE s == SpanOrder(S)
           p == Greatest(Open(s, i))
           n == Cardinality(S)
<1>1. n \in Nat /\ \A k \in 1 .. n : s[k] \in S /\ s[k][1] \in Nat /\ s[k][2] \in Nat
  BY SpansInOrder
<1>2. s[i] # s[j]
  BY SpansInOrder
<1>3. \A k, m \in 1 .. n : Before(s[k], s[m]) <=> k < m
  BY SpanOrderAscends
<1>4. Around(s[j], s[i]) /\ s[i][1] < s[i][2]
  OBVIOUS
<1> HIDE DEF s, n
<1>5. Before(s[j], s[i])
  BY <1>1, <1>2, <1>4 DEF Before, Around, n
<1>6. j < i
  BY <1>3, <1>5 DEF n
<1>7. j \in Open(s, i)
  BY <1>1, <1>4, <1>6 DEF Open, Around, n
<1>8. p \in Open(s, i) /\ j <= p
  <2>1. i - 1 \in Nat /\ Open(s, i) \in SUBSET (1 .. i - 1)
    BY <1>1 DEF Open, n
  <2> QED  BY <1>7, <2>1, GreatestOf
<1> HIDE DEF p
<1>9. p \in 1 .. n /\ p < i /\ p \in 1 .. i - 1 /\ s[p][2] > s[i][1] /\ i \in 1 .. n /\ j \in 1 .. n
  BY <1>1, <1>8 DEF Open, n
<1>10. Before(s[p], s[i])
  BY <1>3, <1>9
<1>11. Around(s[p], s[i])
  <2>1. Apart(s[p], s[i]) \/ Apart(s[i], s[p]) \/ Around(s[p], s[i]) \/ Around(s[i], s[p])
    BY <1>1, <1>9 DEF Nesting
  <2> QED  BY <1>1, <1>4, <1>9, <1>10, <2>1 DEF Apart, Around, Before
<1>12. Around(s[j], s[p])
  <2>1. CASE j = p
    BY <1>1, <1>9, <2>1 DEF Around
  <2>2. CASE j # p
    <3>1. j < p
      BY <1>8, <1>9, <2>2
    <3>2. Before(s[j], s[p])
      BY <1>3, <1>9, <3>1
    <3>3. Apart(s[p], s[j]) \/ Apart(s[j], s[p]) \/ Around(s[p], s[j]) \/ Around(s[j], s[p])
      BY <1>1, <1>9 DEF Nesting
    <3> QED  BY <1>1, <1>4, <1>9, <1>11, <3>2, <3>3 DEF Apart, Around, Before
  <2> QED  BY <2>1, <2>2
<1> QED  BY <1>9, <1>11, <1>12 DEF p, s

Nests(scopes) ==
  \A i, j \in DOMAIN scopes :
    LET s == scopes[i]
        o == scopes[j]
        p == scopes[s.parent]
        around(x, y) == x.from <= y.from /\ y.to <= x.to
    IN i # j /\ around(o, s) /\ s.from < s.to => s.parent # 0 /\ around(p, s) /\ around(o, p)

Laid(t) == t \in Seq(Range(t)) /\ WellNested(t)

Captured(t, types) == { Span(t, n) : n \in { n \in DOMAIN t : t[n].type \in types } }

(* A function of a finite set has finitely many values.                   *)
LEMMA FiniteImage ==
  ASSUME NEW S, IsFiniteSet(S), NEW f, NEW T, T \subseteq { f[x] : x \in S }
  PROVE  IsFiniteSet(T)
<1> DEFINE g == [x \in S |-> f[x]]
           I == { f[x] : x \in S }
<1>1. g \in Surjection(S, I)
  BY DEF Surjection
<1>2. IsFiniteSet(I)
  BY <1>1, FS_Surjection
<1> QED  BY <1>2, FS_Subset

(* The scopes a query captures in a file are finitely many spans that     *)
(* nest.                                                                  *)
LEMMA CapturedSpans ==
  ASSUME NEW t, NEW types, Laid(t)
  PROVE  LET S == Captured(t, types)
         IN  IsFiniteSet(S) /\ S \subseteq Nat \X Nat /\ Nesting(S)
<1>1. IsFiniteSet(DOMAIN t)
  <2>1. Len(t) \in Nat /\ DOMAIN t = 1 .. Len(t)
    BY DEF Laid
  <2> QED  BY <2>1, FS_Interval
<1>2. IsFiniteSet(Captured(t, types))
  <2> DEFINE f == [n \in DOMAIN t |-> Span(t, n)]
  <2>1. Captured(t, types) \subseteq { f[n] : n \in DOMAIN t }
    BY DEF Captured
  <2> HIDE DEF f
  <2> QED  BY <1>1, <2>1, FiniteImage
<1>3. Captured(t, types) \subseteq Nat \X Nat
  BY DEF Captured, Laid, WellNested, Span
<1>4. Nesting(Captured(t, types))
  BY DEF Captured, Laid, WellNested, Nesting
<1> QED  BY <1>2, <1>3, <1>4

(* collectScopes' scopes are the captured spans in order; a parent is the *)
(* last one open.                                                         *)
LEMMA ScopedScopes ==
  ASSUME NEW b, NEW kindOf, "scopes" \in DOMAIN b
  PROVE  LET s == SpanOrder(Captured(b.tree, DOMAIN kindOf))
             scopes == Scoped(b, kindOf).scopes
         IN  /\ DOMAIN scopes = DOMAIN s
             /\ \A i \in DOMAIN s : /\ scopes[i].from = s[i][1] /\ scopes[i].to = s[i][2]
                                    /\ scopes[i].parent = Greatest(Open(s, i))
<1> DEFINE T == Captured(b.tree, DOMAIN kindOf)
           s == Sorted(T, LAMBDA x, y : x[1] < y[1] \/ (x[1] = y[1] /\ x[2] > y[2]))
           kind(i) == Kinds[Least({ Rank(kindOf[b.tree[n].type]) :
                              n \in { m \in { n \in DOMAIN b.tree : b.tree[n].type \in DOMAIN kindOf } :
                                        Span(b.tree, m) = s[i] } })]
           parent(i) == Greatest({ j \in 1 .. i - 1 : s[j][2] > s[i][1] })
<1>1. s = SpanOrder(T)
  BY DEF Sorted, SpanOrder, Position, Below, Before
<1>2. Scoped(b, kindOf).scopes = [i \in DOMAIN s |->
                     [id |-> i, kind |-> kind(i), from |-> s[i][1], to |-> s[i][2],
                      parent |-> parent(i)]]
  BY DEF Scoped, Captured
<1>3. \A i : parent(i) = Greatest(Open(s, i))
  BY DEF Open
<1> HIDE DEF s, kind, parent, T
<1> QED  BY <1>1, <1>2, <1>3 DEF T

(* The scopes collectScopes makes nest by their parents.                  *)
LEMMA ScopedNests ==
  ASSUME NEW b, NEW kindOf, "scopes" \in DOMAIN b, Laid(b.tree)
  PROVE  Nests(Scoped(b, kindOf).scopes)
<1> DEFINE S == Captured(b.tree, DOMAIN kindOf)
           s == SpanOrder(S)
           scopes == Scoped(b, kindOf).scopes
<1>1. /\ DOMAIN scopes = DOMAIN s
      /\ \A i \in DOMAIN s : /\ scopes[i].from = s[i][1] /\ scopes[i].to = s[i][2]
                             /\ scopes[i].parent = Greatest(Open(s, i))
  BY ScopedScopes
<1>2. IsFiniteSet(S) /\ S \subseteq Nat \X Nat /\ Nesting(S)
  BY CapturedSpans
<1>3. DOMAIN s = 1 .. Cardinality(S) /\ Cardinality(S) \in Nat
  BY <1>2, SpansInOrder DEF SpanOrder
<1> HIDE DEF S, scopes
<1>4. ASSUME NEW i \in DOMAIN s, NEW j \in DOMAIN s, i # j, Around(s[j], s[i]), s[i][1] < s[i][2]
      PROVE  LET p == Greatest(Open(s, i))
             IN  p \in DOMAIN s /\ p # 0 /\ Around(s[p], s[i]) /\ Around(s[j], s[p])
  <2>1. i \in 1 .. Cardinality(S) /\ j \in 1 .. Cardinality(S)
    BY <1>3
  <2>2. LET p == Greatest(Open(s, i))
        IN p \in 1 .. i - 1 /\ Around(s[p], s[i]) /\ Around(s[j], s[p])
    BY <1>2, <1>4, <2>1, ParentIsAround
  <2> QED  BY <1>3, <2>1, <2>2
<1> HIDE DEF s
<1>5. ASSUME NEW i \in DOMAIN scopes, NEW j \in DOMAIN scopes, i # j,
             scopes[j].from <= scopes[i].from, scopes[i].to <= scopes[j].to, scopes[i].from < scopes[i].to
      PROVE  LET p == scopes[i].parent
             IN /\ p # 0
                /\ scopes[p].from <= scopes[i].from /\ scopes[i].to <= scopes[p].to
                /\ scopes[j].from <= scopes[p].from /\ scopes[p].to <= scopes[j].to
  <2>1. i \in DOMAIN s /\ j \in DOMAIN s
    BY <1>1
  <2>2. Around(s[j], s[i]) /\ s[i][1] < s[i][2]
    BY <1>1, <1>5, <2>1 DEF Around
  <2> QED  BY <1>1, <1>4, <1>5, <2>1, <2>2 DEF Around
<1> QED  BY <1>5 DEF Nests, scopes

-----------------------------------------------------------------------------
(* What a query finds is finite. *)
Roles == {"declarator", "call", "read", "type", "interface", "function", "method", "field", "variable",
          "parameter", "constant", "package", "module", "directive"}

(* A query's captures have finitely many names.                           *)
LEMMA FiniteRoles == IsFiniteSet(Roles)
<1> DEFINE s == <<"declarator", "call", "read", "type", "interface", "function", "method", "field",
                  "variable", "parameter", "constant", "package", "module", "directive">>
           n == 14
<1>1. n \in Nat
  OBVIOUS
<1>2. Roles \subseteq { s[i] : i \in 1 .. n }
  BY DEF Roles
<1> HIDE DEF s, n
<1>3. IsFiniteSet(1 .. n)
  BY <1>1, FS_Interval
<1> QED  BY <1>2, <1>3, FiniteImage

Nodes(t) == [as : Roles, node : DOMAIN t, name : DOMAIN t]

(* Of a finite tree a query can capture finitely many things.             *)
LEMMA FiniteNodes ==
  ASSUME NEW t, IsFiniteSet(DOMAIN t)
  PROVE  IsFiniteSet(Nodes(t))
<1> DEFINE D == DOMAIN t
           P == Roles \X (D \X D)
           f == [p \in P |-> [as |-> p[1], node |-> p[2][1], name |-> p[2][2]]]
<1>1. IsFiniteSet(P)
  <2> HIDE DEF D
  <2>1. IsFiniteSet(D)
    BY DEF D
  <2>2. IsFiniteSet(D \X D)
    BY <2>1, FS_Product
  <2> QED  BY <2>2, FiniteRoles, FS_Product
<1>2. Nodes(t) \subseteq { f[p] : p \in P }
  <2> SUFFICES ASSUME NEW x \in Nodes(t) PROVE \E p \in P : x = f[p]
    OBVIOUS
  <2>1. x.as \in Roles /\ x.node \in D /\ x.name \in D
        /\ x = [as |-> x.as, node |-> x.node, name |-> x.name]
    BY DEF Nodes
  <2>2. ASSUME NEW r \in Roles, NEW n \in D, NEW m \in D, x = [as |-> r, node |-> n, name |-> m]
        PROVE  \E p \in P : x = f[p]
    <3> DEFINE p == <<r, <<n, m>>>>
    <3>1. p \in P
      OBVIOUS
    <3>2. f[p] = [as |-> r, node |-> n, name |-> m]
      BY <3>1
    <3> QED  BY <2>2, <3>1, <3>2
  <2> QED  BY <2>1, <2>2
<1> HIDE DEF f, P
<1> QED  BY <1>1, <1>2, FiniteImage

(* What the queries' patterns match are nodes of the tree.                *)
LEMMA MatchesNodes ==
  ASSUME NEW t, NEW P, \A p \in P : p[4] \in Roles
  PROVE  Matches(t, P) \subseteq Nodes(t)
<1> SUFFICES ASSUME NEW x \in Matches(t, P) PROVE x \in Nodes(t)
  OBVIOUS
<1>1. PICK n \in DOMAIN t, p \in P, c \in DOMAIN t : x = [as |-> p[4], node |-> n, name |-> c]
  BY DEF Matches, Kids
<1> QED  BY <1>1 DEF Nodes

(* So is what they match two levels down.                                 *)
LEMMA Matches2Nodes ==
  ASSUME NEW t, NEW P, \A p \in P : p[6] \in Roles
  PROVE  Matches2(t, P) \subseteq Nodes(t)
<1> SUFFICES ASSUME NEW x \in Matches2(t, P) PROVE x \in Nodes(t)
  OBVIOUS
<1>1. PICK n \in DOMAIN t, p \in P, c \in DOMAIN t : x = [as |-> p[6], node |-> n, name |-> c]
  BY DEF Matches2
<1> QED  BY <1>1 DEF Nodes

(* So is what they match by its type.                                     *)
LEMMA LeavesNodes ==
  ASSUME NEW t, NEW types, NEW as \in Roles
  PROVE  Leaves(t, types, as) \subseteq Nodes(t)
<1> SUFFICES ASSUME NEW x \in Leaves(t, types, as) PROVE x \in Nodes(t)
  OBVIOUS
<1>1. PICK n \in DOMAIN t : x = [as |-> as, node |-> n, name |-> n]
  BY DEF Leaves
<1> QED  BY <1>1 DEF Nodes

-----------------------------------------------------------------------------
(* What the passes after the first leave alone. *)
Kept(k, a) ==
  /\ {"scopes", "tree"} \subseteq DOMAIN k /\ DOMAIN a = DOMAIN k
  /\ a.scopes = k.scopes /\ a.tree = k.tree

Ordinal(s) == \E n \in Nat : DOMAIN s = 1 .. n

-----------------------------------------------------------------------------
(* The steps of the passes' folds, the claims and the names that are no      *)
(* names included.                                                           *)
GoImport(a, c) == Go!importSpec(a, c)
GoDefine(a, c) == IF Go!Span(a.tree, c.name) \in a.claimed THEN a
                  ELSE IF Go!Anonymous(a, c.name) THEN Go!Claim(a, c.name)
                  ELSE Go!define(Go!Claim(a, c.name), c)
GoRefer(a, c)  == IF Go!Anonymous(a, c.name) THEN a ELSE Go!refer(a, c)

TsImport(a, c) == Ts!importStatement(a, c)
TsDefine(a, c) == IF Ts!Span(a.tree, c.name) \in a.claimed THEN a
                  ELSE IF Ts!Anonymous(a, c.name) THEN Ts!Claim(a, c.name)
                  ELSE Ts!define(Ts!Claim(a, c.name), c)
TsRefer(a, c)  == IF Ts!Anonymous(a, c.name) THEN a ELSE Ts!refer(a, c)

PyImport(a, c) == Py!importStep(a, c)
PyDefine(a, c) == IF Py!Span(a.tree, c.name) \in a.claimed THEN a
                  ELSE IF Py!Anonymous(a, c.name) THEN Py!Claim(a, c.name)
                  ELSE Py!define(Py!Claim(a, c.name), c)
PyRefer(a, c)  == IF Py!Anonymous(a, c.name) THEN a ELSE Py!refer(a, c)

JavaImport(a, c) == Java!importDeclaration(a, c)
JavaDefine(a, c) == IF Java!Span(a.tree, c.name) \in a.claimed THEN a
                  ELSE IF Java!Anonymous(a, c.name) THEN Java!Claim(a, c.name)
                  ELSE Java!define(Java!Claim(a, c.name), c)
JavaRefer(a, c)  == IF Java!Anonymous(a, c.name) THEN a ELSE Java!refer(a, c)

RbImport(a, c) == Rb!require(a, c)
RbDefine(a, c) == IF Rb!Span(a.tree, c.name) \in a.claimed THEN a
                  ELSE IF Rb!Anonymous(a, c.name) THEN Rb!Claim(a, c.name)
                  ELSE Rb!define(Rb!Claim(a, c.name), c)
RbRefer(a, c)  == IF Rb!Anonymous(a, c.name) THEN a ELSE Rb!refer(a, c)

RsImport(a, c) == Rs!importStatement(a, c)
RsDefine(a, c) == IF Rs!Span(a.tree, c.name) \in a.claimed THEN a
                  ELSE IF Rs!Anonymous(a, c.name) THEN Rs!Claim(a, c.name)
                  ELSE Rs!define(Rs!Claim(a, c.name), c)
RsRefer(a, c)  == IF Rs!Anonymous(a, c.name) THEN a ELSE Rs!refer(a, c)

CsImport(a, c) == Cs!usingDirective(a, c)
CsDefine(a, c) == IF Cs!Span(a.tree, c.name) \in a.claimed THEN a
                  ELSE IF Cs!Anonymous(a, c.name) THEN Cs!Claim(a, c.name)
                  ELSE Cs!define(Cs!Claim(a, c.name), c)
CsRefer(a, c)  == IF Cs!Anonymous(a, c.name) THEN a ELSE Cs!refer(a, c)

Taken(k, a, c) ==
  CASE k.step = "GoImport"  -> GoImport(a, c)
    [] k.step = "GoDefine"  -> GoDefine(a, c)
    [] k.step = "GoRefer"   -> GoRefer(a, c)
    [] k.step = "TsImport"  -> TsImport(a, c)
    [] k.step = "TsDefine"  -> TsDefine(a, c)
    [] k.step = "TsRefer"   -> TsRefer(a, c)
    [] k.step = "PyImport"  -> PyImport(a, c)
    [] k.step = "PyDefine"  -> PyDefine(a, c)
    [] k.step = "PyRefer"   -> PyRefer(a, c)
    [] k.step = "JavaImport"-> JavaImport(a, c)
    [] k.step = "JavaDefine"-> JavaDefine(a, c)
    [] k.step = "JavaRefer" -> JavaRefer(a, c)
    [] k.step = "RbImport"  -> RbImport(a, c)
    [] k.step = "RbDefine"  -> RbDefine(a, c)
    [] k.step = "RbRefer"   -> RbRefer(a, c)
    [] k.step = "RsImport"  -> RsImport(a, c)
    [] k.step = "RsDefine"  -> RsDefine(a, c)
    [] k.step = "RsRefer"   -> RsRefer(a, c)
    [] k.step = "CsImport"  -> CsImport(a, c)
    [] k.step = "CsDefine"  -> CsDefine(a, c)
    [] k.step = "CsRefer"   -> CsRefer(a, c)
    [] k.step = "RbAttr"    -> Rb!attr(a, c)
    [] k.step = "RsUse"     -> Rs!useStep(a, c)
    [] k.step = "CsDeclare" -> Cs!declareNamespace(a, c)

(* What the fold k keeps of what it folds.                                   *)
Keeps(k, a) == Kept(k.of, IF k.step = "RsUse" THEN a.b ELSE a)

(* Go's steps as the steps of a fold.                                     *)
LEMMA GoTaken ==
  ASSUME NEW k, NEW a, NEW c
  PROVE  /\ k.step = "GoImport" => Taken(k, a, c) = GoImport(a, c)
         /\ k.step = "GoDefine" => Taken(k, a, c) = GoDefine(a, c)
         /\ k.step = "GoRefer" => Taken(k, a, c) = GoRefer(a, c)
         /\ \A v : Go!Max(v) = Max(v)
BY DEF Taken, Max, Go!Max

(* TypeScript's steps as the steps of a fold.                             *)
LEMMA TsTaken ==
  ASSUME NEW k, NEW a, NEW c
  PROVE  /\ k.step = "TsImport" => Taken(k, a, c) = TsImport(a, c)
         /\ k.step = "TsDefine" => Taken(k, a, c) = TsDefine(a, c)
         /\ k.step = "TsRefer" => Taken(k, a, c) = TsRefer(a, c)
         /\ \A v : Ts!Max(v) = Max(v)
BY DEF Taken, Max, Ts!Max

(* Python's steps as the steps of a fold.                                 *)
LEMMA PyTaken ==
  ASSUME NEW k, NEW a, NEW c
  PROVE  /\ k.step = "PyImport" => Taken(k, a, c) = PyImport(a, c)
         /\ k.step = "PyDefine" => Taken(k, a, c) = PyDefine(a, c)
         /\ k.step = "PyRefer" => Taken(k, a, c) = PyRefer(a, c)
         /\ \A v : Py!Max(v) = Max(v)
BY DEF Taken, Max, Py!Max

(* Java's steps as the steps of a fold.                                   *)
LEMMA JavaTaken ==
  ASSUME NEW k, NEW a, NEW c
  PROVE  /\ k.step = "JavaImport" => Taken(k, a, c) = JavaImport(a, c)
         /\ k.step = "JavaDefine" => Taken(k, a, c) = JavaDefine(a, c)
         /\ k.step = "JavaRefer" => Taken(k, a, c) = JavaRefer(a, c)
         /\ \A v : Java!Max(v) = Max(v)
BY DEF Taken, Max, Java!Max

(* Ruby's steps as the steps of a fold.                                   *)
LEMMA RbTaken ==
  ASSUME NEW k, NEW a, NEW c
  PROVE  /\ k.step = "RbImport" => Taken(k, a, c) = RbImport(a, c)
         /\ k.step = "RbDefine" => Taken(k, a, c) = RbDefine(a, c)
         /\ k.step = "RbRefer" => Taken(k, a, c) = RbRefer(a, c)
         /\ k.step = "RbAttr" => Taken(k, a, c) = Rb!attr(a, c)
         /\ \A v : Rb!Max(v) = Max(v)
BY DEF Taken, Max, Rb!Max

(* Rust's steps as the steps of a fold.                                   *)
LEMMA RsTaken ==
  ASSUME NEW k, NEW a, NEW c
  PROVE  /\ k.step = "RsImport" => Taken(k, a, c) = RsImport(a, c)
         /\ k.step = "RsDefine" => Taken(k, a, c) = RsDefine(a, c)
         /\ k.step = "RsRefer" => Taken(k, a, c) = RsRefer(a, c)
         /\ k.step = "RsUse" => Taken(k, a, c) = Rs!useStep(a, c)
         /\ \A v : Rs!Max(v) = Max(v)
BY DEF Taken, Max, Rs!Max

(* C#'s steps as the steps of a fold.                                     *)
LEMMA CsTaken ==
  ASSUME NEW k, NEW a, NEW c
  PROVE  /\ k.step = "CsImport" => Taken(k, a, c) = CsImport(a, c)
         /\ k.step = "CsDefine" => Taken(k, a, c) = CsDefine(a, c)
         /\ k.step = "CsRefer" => Taken(k, a, c) = CsRefer(a, c)
         /\ k.step = "CsDeclare" => Taken(k, a, c) = Cs!declareNamespace(a, c)
         /\ \A v : Cs!Max(v) = Max(v)
BY DEF Taken, Max, Cs!Max

(* The fold of the sequence s from b as FoldLeft computes it, over the sets *)
(* of its indices.                                                         *)
Layers(g, k, b, s, n) ==
  g = [t \in SUBSET (1..n) |-> IF t = {} THEN b ELSE Taken(k, g[t \ {Max(t)}], s[Max(t)])]

(* There is such a fold, for any steps.                                   *)
LEMMA FoldExists ==
  ASSUME NEW k, NEW b, NEW s, NEW n \in Nat
  PROVE  \E g : Layers(g, k, b, s, n)
<1> DEFINE P(m) == \E g : Layers(g, k, b, s, m)
           T == {m \in 0..n : P(m)}
<1>1. P(0)
  <2> DEFINE e == [t \in SUBSET (1..0) |-> b]
  <2>1. \A t \in SUBSET (1..0) : t = {}
    OBVIOUS
  <2>2. e = [t \in SUBSET (1..0) |-> IF t = {} THEN b ELSE Taken(k, e[t \ {Max(t)}], s[Max(t)])]
    BY <2>1
  <2> QED  BY <2>2 DEF Layers
<1>2. ASSUME NEW m \in 0..n, NEW g, Layers(g, k, b, s, m), m < n PROVE P(m + 1)
  <2> DEFINE h == [t \in SUBSET (1..(m + 1)) |->
                     IF m + 1 \in t THEN Taken(k, g[t \ {m + 1}], s[m + 1]) ELSE g[t]]
  <2>1. \A t \in SUBSET (1..m) : g[t] = IF t = {} THEN b ELSE Taken(k, g[t \ {Max(t)}], s[Max(t)])
    BY <1>2 DEF Layers
  <2>2. \A t \in SUBSET (1..(m + 1)) : /\ t \ {m + 1} \in SUBSET (1..m)
                                       /\ m + 1 \notin t => t \in SUBSET (1..m)
    OBVIOUS
  <2>4. ASSUME NEW t \in SUBSET (1..(m + 1))
        PROVE  h[t] = IF t = {} THEN b ELSE Taken(k, h[t \ {Max(t)}], s[Max(t)])
    <3>1. CASE m + 1 \in t
      <4>2. h[t] = Taken(k, g[t \ {m + 1}], s[m + 1])
        BY <3>1
      <4>3. h[t \ {m + 1}] = g[t \ {m + 1}]
        OBVIOUS
      <4>4. Max(t) = m + 1
        <5>0. m + 1 \in Nat
          OBVIOUS
        <5>1. Max(t) \in t /\ m + 1 <= Max(t)
          BY <3>1, <5>0, MaxOf
        <5>2. Max(t) \in 1..(m + 1)
          BY <5>1
        <5> QED  BY <5>0, <5>1, <5>2
      <4> QED  BY <3>1, <4>2, <4>3, <4>4
    <3>2. CASE m + 1 \notin t
      <4>1. t \in SUBSET (1..m) /\ h[t] = g[t]
        BY <2>2, <3>2
      <4>2. CASE t # {}
        <5>1. Max(t) \in t
          <6>1. m \in Nat
            OBVIOUS
          <6> QED  BY <4>1, <4>2, <6>1, MaxOf
        <5>2. t \ {Max(t)} \in SUBSET (1..(m + 1)) /\ m + 1 \notin t \ {Max(t)}
          BY <3>2
        <5>3. h[t \ {Max(t)}] = g[t \ {Max(t)}]
          BY <5>2
        <5> QED  BY <2>1, <4>1, <4>2, <5>3
      <4>3. CASE t = {}
        BY <2>1, <4>1, <4>3
      <4> QED  BY <4>2, <4>3
    <3> QED  BY <3>1, <3>2
  <2>5. DOMAIN h = SUBSET (1..(m + 1)) /\ h = [t \in SUBSET (1..(m + 1)) |-> h[t]]
    OBVIOUS
  <2> HIDE DEF h
  <2>6. h = [t \in SUBSET (1..(m + 1)) |-> IF t = {} THEN b ELSE Taken(k, h[t \ {Max(t)}], s[Max(t)])]
    BY <2>4, <2>5
  <2>7. Layers(h, k, b, s, m + 1)
    BY <2>6 DEF Layers
  <2> QED  BY <2>7
<1>3. n \in T
  <2> HIDE DEF P
  <2>1. 0 \in T  BY <1>1
  <2>2. \A m \in 0..n : m \in T /\ m < n => m + 1 \in T
    <3> TAKE m \in 0..n
    <3> HAVE m \in T /\ m < n
    <3>1. PICK g : Layers(g, k, b, s, m)
      BY DEF P
    <3> QED  BY <1>2, <3>1
  <2>3. 0..n \subseteq T
    <3> HIDE DEF T
    <3> QED  BY <2>1, <2>2, UpTo
  <2> QED  BY <2>3
<1> QED  BY <1>3

(* The indices before the last.                                           *)
LEMMA UpToLast ==
  ASSUME NEW m \in Nat
  PROVE  (1..m) \ {m} = 1..(m - 1)
OBVIOUS

(* The layers of a fold keep what its steps keep. *)
LEMMA LayersKeep ==
  ASSUME NEW k, NEW b, NEW s, NEW n \in Nat, NEW h, Layers(h, k, b, s, n), Keeps(k, b),
         ASSUME NEW a, NEW i \in 1..n, Keeps(k, a) PROVE Keeps(k, Taken(k, a, s[i]))
  PROVE  Keeps(k, h[1..n])
<1> DEFINE T == {i \in 0..n : Keeps(k, h[1..i])}
<1>1. h = [t \in SUBSET (1..n) |-> IF t = {} THEN b ELSE Taken(k, h[t \ {Max(t)}], s[Max(t)])]
  BY DEF Layers
<1>2. ASSUME NEW m \in 1..n PROVE h[1..m] = Taken(k, h[1..(m - 1)], s[m])
  <2>1. 1..m \in SUBSET (1..n) /\ m \in 1..m /\ 1..m # {}
    <3>1. \A x \in 1..m : x \in 1..n
      OBVIOUS
    <3>2. m \in 1..m
      OBVIOUS
    <3> QED  BY <3>1, <3>2
  <2>2. Max(1..m) = m
    <3>1. Max(1..m) \in 1..m /\ m <= Max(1..m)
      BY <2>1, MaxOf
    <3> QED  BY <3>1
  <2>3. (1..m) \ {m} = 1..(m - 1)
    <3> HIDE DEF T
    <3>1. m \in Nat
      OBVIOUS
    <3> QED  BY <3>1, UpToLast
  <2> QED  BY <1>1, <2>1, <2>2, <2>3
<1>3. 1..0 = {} /\ h[{}] = b
  BY <1>1
<1>4. 0..n \subseteq T
  <2>1. 0 \in T
    BY <1>3
  <2>2. \A m \in 0..n : m \in T /\ m < n => m + 1 \in T
    <3> TAKE m \in 0..n
    <3> HAVE m \in T /\ m < n
    <3>1. m + 1 \in 1..n /\ (m + 1) - 1 = m /\ m + 1 \in 0..n
      OBVIOUS
    <3>2. h[1..(m + 1)] = Taken(k, h[1..m], s[m + 1])
      BY <1>2, <3>1
    <3>3. Keeps(k, h[1..m])
      OBVIOUS
    <3>4. Keeps(k, Taken(k, h[1..m], s[m + 1]))
      BY <3>1, <3>3
    <3> QED  BY <3>1, <3>2, <3>4
  <2> HIDE DEF T
  <2> QED  BY <2>1, <2>2, UpTo
<1>5. Keeps(k, h[1..n])
  <2>1. n \in 0..n
    OBVIOUS
  <2> QED  BY <1>4, <2>1
<1> HIDE DEF T
<1> QED  BY <1>5

(* What has the values of a fold's layers is the layers.                     *)
Values(h, g, k, b, s, n) ==
  /\ h = [v \in SUBSET (1..n) |-> h[v]]
  /\ \A v \in SUBSET (1..n) : h[v] = IF v = {} THEN b ELSE Taken(k, g[v \ {Max(v)}], s[Max(v)])

(* And only it is.                                                        *)
LEMMA LayersAre ==
  ASSUME NEW k, NEW b, NEW s, NEW n, NEW g, NEW h, Values(h, g, k, b, s, n)
  PROVE  Layers(g, k, b, s, n) <=> g = h
<1> DEFINE f == [v \in SUBSET (1..n) |-> IF v = {} THEN b ELSE Taken(k, g[v \ {Max(v)}], s[Max(v)])]
<1>0. /\ h = [v \in SUBSET (1..n) |-> h[v]]
      /\ \A v \in SUBSET (1..n) : h[v] = IF v = {} THEN b ELSE Taken(k, g[v \ {Max(v)}], s[Max(v)])
  BY DEF Values
<1>1. f = h
  <2>1. DOMAIN f = DOMAIN h /\ \A v \in SUBSET (1..n) : f[v] = h[v]
    BY <1>0
  <2>2. f = [v \in SUBSET (1..n) |-> f[v]]
    OBVIOUS
  <2> HIDE DEF f
  <2> QED  BY <1>0, <2>1, <2>2
<1>2. Layers(g, k, b, s, n) <=> g = f
  BY DEF Layers
<1> QED  BY <1>1, <1>2

-----------------------------------------------------------------------------
(* Go. *)
(* Go matches its patterns the way the other languages do.                *)
LEMMA GoSame ==
  /\ \A t, P : Go!Matches(t, P) = Matches(t, P) /\ Go!Matches2(t, P) = Matches2(t, P)
  /\ \A t, types, as : Go!Leaves(t, types, as) = Leaves(t, types, as)
<1>1. ASSUME NEW t, NEW P PROVE Go!Matches(t, P) = Matches(t, P)
  BY DEF Matches, Go!Matches, Kids, Go!Kids, AnyField, Go!AnyField
<1>2. ASSUME NEW t, NEW P PROVE Go!Matches2(t, P) = Matches2(t, P)
  BY DEF Matches2, Go!Matches2, AnyField, Go!AnyField
<1> QED  BY <1>1, <1>2 DEF Leaves, Go!Leaves

(* What Go's queries capture is finite.                                   *)
LEMMA GoFound ==
  ASSUME NEW t, IsFiniteSet(DOMAIN t)
  PROVE  IsFiniteSet(Go!Captures(t)) /\ IsFiniteSet(Go!Uses(t))
<1>1. Go!Captures(t) \subseteq Nodes(t)
  BY GoSame, MatchesNodes, Matches2Nodes, LeavesNodes DEF Go!Captures, Roles
<1>2. Go!Uses(t) \subseteq Nodes(t)
  BY GoSame, MatchesNodes, Matches2Nodes, LeavesNodes DEF Go!Uses, Roles
<1> QED  BY <1>1, <1>2, FiniteNodes, FS_Subset

(* What a pass of Go goes through is numbered from 1.                     *)
LEMMA GoOrders ==
  ASSUME NEW t, NEW S, IsFiniteSet(S), NEW better
  PROVE  /\ Ordinal(Go!InOrder(S))
         /\ Ordinal(Go!Definitions(t, S))
         /\ Ordinal(Go!ReferencesAmong(t, S, better))
<1>1. ASSUME NEW T, IsFiniteSet(T) PROVE Go!Cardinality(T) \in Nat
  BY <1>1, FS_CardinalityType DEF Go!Cardinality, Cardinality, Go!IsFiniteSet, IsFiniteSet
<1>2. DOMAIN Go!InOrder(S) = 1 .. Go!Cardinality(S)
  BY DEF Go!InOrder, Go!Sorted
<1>3. DOMAIN Go!Definitions(t, S) = 1 .. Go!Cardinality(S)
  BY DEF Go!Definitions, Go!Sorted
<1>4. \E T : IsFiniteSet(T) /\ DOMAIN Go!ReferencesAmong(t, S, better) = 1 .. Go!Cardinality(T)
  <2> DEFINE best == { c \in S : ~ \E d \in S : Go!Span(t, d.name) = Go!Span(t, c.name) /\ <<d, c>> \in better }
             T == { Go!Span(t, c.name) : c \in best }
             f == [c \in S |-> Go!Span(t, c.name)]
  <2>1. T \subseteq { f[c] : c \in S }
    OBVIOUS
  <2>2. IsFiniteSet(T)
    <3> HIDE DEF T, f
    <3> QED  BY <2>1, FiniteImage
  <2>3. DOMAIN Go!ReferencesAmong(t, S, better) = 1 .. Go!Cardinality(T)
    BY DEF Go!ReferencesAmong, Go!Sorted
  <2> QED  BY <2>2, <2>3
<1> QED  BY <1>1, <1>2, <1>3, <1>4 DEF Ordinal

(* A step of Go's later passes leaves scopes and tree alone.              *)
LEMMA GoSteps ==
  ASSUME NEW k, NEW a, NEW c, Kept(k, a)
  PROVE  Kept(k, GoImport(a, c)) /\ Kept(k, GoDefine(a, c)) /\ Kept(k, GoRefer(a, c))
<1>1. Kept(k, Go!importSpec(a, c))
  BY DEF Kept, Go!importSpec, Go!addOccurrence, Go!Added, Go!AddedIn
<1>2. Kept(k, Go!Claim(a, c.name))
  BY DEF Kept, Go!Claim
<1>3. ASSUME NEW x, Kept(k, x) PROVE Kept(k, Go!define(x, c))
  BY <1>3 DEF Kept, Go!define, Go!Defined, Go!AddedIn
<1>4. Kept(k, Go!refer(a, c))
  BY DEF Kept, Go!refer, Go!Referred, Go!AddedIn
<1> QED  BY <1>1, <1>2, <1>3, <1>4 DEF GoImport, GoDefine, GoRefer

(* So do the passes.                                                      *)
LEMMA GoPasses ==
  ASSUME NEW b, Kept(b, b), IsFiniteSet(DOMAIN b.tree)
  PROVE  /\ Kept(b, Go!collectImports(b))
         /\ Kept(b, Go!collectDefinitions(b))
         /\ Kept(b, Go!collectReferences(b))
<1>1. Kept(b, Go!collectImports(b))
  <2> DEFINE S == { n \in DOMAIN b.tree : b.tree[n].type = "import_spec" }
             s == Go!InOrder(S)
  <2>1. PICK n \in Nat : DOMAIN s = 1 .. n
    <3>1. IsFiniteSet(S)
      BY FS_Subset
    <3> QED  BY <3>1, GoOrders DEF Ordinal
  <2>2. Kept(b, b)
    BY Kept(b, b)
  <2> DEFINE r == [step |-> "GoImport", of |-> b]
             H(g) == [v \in SUBSET (1 .. n) |->
                       IF v = {} THEN b ELSE GoImport(g[v \ {Go!Max(v)}], s[Go!Max(v)])]
             fold == CHOOSE g : g = H(g)
  <2>3. Go!collectImports(b) = fold[1 .. n]
    BY <2>1 DEF Go!collectImports, GoImport, Go!FoldLeft, Go!MapThenFoldSet
  <2>4. (\A x, c : Taken(r, x, c) = GoImport(x, c)) /\ \A v : Go!Max(v) = Max(v)
    BY GoTaken
  <2>5. Keeps(r, b) /\ \A x, c : Keeps(r, x) => Keeps(r, Taken(r, x, c))
    BY <2>4, <2>2, GoSteps DEF Keeps
  <2> HIDE DEF r, s
  <2>6. ASSUME NEW g PROVE Layers(g, r, b, s, n) <=> g = H(g)
    <3>1. Values(H(g), g, r, b, s, n)
      BY <2>4 DEF Values
    <3> HIDE DEF H
    <3> QED  BY <3>1, LayersAre
  <2> HIDE DEF H
  <2>7. fold = H(fold)
    BY <2>6, FoldExists
  <2>8. Keeps(r, fold[1 .. n])
    BY <2>5, <2>6, <2>7, LayersKeep
  <2> QED  BY <2>3, <2>8 DEF Keeps, r

<1>2. Kept(b, Go!collectDefinitions(b))
  <2> DEFINE S == Go!Captures(b.tree)
             s == Go!Definitions(b.tree, S)
  <2>1. PICK n \in Nat : DOMAIN s = 1 .. n
    <3>1. IsFiniteSet(S)
      BY GoFound, FS_Subset
    <3> QED  BY <3>1, GoOrders DEF Ordinal
  <2> DEFINE r == [step |-> "GoDefine", of |-> b]
             H(g) == [v \in SUBSET (1 .. n) |->
                       IF v = {} THEN b ELSE GoDefine(g[v \ {Go!Max(v)}], s[Go!Max(v)])]
             fold == CHOOSE g : g = H(g)
  <2>2. Go!collectDefinitions(b) = fold[1 .. n]
    BY <2>1 DEF Go!collectDefinitions, Go!Define, GoDefine, Go!FoldLeft, Go!MapThenFoldSet
  <2>3. (\A x, c : Taken(r, x, c) = GoDefine(x, c)) /\ \A v : Go!Max(v) = Max(v)
    BY GoTaken
  <2>4. Keeps(r, b) /\ \A x, c : Keeps(r, x) => Keeps(r, Taken(r, x, c))
    BY <2>3, GoSteps DEF Keeps
  <2> HIDE DEF r, s
  <2>5. ASSUME NEW g PROVE Layers(g, r, b, s, n) <=> g = H(g)
    <3>1. Values(H(g), g, r, b, s, n)
      BY <2>3 DEF Values
    <3> HIDE DEF H
    <3> QED  BY <3>1, LayersAre
  <2> HIDE DEF H
  <2>6. fold = H(fold)
    BY <2>5, FoldExists
  <2>7. Keeps(r, fold[1 .. n])
    BY <2>4, <2>5, <2>6, LayersKeep
  <2> QED  BY <2>2, <2>7 DEF Keeps, r

<1>3. Kept(b, Go!collectReferences(b))
  <2> DEFINE cands == Go!Uses(b.tree)
             better == { p \in cands \X cands : Go!moreSpecific(p[1], p[2]) }
             s == Go!References(b, cands, better)
  <2>1. PICK n \in Nat : DOMAIN s = 1 .. n
    <3> DEFINE free == { c \in cands : Go!Span(b.tree, c.name) \notin b.claimed }
    <3>1. IsFiniteSet(free)
      BY GoFound, FS_Subset
    <3>2. s = Go!ReferencesAmong(b.tree, free, better)
      BY DEF Go!References
    <3> HIDE DEF free, better, s
    <3>3. Ordinal(Go!ReferencesAmong(b.tree, free, better))
      BY <3>1, GoOrders
    <3> QED  BY <3>2, <3>3 DEF Ordinal
  <2> DEFINE r == [step |-> "GoRefer", of |-> b]
             H(g) == [v \in SUBSET (1 .. n) |->
                       IF v = {} THEN b ELSE GoRefer(g[v \ {Go!Max(v)}], s[Go!Max(v)])]
             fold == CHOOSE g : g = H(g)
  <2>2. Go!collectReferences(b) = fold[1 .. n]
    BY <2>1 DEF Go!collectReferences, Go!Refer, GoRefer, Go!FoldLeft, Go!MapThenFoldSet
  <2>3. (\A x, c : Taken(r, x, c) = GoRefer(x, c)) /\ \A v : Go!Max(v) = Max(v)
    BY GoTaken
  <2>4. Keeps(r, b) /\ \A x, c : Keeps(r, x) => Keeps(r, Taken(r, x, c))
    BY <2>3, GoSteps DEF Keeps
  <2> HIDE DEF r, s
  <2>5. ASSUME NEW g PROVE Layers(g, r, b, s, n) <=> g = H(g)
    <3>1. Values(H(g), g, r, b, s, n)
      BY <2>3 DEF Values
    <3> HIDE DEF H
    <3> QED  BY <3>1, LayersAre
  <2> HIDE DEF H
  <2>6. fold = H(fold)
    BY <2>5, FoldExists
  <2>7. Keeps(r, fold[1 .. n])
    BY <2>4, <2>5, <2>6, LayersKeep
  <2> QED  BY <2>2, <2>7 DEF Keeps, r
<1> QED  BY <1>1, <1>2, <1>3

-----------------------------------------------------------------------------
(* TypeScript. *)
(* TypeScript matches its patterns the way the other languages do.        *)
LEMMA TsSame ==
  /\ \A t, P : Ts!Matches(t, P) = Matches(t, P) /\ Ts!Matches2(t, P) = Matches2(t, P)
  /\ \A t, types, as : Ts!Leaves(t, types, as) = Leaves(t, types, as)
<1>1. ASSUME NEW t, NEW P PROVE Ts!Matches(t, P) = Matches(t, P)
  BY DEF Matches, Ts!Matches, Kids, Ts!Kids, AnyField, Ts!AnyField
<1>2. ASSUME NEW t, NEW P PROVE Ts!Matches2(t, P) = Matches2(t, P)
  BY DEF Matches2, Ts!Matches2, AnyField, Ts!AnyField
<1> QED  BY <1>1, <1>2 DEF Leaves, Ts!Leaves

(* What TypeScript's queries capture is finite.                           *)
LEMMA TsFound ==
  ASSUME NEW t, IsFiniteSet(DOMAIN t)
  PROVE  IsFiniteSet(Ts!Captures(t)) /\ IsFiniteSet(Ts!Uses(t))
<1>1. Ts!Captures(t) \subseteq Nodes(t)
  BY TsSame, MatchesNodes, Matches2Nodes, LeavesNodes DEF Ts!Captures, Roles
<1>2. Ts!Uses(t) \subseteq Nodes(t)
  BY TsSame, MatchesNodes, Matches2Nodes, LeavesNodes DEF Ts!Uses, Roles
<1> QED  BY <1>1, <1>2, FiniteNodes, FS_Subset

(* What a pass of TypeScript goes through is numbered from 1.             *)
LEMMA TsOrders ==
  ASSUME NEW t, NEW S, IsFiniteSet(S), NEW better
  PROVE  /\ Ordinal(Ts!InOrder(S))
         /\ Ordinal(Ts!Definitions(t, S))
         /\ Ordinal(Ts!ReferencesAmong(t, S, better))
<1>1. ASSUME NEW T, IsFiniteSet(T) PROVE Ts!Cardinality(T) \in Nat
  BY <1>1, FS_CardinalityType DEF Ts!Cardinality, Cardinality, Ts!IsFiniteSet, IsFiniteSet
<1>2. DOMAIN Ts!InOrder(S) = 1 .. Ts!Cardinality(S)
  BY DEF Ts!InOrder, Ts!Sorted
<1>3. DOMAIN Ts!Definitions(t, S) = 1 .. Ts!Cardinality(S)
  BY DEF Ts!Definitions, Ts!Sorted
<1>4. \E T : IsFiniteSet(T) /\ DOMAIN Ts!ReferencesAmong(t, S, better) = 1 .. Ts!Cardinality(T)
  <2> DEFINE best == { c \in S : ~ \E d \in S : Ts!Span(t, d.name) = Ts!Span(t, c.name) /\ <<d, c>> \in better }
             T == { Ts!Span(t, c.name) : c \in best }
             f == [c \in S |-> Ts!Span(t, c.name)]
  <2>1. T \subseteq { f[c] : c \in S }
    OBVIOUS
  <2>2. IsFiniteSet(T)
    <3> HIDE DEF T, f
    <3> QED  BY <2>1, FiniteImage
  <2>3. DOMAIN Ts!ReferencesAmong(t, S, better) = 1 .. Ts!Cardinality(T)
    BY DEF Ts!ReferencesAmong, Ts!Sorted
  <2> QED  BY <2>2, <2>3
<1> QED  BY <1>1, <1>2, <1>3, <1>4 DEF Ordinal

(* A step of TypeScript's later passes leaves scopes and tree alone.      *)
LEMMA TsSteps ==
  ASSUME NEW k, NEW a, NEW c, Kept(k, a)
  PROVE  Kept(k, TsImport(a, c)) /\ Kept(k, TsDefine(a, c)) /\ Kept(k, TsRefer(a, c))
<1>1. Kept(k, Ts!importStatement(a, c))
  BY DEF Kept, Ts!importStatement, Ts!bindClause, Ts!addOccurrence, Ts!Added, Ts!AddedIn
<1>2. Kept(k, Ts!Claim(a, c.name))
  BY DEF Kept, Ts!Claim
<1>3. ASSUME NEW x, Kept(k, x) PROVE Kept(k, Ts!define(x, c))
  BY <1>3 DEF Kept, Ts!define, Ts!Defined, Ts!AddedIn
<1>4. Kept(k, Ts!refer(a, c))
  BY DEF Kept, Ts!refer, Ts!Referred, Ts!AddedIn
<1> QED  BY <1>1, <1>2, <1>3, <1>4 DEF TsImport, TsDefine, TsRefer

(* So does what TypeScript defines before any of them.                    *)
LEMMA TsStarts ==
  ASSUME NEW b, Kept(b, b)
  PROVE  Kept(b, Ts!collectModule(b))
BY DEF Kept, Ts!collectModule, Ts!PackageDefined, Ts!AddedIn

(* So do the passes.                                                      *)
LEMMA TsPasses ==
  ASSUME NEW b, Kept(b, b), IsFiniteSet(DOMAIN b.tree)
  PROVE  /\ Kept(b, Ts!collectImports(b))
         /\ Kept(b, Ts!collectDefinitions(b))
         /\ Kept(b, Ts!collectReferences(b))
<1>1. Kept(b, Ts!collectImports(b))
  <2> DEFINE S == { n \in DOMAIN b.tree : b.tree[n].type = "import_statement" }
             s == Ts!InOrder(S)
  <2>1. PICK n \in Nat : DOMAIN s = 1 .. n
    <3>1. IsFiniteSet(S)
      BY FS_Subset
    <3> QED  BY <3>1, TsOrders DEF Ordinal
  <2>2. Kept(b, Ts!collectModule(b))
    BY TsStarts
  <2> DEFINE r == [step |-> "TsImport", of |-> b]
             H(g) == [v \in SUBSET (1 .. n) |->
                       IF v = {} THEN Ts!collectModule(b) ELSE TsImport(g[v \ {Ts!Max(v)}], s[Ts!Max(v)])]
             fold == CHOOSE g : g = H(g)
  <2>3. Ts!collectImports(b) = fold[1 .. n]
    BY <2>1 DEF Ts!collectImports, TsImport, Ts!FoldLeft, Ts!MapThenFoldSet
  <2>4. (\A x, c : Taken(r, x, c) = TsImport(x, c)) /\ \A v : Ts!Max(v) = Max(v)
    BY TsTaken
  <2>5. Keeps(r, Ts!collectModule(b)) /\ \A x, c : Keeps(r, x) => Keeps(r, Taken(r, x, c))
    BY <2>4, <2>2, TsSteps DEF Keeps
  <2> HIDE DEF r, s
  <2>6. ASSUME NEW g PROVE Layers(g, r, Ts!collectModule(b), s, n) <=> g = H(g)
    <3>1. Values(H(g), g, r, Ts!collectModule(b), s, n)
      BY <2>4 DEF Values
    <3> HIDE DEF H
    <3> QED  BY <3>1, LayersAre
  <2> HIDE DEF H
  <2>7. fold = H(fold)
    BY <2>6, FoldExists
  <2>8. Keeps(r, fold[1 .. n])
    BY <2>5, <2>6, <2>7, LayersKeep
  <2> QED  BY <2>3, <2>8 DEF Keeps, r

<1>2. Kept(b, Ts!collectDefinitions(b))
  <2> DEFINE S == Ts!Captures(b.tree)
             s == Ts!Definitions(b.tree, S)
  <2>1. PICK n \in Nat : DOMAIN s = 1 .. n
    <3>1. IsFiniteSet(S)
      BY TsFound, FS_Subset
    <3> QED  BY <3>1, TsOrders DEF Ordinal
  <2> DEFINE r == [step |-> "TsDefine", of |-> b]
             H(g) == [v \in SUBSET (1 .. n) |->
                       IF v = {} THEN b ELSE TsDefine(g[v \ {Ts!Max(v)}], s[Ts!Max(v)])]
             fold == CHOOSE g : g = H(g)
  <2>2. Ts!collectDefinitions(b) = fold[1 .. n]
    BY <2>1 DEF Ts!collectDefinitions, Ts!Define, TsDefine, Ts!FoldLeft, Ts!MapThenFoldSet
  <2>3. (\A x, c : Taken(r, x, c) = TsDefine(x, c)) /\ \A v : Ts!Max(v) = Max(v)
    BY TsTaken
  <2>4. Keeps(r, b) /\ \A x, c : Keeps(r, x) => Keeps(r, Taken(r, x, c))
    BY <2>3, TsSteps DEF Keeps
  <2> HIDE DEF r, s
  <2>5. ASSUME NEW g PROVE Layers(g, r, b, s, n) <=> g = H(g)
    <3>1. Values(H(g), g, r, b, s, n)
      BY <2>3 DEF Values
    <3> HIDE DEF H
    <3> QED  BY <3>1, LayersAre
  <2> HIDE DEF H
  <2>6. fold = H(fold)
    BY <2>5, FoldExists
  <2>7. Keeps(r, fold[1 .. n])
    BY <2>4, <2>5, <2>6, LayersKeep
  <2> QED  BY <2>2, <2>7 DEF Keeps, r

<1>3. Kept(b, Ts!collectReferences(b))
  <2> DEFINE cands == Ts!Uses(b.tree)
             better == { p \in cands \X cands : Ts!moreSpecific(p[1], p[2]) }
             s == Ts!References(b, cands, better)
  <2>1. PICK n \in Nat : DOMAIN s = 1 .. n
    <3> DEFINE free == { c \in cands : Ts!Span(b.tree, c.name) \notin b.claimed }
    <3>1. IsFiniteSet(free)
      BY TsFound, FS_Subset
    <3>2. s = Ts!ReferencesAmong(b.tree, free, better)
      BY DEF Ts!References
    <3> HIDE DEF free, better, s
    <3>3. Ordinal(Ts!ReferencesAmong(b.tree, free, better))
      BY <3>1, TsOrders
    <3> QED  BY <3>2, <3>3 DEF Ordinal
  <2> DEFINE r == [step |-> "TsRefer", of |-> b]
             H(g) == [v \in SUBSET (1 .. n) |->
                       IF v = {} THEN b ELSE TsRefer(g[v \ {Ts!Max(v)}], s[Ts!Max(v)])]
             fold == CHOOSE g : g = H(g)
  <2>2. Ts!collectReferences(b) = fold[1 .. n]
    BY <2>1 DEF Ts!collectReferences, Ts!Refer, TsRefer, Ts!FoldLeft, Ts!MapThenFoldSet
  <2>3. (\A x, c : Taken(r, x, c) = TsRefer(x, c)) /\ \A v : Ts!Max(v) = Max(v)
    BY TsTaken
  <2>4. Keeps(r, b) /\ \A x, c : Keeps(r, x) => Keeps(r, Taken(r, x, c))
    BY <2>3, TsSteps DEF Keeps
  <2> HIDE DEF r, s
  <2>5. ASSUME NEW g PROVE Layers(g, r, b, s, n) <=> g = H(g)
    <3>1. Values(H(g), g, r, b, s, n)
      BY <2>3 DEF Values
    <3> HIDE DEF H
    <3> QED  BY <3>1, LayersAre
  <2> HIDE DEF H
  <2>6. fold = H(fold)
    BY <2>5, FoldExists
  <2>7. Keeps(r, fold[1 .. n])
    BY <2>4, <2>5, <2>6, LayersKeep
  <2> QED  BY <2>2, <2>7 DEF Keeps, r
<1> QED  BY <1>1, <1>2, <1>3

-----------------------------------------------------------------------------
(* Python. *)
(* Python matches its patterns the way the other languages do.            *)
LEMMA PySame ==
  /\ \A t, P : Py!Matches(t, P) = Matches(t, P) /\ Py!Matches2(t, P) = Matches2(t, P)
  /\ \A t, types, as : Py!Leaves(t, types, as) = Leaves(t, types, as)
<1>1. ASSUME NEW t, NEW P PROVE Py!Matches(t, P) = Matches(t, P)
  BY DEF Matches, Py!Matches, Kids, Py!Kids, AnyField, Py!AnyField
<1>2. ASSUME NEW t, NEW P PROVE Py!Matches2(t, P) = Matches2(t, P)
  BY DEF Matches2, Py!Matches2, AnyField, Py!AnyField
<1> QED  BY <1>1, <1>2 DEF Leaves, Py!Leaves

(* What Python's queries capture is finite.                               *)
LEMMA PyFound ==
  ASSUME NEW t, IsFiniteSet(DOMAIN t)
  PROVE  IsFiniteSet(Py!Captures(t)) /\ IsFiniteSet(Py!Uses(t))
<1>1. Py!Captures(t) \subseteq Nodes(t)
  BY PySame, MatchesNodes, Matches2Nodes, LeavesNodes DEF Py!Captures, Roles
<1>2. Py!Uses(t) \subseteq Nodes(t)
  BY PySame, MatchesNodes, Matches2Nodes, LeavesNodes DEF Py!Uses, Roles
<1> QED  BY <1>1, <1>2, FiniteNodes, FS_Subset

(* What a pass of Python goes through is numbered from 1.                 *)
LEMMA PyOrders ==
  ASSUME NEW t, NEW S, IsFiniteSet(S), NEW better
  PROVE  /\ Ordinal(Py!InOrder(S))
         /\ Ordinal(Py!Definitions(t, S))
         /\ Ordinal(Py!ReferencesAmong(t, S, better))
<1>1. ASSUME NEW T, IsFiniteSet(T) PROVE Py!Cardinality(T) \in Nat
  BY <1>1, FS_CardinalityType DEF Py!Cardinality, Cardinality, Py!IsFiniteSet, IsFiniteSet
<1>2. DOMAIN Py!InOrder(S) = 1 .. Py!Cardinality(S)
  BY DEF Py!InOrder, Py!Sorted
<1>3. DOMAIN Py!Definitions(t, S) = 1 .. Py!Cardinality(S)
  BY DEF Py!Definitions, Py!Sorted
<1>4. \E T : IsFiniteSet(T) /\ DOMAIN Py!ReferencesAmong(t, S, better) = 1 .. Py!Cardinality(T)
  <2> DEFINE best == { c \in S : ~ \E d \in S : Py!Span(t, d.name) = Py!Span(t, c.name) /\ <<d, c>> \in better }
             T == { Py!Span(t, c.name) : c \in best }
             f == [c \in S |-> Py!Span(t, c.name)]
  <2>1. T \subseteq { f[c] : c \in S }
    OBVIOUS
  <2>2. IsFiniteSet(T)
    <3> HIDE DEF T, f
    <3> QED  BY <2>1, FiniteImage
  <2>3. DOMAIN Py!ReferencesAmong(t, S, better) = 1 .. Py!Cardinality(T)
    BY DEF Py!ReferencesAmong, Py!Sorted
  <2> QED  BY <2>2, <2>3
<1> QED  BY <1>1, <1>2, <1>3, <1>4 DEF Ordinal

(* A step of Python's later passes leaves scopes and tree alone.          *)
LEMMA PySteps ==
  ASSUME NEW k, NEW a, NEW c, Kept(k, a)
  PROVE  Kept(k, PyImport(a, c)) /\ Kept(k, PyDefine(a, c)) /\ Kept(k, PyRefer(a, c))
<1>1. Kept(k, Py!importStep(a, c))
  BY DEF Kept, Py!importStep, Py!fromImport, Py!plainImport, Py!addOccurrence, Py!Added, Py!AddedIn
<1>2. Kept(k, Py!Claim(a, c.name))
  BY DEF Kept, Py!Claim
<1>3. ASSUME NEW x, Kept(k, x) PROVE Kept(k, Py!define(x, c))
  BY <1>3 DEF Kept, Py!define, Py!Defined, Py!AddedIn
<1>4. Kept(k, Py!refer(a, c))
  BY DEF Kept, Py!refer, Py!Referred, Py!AddedIn
<1> QED  BY <1>1, <1>2, <1>3, <1>4 DEF PyImport, PyDefine, PyRefer

(* So does what Python defines before any of them.                        *)
LEMMA PyStarts ==
  ASSUME NEW b, Kept(b, b)
  PROVE  Kept(b, Py!collectModule(b))
BY DEF Kept, Py!collectModule, Py!PackageDefined, Py!AddedIn

(* So do the passes.                                                      *)
LEMMA PyPasses ==
  ASSUME NEW b, Kept(b, b), IsFiniteSet(DOMAIN b.tree)
  PROVE  /\ Kept(b, Py!collectImports(b))
         /\ Kept(b, Py!collectDefinitions(b))
         /\ Kept(b, Py!collectReferences(b))
<1>1. Kept(b, Py!collectImports(b))
  <2> DEFINE S == { n \in DOMAIN b.tree : \/ b.tree[n].type = "import_from_statement"
                                          \/ Py!Type(b.tree, b.tree[n].parent) = "import_statement" /\ b.tree[n].field = "name" }
             s == Py!InOrder(S)
  <2>1. PICK n \in Nat : DOMAIN s = 1 .. n
    <3>1. IsFiniteSet(S)
      BY FS_Subset
    <3> QED  BY <3>1, PyOrders DEF Ordinal
  <2>2. Kept(b, Py!collectModule(b))
    BY PyStarts
  <2> DEFINE r == [step |-> "PyImport", of |-> b]
             H(g) == [v \in SUBSET (1 .. n) |->
                       IF v = {} THEN Py!collectModule(b) ELSE PyImport(g[v \ {Py!Max(v)}], s[Py!Max(v)])]
             fold == CHOOSE g : g = H(g)
  <2>3. Py!collectImports(b) = fold[1 .. n]
    BY <2>1 DEF Py!collectImports, PyImport, Py!FoldLeft, Py!MapThenFoldSet
  <2>4. (\A x, c : Taken(r, x, c) = PyImport(x, c)) /\ \A v : Py!Max(v) = Max(v)
    BY PyTaken
  <2>5. Keeps(r, Py!collectModule(b)) /\ \A x, c : Keeps(r, x) => Keeps(r, Taken(r, x, c))
    BY <2>4, <2>2, PySteps DEF Keeps
  <2> HIDE DEF r, s
  <2>6. ASSUME NEW g PROVE Layers(g, r, Py!collectModule(b), s, n) <=> g = H(g)
    <3>1. Values(H(g), g, r, Py!collectModule(b), s, n)
      BY <2>4 DEF Values
    <3> HIDE DEF H
    <3> QED  BY <3>1, LayersAre
  <2> HIDE DEF H
  <2>7. fold = H(fold)
    BY <2>6, FoldExists
  <2>8. Keeps(r, fold[1 .. n])
    BY <2>5, <2>6, <2>7, LayersKeep
  <2> QED  BY <2>3, <2>8 DEF Keeps, r

<1>2. Kept(b, Py!collectDefinitions(b))
  <2> DEFINE S == { c \in Py!Captures(b.tree) : Py!isAttributeAssignment(b.tree, c.node)
                                                => Py!assignsThroughReceiver(b.tree, c.node) }
             s == Py!Definitions(b.tree, S)
  <2>1. PICK n \in Nat : DOMAIN s = 1 .. n
    <3>1. IsFiniteSet(S)
      BY PyFound, FS_Subset
    <3> QED  BY <3>1, PyOrders DEF Ordinal
  <2> DEFINE r == [step |-> "PyDefine", of |-> b]
             H(g) == [v \in SUBSET (1 .. n) |->
                       IF v = {} THEN b ELSE PyDefine(g[v \ {Py!Max(v)}], s[Py!Max(v)])]
             fold == CHOOSE g : g = H(g)
  <2>2. Py!collectDefinitions(b) = fold[1 .. n]
    BY <2>1 DEF Py!collectDefinitions, Py!Define, PyDefine, Py!FoldLeft, Py!MapThenFoldSet
  <2>3. (\A x, c : Taken(r, x, c) = PyDefine(x, c)) /\ \A v : Py!Max(v) = Max(v)
    BY PyTaken
  <2>4. Keeps(r, b) /\ \A x, c : Keeps(r, x) => Keeps(r, Taken(r, x, c))
    BY <2>3, PySteps DEF Keeps
  <2> HIDE DEF r, s
  <2>5. ASSUME NEW g PROVE Layers(g, r, b, s, n) <=> g = H(g)
    <3>1. Values(H(g), g, r, b, s, n)
      BY <2>3 DEF Values
    <3> HIDE DEF H
    <3> QED  BY <3>1, LayersAre
  <2> HIDE DEF H
  <2>6. fold = H(fold)
    BY <2>5, FoldExists
  <2>7. Keeps(r, fold[1 .. n])
    BY <2>4, <2>5, <2>6, LayersKeep
  <2> QED  BY <2>2, <2>7 DEF Keeps, r

<1>3. Kept(b, Py!collectReferences(b))
  <2> DEFINE cands == Py!Uses(b.tree)
             better == { p \in cands \X cands : Py!moreSpecific(p[1], p[2]) }
             s == Py!References(b, cands, better)
  <2>1. PICK n \in Nat : DOMAIN s = 1 .. n
    <3> DEFINE free == { c \in cands : Py!Span(b.tree, c.name) \notin b.claimed }
    <3>1. IsFiniteSet(free)
      BY PyFound, FS_Subset
    <3>2. s = Py!ReferencesAmong(b.tree, free, better)
      BY DEF Py!References
    <3> HIDE DEF free, better, s
    <3>3. Ordinal(Py!ReferencesAmong(b.tree, free, better))
      BY <3>1, PyOrders
    <3> QED  BY <3>2, <3>3 DEF Ordinal
  <2> DEFINE r == [step |-> "PyRefer", of |-> b]
             H(g) == [v \in SUBSET (1 .. n) |->
                       IF v = {} THEN b ELSE PyRefer(g[v \ {Py!Max(v)}], s[Py!Max(v)])]
             fold == CHOOSE g : g = H(g)
  <2>2. Py!collectReferences(b) = fold[1 .. n]
    BY <2>1 DEF Py!collectReferences, Py!Refer, PyRefer, Py!FoldLeft, Py!MapThenFoldSet
  <2>3. (\A x, c : Taken(r, x, c) = PyRefer(x, c)) /\ \A v : Py!Max(v) = Max(v)
    BY PyTaken
  <2>4. Keeps(r, b) /\ \A x, c : Keeps(r, x) => Keeps(r, Taken(r, x, c))
    BY <2>3, PySteps DEF Keeps
  <2> HIDE DEF r, s
  <2>5. ASSUME NEW g PROVE Layers(g, r, b, s, n) <=> g = H(g)
    <3>1. Values(H(g), g, r, b, s, n)
      BY <2>3 DEF Values
    <3> HIDE DEF H
    <3> QED  BY <3>1, LayersAre
  <2> HIDE DEF H
  <2>6. fold = H(fold)
    BY <2>5, FoldExists
  <2>7. Keeps(r, fold[1 .. n])
    BY <2>4, <2>5, <2>6, LayersKeep
  <2> QED  BY <2>2, <2>7 DEF Keeps, r
<1> QED  BY <1>1, <1>2, <1>3

-----------------------------------------------------------------------------
(* Java. *)
(* Java matches its patterns the way the other languages do.              *)
LEMMA JavaSame ==
  /\ \A t, P : Java!Matches(t, P) = Matches(t, P) /\ Java!Matches2(t, P) = Matches2(t, P)
  /\ \A t, types, as : Java!Leaves(t, types, as) = Leaves(t, types, as)
<1>1. ASSUME NEW t, NEW P PROVE Java!Matches(t, P) = Matches(t, P)
  BY DEF Matches, Java!Matches, Kids, Java!Kids, AnyField, Java!AnyField
<1>2. ASSUME NEW t, NEW P PROVE Java!Matches2(t, P) = Matches2(t, P)
  BY DEF Matches2, Java!Matches2, AnyField, Java!AnyField
<1> QED  BY <1>1, <1>2 DEF Leaves, Java!Leaves

(* What Java's queries capture is finite.                                 *)
LEMMA JavaFound ==
  ASSUME NEW t, IsFiniteSet(DOMAIN t)
  PROVE  IsFiniteSet(Java!Captures(t)) /\ IsFiniteSet(Java!Uses(t))
<1> DEFINE plain == Java!Uses(t) \cap Nodes(t)
           whole == Leaves(t, {"scoped_type_identifier"}, "type")
           f == [c \in whole |-> [c EXCEPT !.name = Java!OrNode(Java!LastNamed(t, c.node), c.node)]]
           named == { f[c] : c \in whole }
<1>1. Java!Captures(t) \subseteq Nodes(t)
  BY JavaSame, MatchesNodes, Matches2Nodes DEF Java!Captures, Roles
<1>2. "type" \in Roles
  BY DEF Roles
<1>3. IsFiniteSet(whole) /\ IsFiniteSet(plain)
  BY <1>2, LeavesNodes, FiniteNodes, FS_Subset
<1>4. IsFiniteSet(named)
  <2> HIDE DEF whole, f
  <2> QED  BY <1>3, FiniteImage
<1>5. Java!Uses(t) \subseteq plain \cup named
  <2>1. \A x \in Java!Uses(t) : x \in Nodes(t) \/ \E c \in whole : x = f[c]
    BY JavaSame, MatchesNodes, LeavesNodes DEF Java!Uses, Roles
  <2> HIDE DEF whole, f
  <2> QED  BY <2>1
<1> HIDE DEF plain, named
<1> QED  BY <1>1, <1>3, <1>4, <1>5, FiniteNodes, FS_Subset, FS_Union

(* What a pass of Java goes through is numbered from 1.                   *)
LEMMA JavaOrders ==
  ASSUME NEW t, NEW S, IsFiniteSet(S), NEW better
  PROVE  /\ Ordinal(Java!InOrder(S))
         /\ Ordinal(Java!Definitions(t, S))
         /\ Ordinal(Java!ReferencesAmong(t, S, better))
<1>1. ASSUME NEW T, IsFiniteSet(T) PROVE Java!Cardinality(T) \in Nat
  BY <1>1, FS_CardinalityType DEF Java!Cardinality, Cardinality, Java!IsFiniteSet, IsFiniteSet
<1>2. DOMAIN Java!InOrder(S) = 1 .. Java!Cardinality(S)
  BY DEF Java!InOrder, Java!Sorted
<1>3. DOMAIN Java!Definitions(t, S) = 1 .. Java!Cardinality(S)
  BY DEF Java!Definitions, Java!Sorted
<1>4. \E T : IsFiniteSet(T) /\ DOMAIN Java!ReferencesAmong(t, S, better) = 1 .. Java!Cardinality(T)
  <2> DEFINE best == { c \in S : ~ \E d \in S : Java!Span(t, d.name) = Java!Span(t, c.name) /\ <<d, c>> \in better }
             T == { Java!Span(t, c.name) : c \in best }
             f == [c \in S |-> Java!Span(t, c.name)]
  <2>1. T \subseteq { f[c] : c \in S }
    OBVIOUS
  <2>2. IsFiniteSet(T)
    <3> HIDE DEF T, f
    <3> QED  BY <2>1, FiniteImage
  <2>3. DOMAIN Java!ReferencesAmong(t, S, better) = 1 .. Java!Cardinality(T)
    BY DEF Java!ReferencesAmong, Java!Sorted
  <2> QED  BY <2>2, <2>3
<1> QED  BY <1>1, <1>2, <1>3, <1>4 DEF Ordinal

(* A step of Java's later passes leaves scopes and tree alone.            *)
LEMMA JavaSteps ==
  ASSUME NEW k, NEW a, NEW c, Kept(k, a)
  PROVE  Kept(k, JavaImport(a, c)) /\ Kept(k, JavaDefine(a, c)) /\ Kept(k, JavaRefer(a, c))
<1>1. Kept(k, Java!importDeclaration(a, c))
  <2>1. ASSUME NEW x, Kept(k, x), NEW segs, NEW pkg PROVE Kept(k, Java!importsPackage(x, segs, pkg))
    BY <2>1 DEF Kept, Java!importsPackage, Java!addOccurrence, Java!Added, Java!AddedIn
  <2>2. ASSUME NEW x, Kept(k, x), NEW segs, NEW path, NEW wildcard, NEW target
        PROVE  Kept(k, Java!importsType(x, segs, path, wildcard, target))
    BY <2>2 DEF Kept, Java!importsType, Java!addOccurrence, Java!Added, Java!AddedIn
  <2>3. ASSUME NEW x, Kept(k, x), NEW segs, NEW path, NEW wildcard
        PROVE  Kept(k, Java!importPath(x, segs, path, wildcard))
    BY <2>1, <2>2, <2>3 DEF Java!importPath
  <2>4. \A node : Kept(k, Java!claimSubtree(a, node))
    BY DEF Kept, Java!claimSubtree, Java!ClaimSubtree
  <2> QED  BY <2>3, <2>4 DEF Java!importDeclaration
<1>2. Kept(k, Java!Claim(a, c.name))
  BY DEF Kept, Java!Claim
<1>3. ASSUME NEW x, Kept(k, x) PROVE Kept(k, Java!define(x, c))
  BY <1>3 DEF Kept, Java!define, Java!Defined, Java!AddedIn
<1>4. Kept(k, Java!refer(a, c))
  BY DEF Kept, Java!refer, Java!Referred, Java!AddedIn
<1> QED  BY <1>1, <1>2, <1>3, <1>4 DEF JavaImport, JavaDefine, JavaRefer

(* So does what Java defines before any of them.                          *)
LEMMA JavaStarts ==
  ASSUME NEW b, Kept(b, b)
  PROVE  Kept(b, Java!collectPackage(b))
BY DEF Kept, Java!collectPackage, Java!claimSubtree, Java!ClaimSubtree, Java!PackageDefined, Java!AddedIn

(* So do the passes.                                                      *)
LEMMA JavaPasses ==
  ASSUME NEW b, Kept(b, b), IsFiniteSet(DOMAIN b.tree)
  PROVE  /\ Kept(b, Java!collectImports(b))
         /\ Kept(b, Java!collectDefinitions(b))
         /\ Kept(b, Java!collectReferences(b))
<1>1. Kept(b, Java!collectImports(b))
  <2> DEFINE S == { n \in DOMAIN b.tree : b.tree[n].type = "import_declaration" }
             s == Java!InOrder(S)
  <2>1. PICK n \in Nat : DOMAIN s = 1 .. n
    <3>1. IsFiniteSet(S)
      BY FS_Subset
    <3> QED  BY <3>1, JavaOrders DEF Ordinal
  <2>2. Kept(b, Java!collectPackage(b))
    BY JavaStarts
  <2> DEFINE r == [step |-> "JavaImport", of |-> b]
             H(g) == [v \in SUBSET (1 .. n) |->
                       IF v = {} THEN Java!collectPackage(b) ELSE JavaImport(g[v \ {Java!Max(v)}], s[Java!Max(v)])]
             fold == CHOOSE g : g = H(g)
  <2>3. Java!collectImports(b) = fold[1 .. n]
    BY <2>1 DEF Java!collectImports, JavaImport, Java!FoldLeft, Java!MapThenFoldSet
  <2>4. (\A x, c : Taken(r, x, c) = JavaImport(x, c)) /\ \A v : Java!Max(v) = Max(v)
    BY JavaTaken
  <2>5. Keeps(r, Java!collectPackage(b)) /\ \A x, c : Keeps(r, x) => Keeps(r, Taken(r, x, c))
    BY <2>4, <2>2, JavaSteps DEF Keeps
  <2> HIDE DEF r, s
  <2>6. ASSUME NEW g PROVE Layers(g, r, Java!collectPackage(b), s, n) <=> g = H(g)
    <3>1. Values(H(g), g, r, Java!collectPackage(b), s, n)
      BY <2>4 DEF Values
    <3> HIDE DEF H
    <3> QED  BY <3>1, LayersAre
  <2> HIDE DEF H
  <2>7. fold = H(fold)
    BY <2>6, FoldExists
  <2>8. Keeps(r, fold[1 .. n])
    BY <2>5, <2>6, <2>7, LayersKeep
  <2> QED  BY <2>3, <2>8 DEF Keeps, r

<1>2. Kept(b, Java!collectDefinitions(b))
  <2> DEFINE S == Java!Captures(b.tree)
             s == Java!Definitions(b.tree, S)
  <2>1. PICK n \in Nat : DOMAIN s = 1 .. n
    <3>1. IsFiniteSet(S)
      BY JavaFound, FS_Subset
    <3> QED  BY <3>1, JavaOrders DEF Ordinal
  <2> DEFINE r == [step |-> "JavaDefine", of |-> b]
             H(g) == [v \in SUBSET (1 .. n) |->
                       IF v = {} THEN b ELSE JavaDefine(g[v \ {Java!Max(v)}], s[Java!Max(v)])]
             fold == CHOOSE g : g = H(g)
  <2>2. Java!collectDefinitions(b) = fold[1 .. n]
    BY <2>1 DEF Java!collectDefinitions, Java!Define, JavaDefine, Java!FoldLeft, Java!MapThenFoldSet
  <2>3. (\A x, c : Taken(r, x, c) = JavaDefine(x, c)) /\ \A v : Java!Max(v) = Max(v)
    BY JavaTaken
  <2>4. Keeps(r, b) /\ \A x, c : Keeps(r, x) => Keeps(r, Taken(r, x, c))
    BY <2>3, JavaSteps DEF Keeps
  <2> HIDE DEF r, s
  <2>5. ASSUME NEW g PROVE Layers(g, r, b, s, n) <=> g = H(g)
    <3>1. Values(H(g), g, r, b, s, n)
      BY <2>3 DEF Values
    <3> HIDE DEF H
    <3> QED  BY <3>1, LayersAre
  <2> HIDE DEF H
  <2>6. fold = H(fold)
    BY <2>5, FoldExists
  <2>7. Keeps(r, fold[1 .. n])
    BY <2>4, <2>5, <2>6, LayersKeep
  <2> QED  BY <2>2, <2>7 DEF Keeps, r

<1>3. Kept(b, Java!collectReferences(b))
  <2> DEFINE cands == { r \in Java!Uses(b.tree) : ~(r.as = "type" /\ Java!Text(b.tree, r.name) = Java!varType) }
             better == { p \in cands \X cands : Java!moreSpecific(b.tree, p[1], p[2]) }
             s == Java!References(b, cands, better)
  <2>1. PICK n \in Nat : DOMAIN s = 1 .. n
    <3> DEFINE free == { c \in cands : Java!Span(b.tree, c.name) \notin b.claimed }
    <3>1. IsFiniteSet(free)
      BY JavaFound, FS_Subset
    <3>2. s = Java!ReferencesAmong(b.tree, free, better)
      BY DEF Java!References
    <3> HIDE DEF free, better, s
    <3>3. Ordinal(Java!ReferencesAmong(b.tree, free, better))
      BY <3>1, JavaOrders
    <3> QED  BY <3>2, <3>3 DEF Ordinal
  <2> DEFINE r == [step |-> "JavaRefer", of |-> b]
             H(g) == [v \in SUBSET (1 .. n) |->
                       IF v = {} THEN b ELSE JavaRefer(g[v \ {Java!Max(v)}], s[Java!Max(v)])]
             fold == CHOOSE g : g = H(g)
  <2>2. Java!collectReferences(b) = fold[1 .. n]
    BY <2>1 DEF Java!collectReferences, Java!Refer, JavaRefer, Java!FoldLeft, Java!MapThenFoldSet
  <2>3. (\A x, c : Taken(r, x, c) = JavaRefer(x, c)) /\ \A v : Java!Max(v) = Max(v)
    BY JavaTaken
  <2>4. Keeps(r, b) /\ \A x, c : Keeps(r, x) => Keeps(r, Taken(r, x, c))
    BY <2>3, JavaSteps DEF Keeps
  <2> HIDE DEF r, s
  <2>5. ASSUME NEW g PROVE Layers(g, r, b, s, n) <=> g = H(g)
    <3>1. Values(H(g), g, r, b, s, n)
      BY <2>3 DEF Values
    <3> HIDE DEF H
    <3> QED  BY <3>1, LayersAre
  <2> HIDE DEF H
  <2>6. fold = H(fold)
    BY <2>5, FoldExists
  <2>7. Keeps(r, fold[1 .. n])
    BY <2>4, <2>5, <2>6, LayersKeep
  <2> QED  BY <2>2, <2>7 DEF Keeps, r
<1> QED  BY <1>1, <1>2, <1>3

-----------------------------------------------------------------------------
(* Ruby. *)
(* Ruby matches its patterns the way the other languages do.              *)
LEMMA RbSame ==
  /\ \A t, P : Rb!Matches(t, P) = Matches(t, P) /\ Rb!Matches2(t, P) = Matches2(t, P)
  /\ \A t, types, as : Rb!Leaves(t, types, as) = Leaves(t, types, as)
<1>1. ASSUME NEW t, NEW P PROVE Rb!Matches(t, P) = Matches(t, P)
  BY DEF Matches, Rb!Matches, Kids, Rb!Kids, AnyField, Rb!AnyField
<1>2. ASSUME NEW t, NEW P PROVE Rb!Matches2(t, P) = Matches2(t, P)
  BY DEF Matches2, Rb!Matches2, AnyField, Rb!AnyField
<1> QED  BY <1>1, <1>2 DEF Leaves, Rb!Leaves

(* What Ruby's queries capture is finite.                                 *)
LEMMA RbFound ==
  ASSUME NEW t, IsFiniteSet(DOMAIN t)
  PROVE  IsFiniteSet(Rb!Captures(t)) /\ IsFiniteSet(Rb!Uses(t))
<1>1. Rb!Captures(t) \subseteq Nodes(t)
  BY RbSame, MatchesNodes, Matches2Nodes, LeavesNodes DEF Rb!Captures, Roles
<1>2. Rb!Uses(t) \subseteq Nodes(t)
  BY RbSame, MatchesNodes, Matches2Nodes, LeavesNodes DEF Rb!Uses, Roles
<1> QED  BY <1>1, <1>2, FiniteNodes, FS_Subset

(* What a pass of Ruby goes through is numbered from 1.                   *)
LEMMA RbOrders ==
  ASSUME NEW t, NEW S, IsFiniteSet(S), NEW better
  PROVE  /\ Ordinal(Rb!InOrder(S))
         /\ Ordinal(Rb!Definitions(t, S))
         /\ Ordinal(Rb!ReferencesAmong(t, S, better))
<1>1. ASSUME NEW T, IsFiniteSet(T) PROVE Rb!Cardinality(T) \in Nat
  BY <1>1, FS_CardinalityType DEF Rb!Cardinality, Cardinality, Rb!IsFiniteSet, IsFiniteSet
<1>2. DOMAIN Rb!InOrder(S) = 1 .. Rb!Cardinality(S)
  BY DEF Rb!InOrder, Rb!Sorted
<1>3. DOMAIN Rb!Definitions(t, S) = 1 .. Rb!Cardinality(S)
  BY DEF Rb!Definitions, Rb!Sorted
<1>4. \E T : IsFiniteSet(T) /\ DOMAIN Rb!ReferencesAmong(t, S, better) = 1 .. Rb!Cardinality(T)
  <2> DEFINE best == { c \in S : ~ \E d \in S : Rb!Span(t, d.name) = Rb!Span(t, c.name) /\ <<d, c>> \in better }
             T == { Rb!Span(t, c.name) : c \in best }
             f == [c \in S |-> Rb!Span(t, c.name)]
  <2>1. T \subseteq { f[c] : c \in S }
    OBVIOUS
  <2>2. IsFiniteSet(T)
    <3> HIDE DEF T, f
    <3> QED  BY <2>1, FiniteImage
  <2>3. DOMAIN Rb!ReferencesAmong(t, S, better) = 1 .. Rb!Cardinality(T)
    BY DEF Rb!ReferencesAmong, Rb!Sorted
  <2> QED  BY <2>2, <2>3
<1> QED  BY <1>1, <1>2, <1>3, <1>4 DEF Ordinal

(* The attr_* calls and the requires of a file are in order, by the text. *)
LEMMA RbDirectives ==
  ASSUME NEW t, IsFiniteSet(DOMAIN t), NEW S, S = Rb!attrs(t) \/ S = Rb!requires(t)
  PROVE  Ordinal(Rb!InTextOrder(S))
<1>1. ASSUME NEW methods, NEW given, given \subseteq DOMAIN t
      PROVE  Rb!Directives(t, methods, given) \subseteq Nodes(t)
  <2> SUFFICES ASSUME NEW x \in Rb!Directives(t, methods, given) PROVE x \in Nodes(t)
    OBVIOUS
  <2>1. PICK y \in (DOMAIN t) \X given : x = [as |-> "directive", node |-> y[1], name |-> y[2]]
    BY DEF Rb!Directives
  <2>2. y[1] \in DOMAIN t /\ y[2] \in DOMAIN t
    BY <1>1
  <2> QED  BY <2>1, <2>2 DEF Nodes, Roles
<1>2. S \subseteq Nodes(t)
  BY <1>1 DEF Rb!attrs, Rb!requires
<1>3. IsFiniteSet(S)
  BY <1>2, FiniteNodes, FS_Subset
<1>4. Rb!Cardinality(S) \in Nat
  BY <1>3, FS_CardinalityType DEF Rb!Cardinality, Cardinality, Rb!IsFiniteSet, IsFiniteSet
<1>5. DOMAIN Rb!InTextOrder(S) = 1 .. Rb!Cardinality(S)
  BY DEF Rb!InTextOrder, Rb!Sorted
<1> QED  BY <1>4, <1>5 DEF Ordinal

(* An attr_* call leaves scopes and tree alone.                           *)
LEMMA RbAttrKeeps ==
  ASSUME NEW k, NEW a, NEW c, Kept(k, a)
  PROVE  Kept(k, Rb!attr(a, c))
<1>1. ASSUME NEW x, Kept(k, x), NEW container, NEW name, NEW span
      PROVE  Kept(k, Rb!defineAttr(x, container, name, span))
  BY <1>1 DEF Kept, Rb!defineAttr, Rb!addOccurrence, Rb!Added, Rb!AddedIn
<1> QED  BY <1>1 DEF Rb!attr

(* So do all of a file's (collectAttrs).                                  *)
LEMMA RbAccessors ==
  ASSUME NEW k, NEW b, Kept(k, b), IsFiniteSet(DOMAIN b.tree)
  PROVE  Kept(k, Rb!collectAttrs(b))
<1> DEFINE s == Rb!InTextOrder(Rb!attrs(b.tree))
<1>1. PICK n \in Nat : DOMAIN s = 1 .. n
  BY RbDirectives DEF Ordinal
<1> DEFINE r == [step |-> "RbAttr", of |-> k]
           H(g) == [v \in SUBSET (1 .. n) |->
                     IF v = {} THEN b ELSE Rb!attr(g[v \ {Rb!Max(v)}], s[Rb!Max(v)])]
           fold == CHOOSE g : g = H(g)
<1>2. Rb!collectAttrs(b) = fold[1 .. n]
  BY <1>1 DEF Rb!collectAttrs, Rb!FoldLeft, Rb!MapThenFoldSet
<1>3. (\A x, c : Taken(r, x, c) = Rb!attr(x, c)) /\ \A v : Rb!Max(v) = Max(v)
  BY RbTaken
<1>4. Keeps(r, b) /\ \A x, c : Keeps(r, x) => Keeps(r, Taken(r, x, c))
  BY <1>3, RbAttrKeeps DEF Keeps
<1> HIDE DEF r, s
<1>5. ASSUME NEW g PROVE Layers(g, r, b, s, n) <=> g = H(g)
  <2>1. Values(H(g), g, r, b, s, n)
    BY <1>3 DEF Values
  <2> HIDE DEF H
  <2> QED  BY <2>1, LayersAre
<1> HIDE DEF H
<1>6. fold = H(fold)
  BY <1>5, FoldExists
<1>7. Keeps(r, fold[1 .. n])
  BY <1>4, <1>5, <1>6, LayersKeep
<1> QED  BY <1>2, <1>7 DEF Keeps, r

(* A step of Ruby's later passes leaves scopes and tree alone.            *)
LEMMA RbSteps ==
  ASSUME NEW k, NEW a, NEW c, Kept(k, a)
  PROVE  Kept(k, RbImport(a, c)) /\ Kept(k, RbDefine(a, c)) /\ Kept(k, RbRefer(a, c))
<1>1. Kept(k, Rb!require(a, c))
  BY DEF Kept, Rb!require, Rb!addOccurrence, Rb!Added, Rb!AddedIn
<1>2. Kept(k, Rb!Claim(a, c.name))
  BY DEF Kept, Rb!Claim
<1>3. ASSUME NEW x, Kept(k, x) PROVE Kept(k, Rb!define(x, c))
  <2>1. Kept(k, Rb!claimSubtree(x, c.name))
    BY <1>3 DEF Kept, Rb!claimSubtree
  <2>2. ASSUME NEW y, Kept(k, y), NEW desc, NEW kind, NEW name, NEW s, NEW scope, NEW type
        PROVE  Kept(k, Rb!Defined(y, desc, kind, name, s, scope, type))
    BY <2>2 DEF Kept, Rb!Defined, Rb!AddedIn
  <2>3. ASSUME NEW y, Kept(k, y), NEW f PROVE Kept(k, [y EXCEPT !.bindings = f])
    BY <2>3 DEF Kept
  <2> QED  BY <2>1, <2>2, <2>3 DEF Rb!define
<1>4. Kept(k, Rb!refer(a, c))
  BY DEF Kept, Rb!refer, Rb!Referred, Rb!AddedIn
<1> QED  BY <1>1, <1>2, <1>3, <1>4 DEF RbImport, RbDefine, RbRefer

(* So do the definitions the query captures.                              *)
LEMMA RbDefinedKeeps ==
  ASSUME NEW k, NEW b, Kept(k, b), IsFiniteSet(DOMAIN b.tree)
  PROVE  Kept(k, Rb!Define(b, Rb!Captures(b.tree), Rb!define))
<1> DEFINE S == Rb!Captures(b.tree)
           s == Rb!Definitions(b.tree, S)
<1>1. PICK n \in Nat : DOMAIN s = 1 .. n
  <2>1. IsFiniteSet(S)
    BY RbFound
  <2> HIDE DEF S
  <2> QED  BY <2>1, RbOrders DEF Ordinal
<1> DEFINE r == [step |-> "RbDefine", of |-> k]
           H(g) == [v \in SUBSET (1 .. n) |->
                     IF v = {} THEN b ELSE RbDefine(g[v \ {Rb!Max(v)}], s[Rb!Max(v)])]
           fold == CHOOSE g : g = H(g)
<1>2. Rb!Define(b, S, Rb!define) = fold[1 .. n]
  BY <1>1 DEF Rb!Define, RbDefine, Rb!FoldLeft, Rb!MapThenFoldSet
<1>3. (\A x, c : Taken(r, x, c) = RbDefine(x, c)) /\ \A v : Rb!Max(v) = Max(v)
  BY RbTaken
<1>4. Keeps(r, b) /\ \A x, c : Keeps(r, x) => Keeps(r, Taken(r, x, c))
  BY <1>3, RbSteps DEF Keeps
<1> HIDE DEF r, s
<1>5. ASSUME NEW g PROVE Layers(g, r, b, s, n) <=> g = H(g)
  <2>1. Values(H(g), g, r, b, s, n)
    BY <1>3 DEF Values
  <2> HIDE DEF H
  <2> QED  BY <2>1, LayersAre
<1> HIDE DEF H
<1>6. fold = H(fold)
  BY <1>5, FoldExists
<1>7. Keeps(r, fold[1 .. n])
  BY <1>4, <1>5, <1>6, LayersKeep
<1> QED  BY <1>2, <1>7 DEF Keeps, r

(* So do the passes.                                                      *)
LEMMA RbPasses ==
  ASSUME NEW b, Kept(b, b), IsFiniteSet(DOMAIN b.tree)
  PROVE  /\ Kept(b, Rb!collectImports(b))
         /\ Kept(b, Rb!collectDefinitions(b))
         /\ Kept(b, Rb!collectReferences(b))
<1>1. Kept(b, Rb!collectImports(b))
  <2> DEFINE S == Rb!requires(b.tree)
             s == Rb!InTextOrder(S)
  <2>1. PICK n \in Nat : DOMAIN s = 1 .. n
    BY RbDirectives DEF Ordinal
  <2>2. Kept(b, b)
    BY Kept(b, b)
  <2> DEFINE r == [step |-> "RbImport", of |-> b]
             H(g) == [v \in SUBSET (1 .. n) |->
                       IF v = {} THEN b ELSE RbImport(g[v \ {Rb!Max(v)}], s[Rb!Max(v)])]
             fold == CHOOSE g : g = H(g)
  <2>3. Rb!collectImports(b) = fold[1 .. n]
    BY <2>1 DEF Rb!collectImports, RbImport, Rb!FoldLeft, Rb!MapThenFoldSet
  <2>4. (\A x, c : Taken(r, x, c) = RbImport(x, c)) /\ \A v : Rb!Max(v) = Max(v)
    BY RbTaken
  <2>5. Keeps(r, b) /\ \A x, c : Keeps(r, x) => Keeps(r, Taken(r, x, c))
    BY <2>4, <2>2, RbSteps DEF Keeps
  <2> HIDE DEF r, s
  <2>6. ASSUME NEW g PROVE Layers(g, r, b, s, n) <=> g = H(g)
    <3>1. Values(H(g), g, r, b, s, n)
      BY <2>4 DEF Values
    <3> HIDE DEF H
    <3> QED  BY <3>1, LayersAre
  <2> HIDE DEF H
  <2>7. fold = H(fold)
    BY <2>6, FoldExists
  <2>8. Keeps(r, fold[1 .. n])
    BY <2>5, <2>6, <2>7, LayersKeep
  <2> QED  BY <2>3, <2>8 DEF Keeps, r

<1>2. Kept(b, Rb!collectDefinitions(b))
  <2> DEFINE u == Rb!collectUnit(b)
             d == Rb!Define(u, Rb!Captures(u.tree), Rb!define)
  <2>1. Kept(b, u) /\ IsFiniteSet(DOMAIN u.tree)
    BY DEF Kept, Rb!collectUnit, Rb!PackageDefined, Rb!AddedIn
  <2>2. Rb!collectDefinitions(b) = Rb!collectAttrs(d)
    BY <2>1 DEF Rb!collectDefinitions, Kept
  <2> HIDE DEF u
  <2>3. Kept(b, d)
    BY <2>1, RbDefinedKeeps
  <2> HIDE DEF d
  <2>4. IsFiniteSet(DOMAIN d.tree)
    BY <2>3 DEF Kept
  <2> QED  BY <2>2, <2>3, <2>4, RbAccessors

<1>3. Kept(b, Rb!collectReferences(b))
  <2> DEFINE cands == Rb!Uses(b.tree)
             better == { p \in cands \X cands : Rb!moreSpecific(b.tree, p[1], p[2]) }
             s == Rb!References(b, cands, better)
  <2>1. PICK n \in Nat : DOMAIN s = 1 .. n
    <3> DEFINE free == { c \in cands : Rb!Span(b.tree, c.name) \notin b.claimed }
    <3>1. IsFiniteSet(free)
      BY RbFound, FS_Subset
    <3>2. s = Rb!ReferencesAmong(b.tree, free, better)
      BY DEF Rb!References
    <3> HIDE DEF free, better, s
    <3>3. Ordinal(Rb!ReferencesAmong(b.tree, free, better))
      BY <3>1, RbOrders
    <3> QED  BY <3>2, <3>3 DEF Ordinal
  <2> DEFINE r == [step |-> "RbRefer", of |-> b]
             H(g) == [v \in SUBSET (1 .. n) |->
                       IF v = {} THEN b ELSE RbRefer(g[v \ {Rb!Max(v)}], s[Rb!Max(v)])]
             fold == CHOOSE g : g = H(g)
  <2>2. Rb!collectReferences(b) = fold[1 .. n]
    BY <2>1 DEF Rb!collectReferences, Rb!Refer, RbRefer, Rb!FoldLeft, Rb!MapThenFoldSet
  <2>3. (\A x, c : Taken(r, x, c) = RbRefer(x, c)) /\ \A v : Rb!Max(v) = Max(v)
    BY RbTaken
  <2>4. Keeps(r, b) /\ \A x, c : Keeps(r, x) => Keeps(r, Taken(r, x, c))
    BY <2>3, RbSteps DEF Keeps
  <2> HIDE DEF r, s
  <2>5. ASSUME NEW g PROVE Layers(g, r, b, s, n) <=> g = H(g)
    <3>1. Values(H(g), g, r, b, s, n)
      BY <2>3 DEF Values
    <3> HIDE DEF H
    <3> QED  BY <3>1, LayersAre
  <2> HIDE DEF H
  <2>6. fold = H(fold)
    BY <2>5, FoldExists
  <2>7. Keeps(r, fold[1 .. n])
    BY <2>4, <2>5, <2>6, LayersKeep
  <2> QED  BY <2>2, <2>7 DEF Keeps, r
<1> QED  BY <1>1, <1>2, <1>3

-----------------------------------------------------------------------------
(* Rust. *)
(* Rust matches its patterns the way the other languages do.              *)
LEMMA RsSame ==
  /\ \A t, P : Rs!Matches(t, P) = Matches(t, P) /\ Rs!Matches2(t, P) = Matches2(t, P)
  /\ \A t, types, as : Rs!Leaves(t, types, as) = Leaves(t, types, as)
<1>1. ASSUME NEW t, NEW P PROVE Rs!Matches(t, P) = Matches(t, P)
  BY DEF Matches, Rs!Matches, Kids, Rs!Kids, AnyField, Rs!AnyField
<1>2. ASSUME NEW t, NEW P PROVE Rs!Matches2(t, P) = Matches2(t, P)
  BY DEF Matches2, Rs!Matches2, AnyField, Rs!AnyField
<1> QED  BY <1>1, <1>2 DEF Leaves, Rs!Leaves

(* What Rust's queries capture is finite.                                 *)
LEMMA RsFound ==
  ASSUME NEW t, IsFiniteSet(DOMAIN t)
  PROVE  IsFiniteSet(Rs!Captures(t)) /\ IsFiniteSet(Rs!Uses(t))
<1>1. Rs!Captures(t) \subseteq Nodes(t)
  BY RsSame, MatchesNodes, Matches2Nodes, LeavesNodes DEF Rs!Captures, Roles
<1>2. Rs!Uses(t) \subseteq Nodes(t)
  BY RsSame, MatchesNodes, Matches2Nodes, LeavesNodes DEF Rs!Uses, Roles
<1> QED  BY <1>1, <1>2, FiniteNodes, FS_Subset

(* What a pass of Rust goes through is numbered from 1.                   *)
LEMMA RsOrders ==
  ASSUME NEW t, NEW S, IsFiniteSet(S), NEW better
  PROVE  /\ Ordinal(Rs!InOrder(S))
         /\ Ordinal(Rs!Definitions(t, S))
         /\ Ordinal(Rs!ReferencesAmong(t, S, better))
<1>1. ASSUME NEW T, IsFiniteSet(T) PROVE Rs!Cardinality(T) \in Nat
  BY <1>1, FS_CardinalityType DEF Rs!Cardinality, Cardinality, Rs!IsFiniteSet, IsFiniteSet
<1>2. DOMAIN Rs!InOrder(S) = 1 .. Rs!Cardinality(S)
  BY DEF Rs!InOrder, Rs!Sorted
<1>3. DOMAIN Rs!Definitions(t, S) = 1 .. Rs!Cardinality(S)
  BY DEF Rs!Definitions, Rs!Sorted
<1>4. \E T : IsFiniteSet(T) /\ DOMAIN Rs!ReferencesAmong(t, S, better) = 1 .. Rs!Cardinality(T)
  <2> DEFINE best == { c \in S : ~ \E d \in S : Rs!Span(t, d.name) = Rs!Span(t, c.name) /\ <<d, c>> \in better }
             T == { Rs!Span(t, c.name) : c \in best }
             f == [c \in S |-> Rs!Span(t, c.name)]
  <2>1. T \subseteq { f[c] : c \in S }
    OBVIOUS
  <2>2. IsFiniteSet(T)
    <3> HIDE DEF T, f
    <3> QED  BY <2>1, FiniteImage
  <2>3. DOMAIN Rs!ReferencesAmong(t, S, better) = 1 .. Rs!Cardinality(T)
    BY DEF Rs!ReferencesAmong, Rs!Sorted
  <2> QED  BY <2>2, <2>3
<1> QED  BY <1>1, <1>2, <1>3, <1>4 DEF Ordinal

(* A node of a use tree leaves scopes and tree alone.                     *)
LEMMA RsUseKeeps ==
  ASSUME NEW k, NEW u, NEW n, Kept(k, u.b)
  PROVE  Kept(k, Rs!useStep(u, n).b)
<1>1. ASSUME NEW b, Kept(k, b), NEW m, NEW mod PROVE Kept(k, Rs!emitModule(b, m, mod))
  BY <1>1 DEF Kept, Rs!emitModule, Rs!addOccurrence, Rs!Added, Rs!AddedIn
<1>2. ASSUME NEW b, Kept(k, b), NEW local, NEW orig, NEW mod PROVE Kept(k, Rs!bindUse(b, local, orig, mod))
  BY <1>2 DEF Kept, Rs!bindUse
<1>3. ASSUME NEW b, Kept(k, b), NEW f PROVE Kept(k, [b EXCEPT !.imports = f])
  BY <1>3 DEF Kept
<1>4. ASSUME NEW b, Kept(k, b), NEW m, NEW base PROVE Kept(k, Rs!useNode(b, m, base))
  BY <1>1, <1>2, <1>3, <1>4 DEF Rs!useNode
<1> QED  BY <1>4 DEF Rs!useStep

(* So does the whole use tree.                                            *)
LEMMA RsTreeKeeps ==
  ASSUME NEW k, NEW b, NEW node, Kept(k, b), IsFiniteSet(DOMAIN b.tree)
  PROVE  Kept(k, Rs!useTree(b, node))
<1> DEFINE u == [b |-> b, under |-> Rs!:>(node, Rs!NoTarget)]
           W == Rs!Within(b.tree, node)
           s == Rs!InOrder({node} \cup W)
<1>1. PICK n \in Nat : DOMAIN s = 1 .. n
  <2>1. W \subseteq DOMAIN b.tree
    BY DEF Rs!Within
  <2> HIDE DEF W
  <2>2. IsFiniteSet(W)
    BY <2>1, FS_Subset
  <2>3. IsFiniteSet({node} \cup W)
    BY <2>2, FS_Singleton, FS_Union
  <2> QED  BY <2>3, RsOrders DEF Ordinal
<1> DEFINE r == [step |-> "RsUse", of |-> k]
           H(g) == [v \in SUBSET (1 .. n) |->
                     IF v = {} THEN u ELSE Rs!useStep(g[v \ {Rs!Max(v)}], s[Rs!Max(v)])]
           fold == CHOOSE g : g = H(g)
<1>2. Rs!useTree(b, node) = fold[1 .. n].b
  BY <1>1 DEF Rs!useTree, Rs!FoldLeft, Rs!MapThenFoldSet
<1>3. (\A x, c : Taken(r, x, c) = Rs!useStep(x, c)) /\ \A v : Rs!Max(v) = Max(v)
  BY RsTaken
<1>4. Keeps(r, u) /\ \A x, c : Keeps(r, x) => Keeps(r, Taken(r, x, c))
  BY <1>3, RsUseKeeps DEF Keeps
<1> HIDE DEF r, s
<1>5. ASSUME NEW g PROVE Layers(g, r, u, s, n) <=> g = H(g)
  <2>1. Values(H(g), g, r, u, s, n)
    BY <1>3 DEF Values
  <2> HIDE DEF H
  <2> QED  BY <2>1, LayersAre
<1> HIDE DEF H
<1>6. fold = H(fold)
  BY <1>5, FoldExists
<1>7. Keeps(r, fold[1 .. n])
  BY <1>4, <1>5, <1>6, LayersKeep
<1> QED  BY <1>2, <1>7 DEF Keeps, r

(* A step of Rust's later passes leaves scopes and tree alone.            *)
LEMMA RsSteps ==
  ASSUME NEW k, NEW a, NEW c, Kept(k, a), IsFiniteSet(DOMAIN k.tree)
  PROVE  Kept(k, RsImport(a, c)) /\ Kept(k, RsDefine(a, c)) /\ Kept(k, RsRefer(a, c))
<1>1. Kept(k, Rs!importStatement(a, c))
  <2>1. \A node : Kept(k, Rs!claimSubtree(a, node))
    BY DEF Kept, Rs!claimSubtree, Rs!ClaimSubtree
  <2>2. ASSUME NEW x, Kept(k, x), NEW name PROVE Kept(k, Rs!useTree(x, name))
    <3>1. IsFiniteSet(DOMAIN x.tree)
      BY <2>2 DEF Kept
    <3> QED  BY <2>2, <3>1, RsTreeKeeps
  <2>3. ASSUME NEW x, Kept(k, x), NEW stmt, NEW name PROVE Kept(k, Rs!modDeclaration(x, stmt, name))
    BY <2>3 DEF Kept, Rs!modDeclaration, Rs!addOccurrence, Rs!Added, Rs!AddedIn
  <2>4. ASSUME NEW x, Kept(k, x), NEW name PROVE Kept(k, Rs!externCrate(x, name))
    BY <2>4 DEF Kept, Rs!externCrate, Rs!addOccurrence, Rs!Added, Rs!AddedIn
  <2> QED  BY <2>1, <2>2, <2>3, <2>4 DEF Rs!importStatement
<1>2. Kept(k, Rs!Claim(a, c.name))
  BY DEF Kept, Rs!Claim
<1>3. ASSUME NEW x, Kept(k, x) PROVE Kept(k, Rs!define(x, c))
  BY <1>3 DEF Kept, Rs!define, Rs!Defined, Rs!AddedIn
<1>4. Kept(k, Rs!refer(a, c))
  BY DEF Kept, Rs!refer, Rs!Referred, Rs!AddedIn
<1> QED  BY <1>1, <1>2, <1>3, <1>4 DEF RsImport, RsDefine, RsRefer

(* So does what Rust defines before any of them.                          *)
LEMMA RsStarts ==
  ASSUME NEW b, Kept(b, b)
  PROVE  Kept(b, Rs!collectModule(b))
BY DEF Kept, Rs!collectModule, Rs!PackageDefined, Rs!AddedIn

(* So do the passes.                                                      *)
LEMMA RsPasses ==
  ASSUME NEW b, Kept(b, b), IsFiniteSet(DOMAIN b.tree)
  PROVE  /\ Kept(b, Rs!collectImports(b))
         /\ Kept(b, Rs!collectDefinitions(b))
         /\ Kept(b, Rs!collectReferences(b))
<1>1. Kept(b, Rs!collectImports(b))
  <2> DEFINE S == { n \in DOMAIN b.tree : /\ b.tree[n].type \in {"use_declaration", "mod_item", "extern_crate_declaration"}
                                          /\ ~Rs!Inline(b.tree, n) }
             s == Rs!InOrder(S)
  <2>1. PICK n \in Nat : DOMAIN s = 1 .. n
    <3>1. IsFiniteSet(S)
      BY FS_Subset
    <3> QED  BY <3>1, RsOrders DEF Ordinal
  <2>2. Kept(b, Rs!collectModule(b))
    BY RsStarts
  <2> DEFINE r == [step |-> "RsImport", of |-> b]
             H(g) == [v \in SUBSET (1 .. n) |->
                       IF v = {} THEN Rs!collectModule(b) ELSE RsImport(g[v \ {Rs!Max(v)}], s[Rs!Max(v)])]
             fold == CHOOSE g : g = H(g)
  <2>3. Rs!collectImports(b) = fold[1 .. n]
    BY <2>1 DEF Rs!collectImports, RsImport, Rs!FoldLeft, Rs!MapThenFoldSet
  <2>4. (\A x, c : Taken(r, x, c) = RsImport(x, c)) /\ \A v : Rs!Max(v) = Max(v)
    BY RsTaken
  <2>5. Keeps(r, Rs!collectModule(b)) /\ \A x, c : Keeps(r, x) => Keeps(r, Taken(r, x, c))
    BY <2>4, <2>2, RsSteps DEF Keeps
  <2> HIDE DEF r, s
  <2>6. ASSUME NEW g PROVE Layers(g, r, Rs!collectModule(b), s, n) <=> g = H(g)
    <3>1. Values(H(g), g, r, Rs!collectModule(b), s, n)
      BY <2>4 DEF Values
    <3> HIDE DEF H
    <3> QED  BY <3>1, LayersAre
  <2> HIDE DEF H
  <2>7. fold = H(fold)
    BY <2>6, FoldExists
  <2>8. Keeps(r, fold[1 .. n])
    BY <2>5, <2>6, <2>7, LayersKeep
  <2> QED  BY <2>3, <2>8 DEF Keeps, r

<1>2. Kept(b, Rs!collectDefinitions(b))
  <2> DEFINE S == Rs!Captures(b.tree)
             s == Rs!Definitions(b.tree, S)
  <2>1. PICK n \in Nat : DOMAIN s = 1 .. n
    <3>1. IsFiniteSet(S)
      BY RsFound, FS_Subset
    <3> QED  BY <3>1, RsOrders DEF Ordinal
  <2> DEFINE r == [step |-> "RsDefine", of |-> b]
             H(g) == [v \in SUBSET (1 .. n) |->
                       IF v = {} THEN b ELSE RsDefine(g[v \ {Rs!Max(v)}], s[Rs!Max(v)])]
             fold == CHOOSE g : g = H(g)
  <2>2. Rs!collectDefinitions(b) = fold[1 .. n]
    BY <2>1 DEF Rs!collectDefinitions, Rs!Define, RsDefine, Rs!FoldLeft, Rs!MapThenFoldSet
  <2>3. (\A x, c : Taken(r, x, c) = RsDefine(x, c)) /\ \A v : Rs!Max(v) = Max(v)
    BY RsTaken
  <2>4. Keeps(r, b) /\ \A x, c : Keeps(r, x) => Keeps(r, Taken(r, x, c))
    BY <2>3, RsSteps DEF Keeps
  <2> HIDE DEF r, s
  <2>5. ASSUME NEW g PROVE Layers(g, r, b, s, n) <=> g = H(g)
    <3>1. Values(H(g), g, r, b, s, n)
      BY <2>3 DEF Values
    <3> HIDE DEF H
    <3> QED  BY <3>1, LayersAre
  <2> HIDE DEF H
  <2>6. fold = H(fold)
    BY <2>5, FoldExists
  <2>7. Keeps(r, fold[1 .. n])
    BY <2>4, <2>5, <2>6, LayersKeep
  <2> QED  BY <2>2, <2>7 DEF Keeps, r

<1>3. Kept(b, Rs!collectReferences(b))
  <2> DEFINE cands == Rs!Uses(b.tree)
             better == { p \in cands \X cands : Rs!moreSpecific(b.tree, p[1], p[2]) }
             s == Rs!References(b, cands, better)
  <2>1. PICK n \in Nat : DOMAIN s = 1 .. n
    <3> DEFINE free == { c \in cands : Rs!Span(b.tree, c.name) \notin b.claimed }
    <3>1. IsFiniteSet(free)
      BY RsFound, FS_Subset
    <3>2. s = Rs!ReferencesAmong(b.tree, free, better)
      BY DEF Rs!References
    <3> HIDE DEF free, better, s
    <3>3. Ordinal(Rs!ReferencesAmong(b.tree, free, better))
      BY <3>1, RsOrders
    <3> QED  BY <3>2, <3>3 DEF Ordinal
  <2> DEFINE r == [step |-> "RsRefer", of |-> b]
             H(g) == [v \in SUBSET (1 .. n) |->
                       IF v = {} THEN b ELSE RsRefer(g[v \ {Rs!Max(v)}], s[Rs!Max(v)])]
             fold == CHOOSE g : g = H(g)
  <2>2. Rs!collectReferences(b) = fold[1 .. n]
    BY <2>1 DEF Rs!collectReferences, Rs!Refer, RsRefer, Rs!FoldLeft, Rs!MapThenFoldSet
  <2>3. (\A x, c : Taken(r, x, c) = RsRefer(x, c)) /\ \A v : Rs!Max(v) = Max(v)
    BY RsTaken
  <2>4. Keeps(r, b) /\ \A x, c : Keeps(r, x) => Keeps(r, Taken(r, x, c))
    BY <2>3, RsSteps DEF Keeps
  <2> HIDE DEF r, s
  <2>5. ASSUME NEW g PROVE Layers(g, r, b, s, n) <=> g = H(g)
    <3>1. Values(H(g), g, r, b, s, n)
      BY <2>3 DEF Values
    <3> HIDE DEF H
    <3> QED  BY <3>1, LayersAre
  <2> HIDE DEF H
  <2>6. fold = H(fold)
    BY <2>5, FoldExists
  <2>7. Keeps(r, fold[1 .. n])
    BY <2>4, <2>5, <2>6, LayersKeep
  <2> QED  BY <2>2, <2>7 DEF Keeps, r
<1> QED  BY <1>1, <1>2, <1>3

-----------------------------------------------------------------------------
(* C#. *)
(* C# matches its patterns the way the other languages do.                *)
LEMMA CsSame ==
  /\ \A t, P : Cs!Matches(t, P) = Matches(t, P) /\ Cs!Matches2(t, P) = Matches2(t, P)
  /\ \A t, types, as : Cs!Leaves(t, types, as) = Leaves(t, types, as)
<1>1. ASSUME NEW t, NEW P PROVE Cs!Matches(t, P) = Matches(t, P)
  BY DEF Matches, Cs!Matches, Kids, Cs!Kids, AnyField, Cs!AnyField
<1>2. ASSUME NEW t, NEW P PROVE Cs!Matches2(t, P) = Matches2(t, P)
  BY DEF Matches2, Cs!Matches2, AnyField, Cs!AnyField
<1> QED  BY <1>1, <1>2 DEF Leaves, Cs!Leaves

(* What C#'s queries capture is finite.                                   *)
LEMMA CsFound ==
  ASSUME NEW t, IsFiniteSet(DOMAIN t)
  PROVE  IsFiniteSet(Cs!Captures(t)) /\ IsFiniteSet(Cs!Uses(t))
<1> DEFINE D == DOMAIN t
           declared == Nodes(t)
           f == [c \in declared |-> [as |-> Cs!Declarators[Cs!Type(t, t[c.node].parent)],
                                     node |-> t[c.node].parent, name |-> c.name]]
           g == [n \in D |-> [as |-> "type", node |-> n, name |-> Cs!typeNameNode(t, n)]]
<1>1. IsFiniteSet(Cs!Declared3(t))
  <2>1. Cs!Declared3(t) \subseteq { f[c] : c \in declared }
    BY CsSame, Matches2Nodes DEF Cs!Declared3, Roles
  <2>2. IsFiniteSet(declared)
    BY FiniteNodes
  <2> HIDE DEF f, declared
  <2> QED  BY <2>1, <2>2, FiniteImage
<1>2. IsFiniteSet(Cs!TypeUses(t))
  <2>1. Cs!TypeUses(t) \subseteq { g[n] : n \in D }
    BY DEF Cs!TypeUses
  <2>2. IsFiniteSet(D)
    OBVIOUS
  <2> HIDE DEF g, D
  <2> QED  BY <2>1, <2>2, FiniteImage
<1>3. Cs!Captures(t) \subseteq Nodes(t) \cup Cs!Declared3(t)
  BY CsSame, MatchesNodes DEF Cs!Captures, Roles
<1>4. Cs!Uses(t) \subseteq Nodes(t) \cup Cs!TypeUses(t)
  BY CsSame, MatchesNodes, Matches2Nodes DEF Cs!Uses, Roles
<1>5. IsFiniteSet(Nodes(t))
  BY FiniteNodes
<1>6. IsFiniteSet(Nodes(t) \cup Cs!Declared3(t)) /\ IsFiniteSet(Nodes(t) \cup Cs!TypeUses(t))
  BY <1>1, <1>2, <1>5, FS_Union
<1> QED  BY <1>3, <1>4, <1>6, FS_Subset

(* What a pass of C# goes through is numbered from 1.                     *)
LEMMA CsOrders ==
  ASSUME NEW t, NEW S, IsFiniteSet(S), NEW better
  PROVE  /\ Ordinal(Cs!InOrder(S))
         /\ Ordinal(Cs!Definitions(t, S))
         /\ Ordinal(Cs!ReferencesAmong(t, S, better))
<1>1. ASSUME NEW T, IsFiniteSet(T) PROVE Cs!Cardinality(T) \in Nat
  BY <1>1, FS_CardinalityType DEF Cs!Cardinality, Cardinality, Cs!IsFiniteSet, IsFiniteSet
<1>2. DOMAIN Cs!InOrder(S) = 1 .. Cs!Cardinality(S)
  BY DEF Cs!InOrder, Cs!Sorted
<1>3. DOMAIN Cs!Definitions(t, S) = 1 .. Cs!Cardinality(S)
  BY DEF Cs!Definitions, Cs!Sorted
<1>4. \E T : IsFiniteSet(T) /\ DOMAIN Cs!ReferencesAmong(t, S, better) = 1 .. Cs!Cardinality(T)
  <2> DEFINE best == { c \in S : ~ \E d \in S : Cs!Span(t, d.name) = Cs!Span(t, c.name) /\ <<d, c>> \in better }
             T == { Cs!Span(t, c.name) : c \in best }
             f == [c \in S |-> Cs!Span(t, c.name)]
  <2>1. T \subseteq { f[c] : c \in S }
    OBVIOUS
  <2>2. IsFiniteSet(T)
    <3> HIDE DEF T, f
    <3> QED  BY <2>1, FiniteImage
  <2>3. DOMAIN Cs!ReferencesAmong(t, S, better) = 1 .. Cs!Cardinality(T)
    BY DEF Cs!ReferencesAmong, Cs!Sorted
  <2> QED  BY <2>2, <2>3
<1> QED  BY <1>1, <1>2, <1>3, <1>4 DEF Ordinal

(* A step of C#'s later passes leaves scopes and tree alone.              *)
LEMMA CsSteps ==
  ASSUME NEW k, NEW a, NEW c, Kept(k, a)
  PROVE  Kept(k, CsImport(a, c)) /\ Kept(k, CsDefine(a, c)) /\ Kept(k, CsRefer(a, c))
<1>1. Kept(k, Cs!usingDirective(a, c))
  <2>1. ASSUME NEW x, Kept(k, x), NEW ns, NEW pkg, NEW span PROVE Kept(k, Cs!usesNamespace(x, ns, pkg, span))
    BY <2>1 DEF Kept, Cs!usesNamespace, Cs!rememberNamespace, Cs!addOccurrence, Cs!Added, Cs!AddedIn
  <2>2. ASSUME NEW x, Kept(k, x), NEW target, NEW alias, NEW span PROVE Kept(k, Cs!usesType(x, target, alias, span))
    BY <2>2 DEF Kept, Cs!usesType, Cs!addOccurrence, Cs!Added, Cs!AddedIn
  <2>3. ASSUME NEW x, Kept(k, x), NEW usings PROVE Kept(k, [x EXCEPT !.projectUsings = usings])
    BY <2>3 DEF Kept
  <2>4. ASSUME NEW x, Kept(k, x), NEW alias, NEW segs, NEW pkg, NEW ns
        PROVE  Kept(k, Cs!usingPath(x, alias, segs, pkg, ns))
    BY <2>1, <2>2, <2>3, <2>4 DEF Cs!usingPath
  <2>5. ASSUME NEW x, Kept(k, x), NEW node PROVE Kept(k, Cs!claimSubtree(x, node))
    BY <2>5 DEF Kept, Cs!claimSubtree, Cs!ClaimSubtree
  <2> QED  BY <2>4, <2>5 DEF Cs!usingDirective
<1>2. Kept(k, Cs!Claim(a, c.name))
  BY DEF Kept, Cs!Claim
<1>3. ASSUME NEW x, Kept(k, x) PROVE Kept(k, Cs!define(x, c))
  BY <1>3 DEF Kept, Cs!define, Cs!Defined, Cs!AddedIn
<1>4. Kept(k, Cs!refer(a, c))
  BY DEF Kept, Cs!refer, Cs!Referred, Cs!AddedIn
<1> QED  BY <1>1, <1>2, <1>3, <1>4 DEF CsImport, CsDefine, CsRefer

(* A namespace declaration leaves scopes and tree alone.                  *)
LEMMA CsDeclareKeeps ==
  ASSUME NEW k, NEW a, NEW n, Kept(k, a)
  PROVE  Kept(k, Cs!declareNamespace(a, n))
<1>1. ASSUME NEW x, Kept(k, x), NEW suffix, NEW span, NEW scope
      PROVE  Kept(k, Cs!definePackage(x, suffix, span, scope))
  BY <1>1 DEF Kept, Cs!definePackage, Cs!PackageDefined, Cs!AddedIn
<1>2. ASSUME NEW node, NEW segs
      PROVE  Kept(k, Cs!rememberNamespace(Cs!claimSubtree(a, node), segs))
  BY DEF Kept, Cs!rememberNamespace, Cs!claimSubtree, Cs!ClaimSubtree
<1>3. ASSUME NEW x, Kept(k, x), NEW ns PROVE Kept(k, [x EXCEPT !.ns = ns])
  BY <1>3 DEF Kept
<1> QED  BY <1>1, <1>2, <1>3 DEF Cs!declareNamespace

(* So does what C# defines before any of them.                            *)
LEMMA CsStarts ==
  ASSUME NEW b, Kept(b, b), IsFiniteSet(DOMAIN b.tree)
  PROVE  Kept(b, Cs!collectNamespaces(b))
<1> DEFINE decls == { n \in DOMAIN b.tree :
                        b.tree[n].type \in {"file_scoped_namespace_declaration", "namespace_declaration"} }
           s == Cs!InOrder(decls)
<1>1. Kept(b, Cs!definePackage(b, <<>>, <<0, 0>>, Cs!fileScope(b)))
  BY DEF Kept, Cs!definePackage, Cs!PackageDefined, Cs!AddedIn
<1>2. PICK n \in Nat : DOMAIN s = 1 .. n
  <2>1. IsFiniteSet(decls)
    BY FS_Subset
  <2> QED  BY <2>1, CsOrders DEF Ordinal
<1>3. Kept(b, Cs!FoldLeft(Cs!declareNamespace, b, s))
  <2> DEFINE r == [step |-> "CsDeclare", of |-> b]
             H(g) == [v \in SUBSET (1 .. n) |->
                       IF v = {} THEN b ELSE Cs!declareNamespace(g[v \ {Cs!Max(v)}], s[Cs!Max(v)])]
             fold == CHOOSE g : g = H(g)
  <2>1. Cs!FoldLeft(Cs!declareNamespace, b, s) = fold[1 .. n]
    BY <1>2 DEF Cs!FoldLeft, Cs!MapThenFoldSet
  <2>2. (\A x, c : Taken(r, x, c) = Cs!declareNamespace(x, c)) /\ \A v : Cs!Max(v) = Max(v)
    BY CsTaken
  <2>3. Keeps(r, b) /\ \A x, c : Keeps(r, x) => Keeps(r, Taken(r, x, c))
    BY <2>2, CsDeclareKeeps DEF Keeps
  <2> HIDE DEF r, s
  <2>4. ASSUME NEW g PROVE Layers(g, r, b, s, n) <=> g = H(g)
    <3>1. Values(H(g), g, r, b, s, n)
      BY <2>2 DEF Values
    <3> HIDE DEF H
    <3> QED  BY <3>1, LayersAre
  <2> HIDE DEF H
  <2>5. fold = H(fold)
    BY <2>4, FoldExists
  <2>6. Keeps(r, fold[1 .. n])
    BY <2>3, <2>4, <2>5, LayersKeep
  <2> QED  BY <2>1, <2>6 DEF Keeps, r
<1>4. \/ Cs!collectNamespaces(b) = Cs!definePackage(b, <<>>, <<0, 0>>, Cs!fileScope(b))
      \/ Cs!collectNamespaces(b) = Cs!FoldLeft(Cs!declareNamespace, b, s)
  BY DEF Cs!collectNamespaces
<1> QED  BY <1>1, <1>3, <1>4

(* So do the passes.                                                      *)
LEMMA CsPasses ==
  ASSUME NEW b, Kept(b, b), IsFiniteSet(DOMAIN b.tree)
  PROVE  /\ Kept(b, Cs!collectImports(b))
         /\ Kept(b, Cs!collectDefinitions(b))
         /\ Kept(b, Cs!collectReferences(b))
<1>1. Kept(b, Cs!collectImports(b))
  <2> DEFINE S == { n \in DOMAIN b.tree : b.tree[n].type = "using_directive" }
             s == Cs!InOrder(S)
  <2>1. PICK n \in Nat : DOMAIN s = 1 .. n
    <3>1. IsFiniteSet(S)
      BY FS_Subset
    <3> QED  BY <3>1, CsOrders DEF Ordinal
  <2>2. Kept(b, Cs!collectNamespaces(b))
    BY CsStarts
  <2> DEFINE r == [step |-> "CsImport", of |-> b]
             H(g) == [v \in SUBSET (1 .. n) |->
                       IF v = {} THEN Cs!collectNamespaces(b) ELSE CsImport(g[v \ {Cs!Max(v)}], s[Cs!Max(v)])]
             fold == CHOOSE g : g = H(g)
  <2>3. Cs!collectImports(b) = fold[1 .. n]
    BY <2>1 DEF Cs!collectImports, CsImport, Cs!FoldLeft, Cs!MapThenFoldSet
  <2>4. (\A x, c : Taken(r, x, c) = CsImport(x, c)) /\ \A v : Cs!Max(v) = Max(v)
    BY CsTaken
  <2>5. Keeps(r, Cs!collectNamespaces(b)) /\ \A x, c : Keeps(r, x) => Keeps(r, Taken(r, x, c))
    BY <2>4, <2>2, CsSteps DEF Keeps
  <2> HIDE DEF r, s
  <2>6. ASSUME NEW g PROVE Layers(g, r, Cs!collectNamespaces(b), s, n) <=> g = H(g)
    <3>1. Values(H(g), g, r, Cs!collectNamespaces(b), s, n)
      BY <2>4 DEF Values
    <3> HIDE DEF H
    <3> QED  BY <3>1, LayersAre
  <2> HIDE DEF H
  <2>7. fold = H(fold)
    BY <2>6, FoldExists
  <2>8. Keeps(r, fold[1 .. n])
    BY <2>5, <2>6, <2>7, LayersKeep
  <2> QED  BY <2>3, <2>8 DEF Keeps, r

<1>2. Kept(b, Cs!collectDefinitions(b))
  <2> DEFINE S == Cs!Captures(b.tree)
             s == Cs!Definitions(b.tree, S)
  <2>1. PICK n \in Nat : DOMAIN s = 1 .. n
    <3>1. IsFiniteSet(S)
      BY CsFound, FS_Subset
    <3> QED  BY <3>1, CsOrders DEF Ordinal
  <2> DEFINE r == [step |-> "CsDefine", of |-> b]
             H(g) == [v \in SUBSET (1 .. n) |->
                       IF v = {} THEN b ELSE CsDefine(g[v \ {Cs!Max(v)}], s[Cs!Max(v)])]
             fold == CHOOSE g : g = H(g)
  <2>2. Cs!collectDefinitions(b) = fold[1 .. n]
    BY <2>1 DEF Cs!collectDefinitions, Cs!Define, CsDefine, Cs!FoldLeft, Cs!MapThenFoldSet
  <2>3. (\A x, c : Taken(r, x, c) = CsDefine(x, c)) /\ \A v : Cs!Max(v) = Max(v)
    BY CsTaken
  <2>4. Keeps(r, b) /\ \A x, c : Keeps(r, x) => Keeps(r, Taken(r, x, c))
    BY <2>3, CsSteps DEF Keeps
  <2> HIDE DEF r, s
  <2>5. ASSUME NEW g PROVE Layers(g, r, b, s, n) <=> g = H(g)
    <3>1. Values(H(g), g, r, b, s, n)
      BY <2>3 DEF Values
    <3> HIDE DEF H
    <3> QED  BY <3>1, LayersAre
  <2> HIDE DEF H
  <2>6. fold = H(fold)
    BY <2>5, FoldExists
  <2>7. Keeps(r, fold[1 .. n])
    BY <2>4, <2>5, <2>6, LayersKeep
  <2> QED  BY <2>2, <2>7 DEF Keeps, r

<1>3. Kept(b, Cs!collectReferences(b))
  <2> DEFINE cands == Cs!Uses(b.tree)
             better == { p \in cands \X cands : Cs!moreSpecific(b.tree, p[1], p[2]) }
             s == Cs!References(b, cands, better)
  <2>1. PICK n \in Nat : DOMAIN s = 1 .. n
    <3> DEFINE free == { c \in cands : Cs!Span(b.tree, c.name) \notin b.claimed }
    <3>1. IsFiniteSet(free)
      BY CsFound, FS_Subset
    <3>2. s = Cs!ReferencesAmong(b.tree, free, better)
      BY DEF Cs!References
    <3> HIDE DEF free, better, s
    <3>3. Ordinal(Cs!ReferencesAmong(b.tree, free, better))
      BY <3>1, CsOrders
    <3> QED  BY <3>2, <3>3 DEF Ordinal
  <2> DEFINE r == [step |-> "CsRefer", of |-> b]
             H(g) == [v \in SUBSET (1 .. n) |->
                       IF v = {} THEN b ELSE CsRefer(g[v \ {Cs!Max(v)}], s[Cs!Max(v)])]
             fold == CHOOSE g : g = H(g)
  <2>2. Cs!collectReferences(b) = fold[1 .. n]
    BY <2>1 DEF Cs!collectReferences, Cs!Refer, CsRefer, Cs!FoldLeft, Cs!MapThenFoldSet
  <2>3. (\A x, c : Taken(r, x, c) = CsRefer(x, c)) /\ \A v : Cs!Max(v) = Max(v)
    BY CsTaken
  <2>4. Keeps(r, b) /\ \A x, c : Keeps(r, x) => Keeps(r, Taken(r, x, c))
    BY <2>3, CsSteps DEF Keeps
  <2> HIDE DEF r, s
  <2>5. ASSUME NEW g PROVE Layers(g, r, b, s, n) <=> g = H(g)
    <3>1. Values(H(g), g, r, b, s, n)
      BY <2>3 DEF Values
    <3> HIDE DEF H
    <3> QED  BY <3>1, LayersAre
  <2> HIDE DEF H
  <2>6. fold = H(fold)
    BY <2>5, FoldExists
  <2>7. Keeps(r, fold[1 .. n])
    BY <2>4, <2>5, <2>6, LayersKeep
  <2> QED  BY <2>2, <2>7 DEF Keeps, r
<1> QED  BY <1>1, <1>2, <1>3

-----------------------------------------------------------------------------
(* The first pass. *)
Opened(k, a) == DOMAIN a = DOMAIN k /\ a.tree = k.tree /\ Nests(a.scopes)

(* collectScopes makes the scopes nest and leaves the tree alone.         *)
LEMMA ScopedOpens ==
  ASSUME NEW b, NEW kindOf, Kept(b, b), Laid(b.tree)
  PROVE  Opened(b, Scoped(b, kindOf))
<1>1. DOMAIN Scoped(b, kindOf) = DOMAIN b /\ Scoped(b, kindOf).tree = b.tree
  BY DEF Scoped, Kept
<1>2. Nests(Scoped(b, kindOf).scopes)
  BY ScopedNests DEF Kept
<1> QED  BY <1>1, <1>2 DEF Opened

(* Go makes its scopes the way the other languages do.                    *)
LEMMA GoScoped ==
  ASSUME NEW b, NEW kindOf
  PROVE  Go!Scoped(b, kindOf) = Scoped(b, kindOf)
BY DEF Go!Scoped, Scoped, Go!Sorted, Sorted, Go!Span, Span, Go!Kinds, Kinds, Go!Rank, Rank, Go!Least, Least,
         Go!Greatest, Greatest, Go!Cardinality, Cardinality, Go!IsFiniteSet, IsFiniteSet

(* Go's collectScopes makes the scopes nest.                              *)
LEMMA GoOpens ==
  ASSUME NEW b, Kept(b, b), Laid(b.tree)
  PROVE  Opened(b, Go!collectScopes(b))
BY GoScoped, ScopedOpens DEF Go!collectScopes

(* TypeScript makes its scopes the way the other languages do.            *)
LEMMA TsScoped ==
  ASSUME NEW b, NEW kindOf
  PROVE  Ts!Scoped(b, kindOf) = Scoped(b, kindOf)
BY DEF Ts!Scoped, Scoped, Ts!Sorted, Sorted, Ts!Span, Span, Ts!Kinds, Kinds, Ts!Rank, Rank, Ts!Least, Least,
         Ts!Greatest, Greatest, Ts!Cardinality, Cardinality, Ts!IsFiniteSet, IsFiniteSet

(* TypeScript's collectScopes makes the scopes nest.                      *)
LEMMA TsOpens ==
  ASSUME NEW b, Kept(b, b), Laid(b.tree)
  PROVE  Opened(b, Ts!collectScopes(b))
BY TsScoped, ScopedOpens DEF Ts!collectScopes

(* Python makes its scopes the way the other languages do.                *)
LEMMA PyScoped ==
  ASSUME NEW b, NEW kindOf
  PROVE  Py!Scoped(b, kindOf) = Scoped(b, kindOf)
BY DEF Py!Scoped, Scoped, Py!Sorted, Sorted, Py!Span, Span, Py!Kinds, Kinds, Py!Rank, Rank, Py!Least, Least,
         Py!Greatest, Greatest, Py!Cardinality, Cardinality, Py!IsFiniteSet, IsFiniteSet

(* Python's collectScopes makes the scopes nest.                          *)
LEMMA PyOpens ==
  ASSUME NEW b, Kept(b, b), Laid(b.tree)
  PROVE  Opened(b, Py!collectScopes(b))
BY PyScoped, ScopedOpens DEF Py!collectScopes

(* Java makes its scopes the way the other languages do.                  *)
LEMMA JavaScoped ==
  ASSUME NEW b, NEW kindOf
  PROVE  Java!Scoped(b, kindOf) = Scoped(b, kindOf)
BY DEF Java!Scoped, Scoped, Java!Sorted, Sorted, Java!Span, Span, Java!Kinds, Kinds, Java!Rank, Rank, Java!Least, Least,
         Java!Greatest, Greatest, Java!Cardinality, Cardinality, Java!IsFiniteSet, IsFiniteSet

(* Java's collectScopes makes the scopes nest.                            *)
LEMMA JavaOpens ==
  ASSUME NEW b, Kept(b, b), Laid(b.tree)
  PROVE  Opened(b, Java!collectScopes(b))
BY JavaScoped, ScopedOpens DEF Java!collectScopes

(* Ruby makes its scopes the way the other languages do.                  *)
LEMMA RbScoped ==
  ASSUME NEW b, NEW kindOf
  PROVE  Rb!Scoped(b, kindOf) = Scoped(b, kindOf)
BY DEF Rb!Scoped, Scoped, Rb!Sorted, Sorted, Rb!Span, Span, Rb!Kinds, Kinds, Rb!Rank, Rank, Rb!Least, Least,
         Rb!Greatest, Greatest, Rb!Cardinality, Cardinality, Rb!IsFiniteSet, IsFiniteSet

(* Ruby's collectScopes makes the scopes nest.                            *)
LEMMA RbOpens ==
  ASSUME NEW b, Kept(b, b), Laid(b.tree)
  PROVE  Opened(b, Rb!collectScopes(b))
BY RbScoped, ScopedOpens DEF Rb!collectScopes

(* Rust makes its scopes the way the other languages do.                  *)
LEMMA RsScoped ==
  ASSUME NEW b, NEW kindOf
  PROVE  Rs!Scoped(b, kindOf) = Scoped(b, kindOf)
BY DEF Rs!Scoped, Scoped, Rs!Sorted, Sorted, Rs!Span, Span, Rs!Kinds, Kinds, Rs!Rank, Rank, Rs!Least, Least,
         Rs!Greatest, Greatest, Rs!Cardinality, Cardinality, Rs!IsFiniteSet, IsFiniteSet

(* Rust's collectScopes makes the scopes nest.                            *)
LEMMA RsOpens ==
  ASSUME NEW b, Kept(b, b), Laid(b.tree)
  PROVE  Opened(b, Rs!collectScopes(b))
<1> DEFINE t == b.tree
           marked == [n \in DOMAIN t |-> IF Rs!Inline(t, n) THEN [t[n] EXCEPT !.type = "inline_mod"] ELSE t[n]]
           c == [b EXCEPT !.tree = marked]
           d == Scoped(c, Rs!Scopes)
<1>1. \A n \in DOMAIN t : marked[n].from = t[n].from /\ marked[n].to = t[n].to /\ {"from", "to"} \subseteq DOMAIN marked[n]
  BY DEF Laid, WellNested
<1>2. DOMAIN marked = DOMAIN t
  OBVIOUS
<1> HIDE DEF marked
<1>3. Laid(marked)
  <2>1. WellNested(marked)
    BY <1>1, <1>2 DEF Laid, WellNested, Span
  <2>2. marked \in Seq(Range(marked))
    <3>1. Len(t) \in Nat /\ DOMAIN t = 1 .. Len(t)
      BY DEF Laid
    <3>2. marked = [n \in 1 .. Len(t) |-> marked[n]]
      BY <3>1 DEF marked
    <3>3. \A n \in 1 .. Len(t) : marked[n] \in Range(marked)
      BY <1>2, <3>1 DEF Range
    <3> QED  BY <3>1, <3>2, <3>3
  <2> QED  BY <2>1, <2>2 DEF Laid
<1>4. DOMAIN c = DOMAIN b /\ c.tree = marked /\ Kept(c, c)
  BY DEF Kept
<1>5. Opened(c, d)
  BY <1>3, <1>4, ScopedOpens
<1>6. Rs!collectScopes(b) = [d EXCEPT !.tree = b.tree]
  BY RsScoped DEF Rs!collectScopes, marked
<1> HIDE DEF c, d
<1> QED  BY <1>4, <1>5, <1>6 DEF Opened, Kept

(* C# makes its scopes the way the other languages do.                    *)
LEMMA CsScoped ==
  ASSUME NEW b, NEW kindOf
  PROVE  Cs!Scoped(b, kindOf) = Scoped(b, kindOf)
BY DEF Cs!Scoped, Scoped, Cs!Sorted, Sorted, Cs!Span, Span, Cs!Kinds, Kinds, Cs!Rank, Rank, Cs!Least, Least,
         Cs!Greatest, Greatest, Cs!Cardinality, Cardinality, Cs!IsFiniteSet, IsFiniteSet

(* C#'s collectScopes makes the scopes nest.                              *)
LEMMA CsOpens ==
  ASSUME NEW b, Kept(b, b), Laid(b.tree)
  PROVE  Opened(b, Cs!collectScopes(b))
BY CsScoped, ScopedOpens DEF Cs!collectScopes

-----------------------------------------------------------------------------
(* The files of a repository. *)
Built(b, t) == {"scopes", "tree"} \subseteq DOMAIN b /\ b.tree = t

Scoping == {"imports", "definitions", "references", "done"}

IInv ==
  /\ program \in Programs
  /\ stage \in [DOMAIN program -> Stages]
  /\ builder = [f \in DOMAIN program |-> builder[f]]
  /\ \A f \in DOMAIN program :
       /\ stage[f] \in {"scopes"} \cup Scoping => Built(builder[f], program[f].tree)
       /\ stage[f] \in Scoping => Nests(builder[f].scopes)

(* After a pass comes one that finds the scopes made (Ruby's definitions  *)
(* come before its imports).                                              *)
LEMMA Alternation ==
  ASSUME NEW lang, NEW pass \in {"scopes", "imports", "definitions", "references"}
  PROVE  After(lang, pass) \in Scoping
<1> DEFINE two == <<"scopes", "definitions", "imports", "references", "done">>
           one == <<"scopes", "imports", "definitions", "references", "done">>
<1>1. ASSUME NEW i \in DOMAIN one, one[i] = pass PROVE one[i + 1] \in Scoping /\ i + 1 \in 2 .. 5
  BY <1>1 DEF Scoping
<1>2. ASSUME NEW i \in DOMAIN two, two[i] = pass PROVE two[i + 1] \in Scoping /\ i + 1 \in 2 .. 5
  BY <1>2 DEF Scoping
<1>3. \E i \in DOMAIN one : one[i] = pass
  <2>1. 1 \in DOMAIN one /\ 2 \in DOMAIN one /\ 3 \in DOMAIN one /\ 4 \in DOMAIN one
    OBVIOUS
  <2>2. one[1] = "scopes" /\ one[2] = "imports" /\ one[3] = "definitions" /\ one[4] = "references"
    OBVIOUS
  <2> HIDE DEF one
  <2> QED  BY <2>1, <2>2
<1>4. \E i \in DOMAIN two : two[i] = pass
  <2>1. 1 \in DOMAIN two /\ 2 \in DOMAIN two /\ 3 \in DOMAIN two /\ 4 \in DOMAIN two
    OBVIOUS
  <2>2. two[1] = "scopes" /\ two[3] = "imports" /\ two[2] = "definitions" /\ two[4] = "references"
    OBVIOUS
  <2> HIDE DEF two
  <2> QED  BY <2>1, <2>2
<1>5. After(lang, pass) = IF lang = "rb" THEN two[(CHOOSE i \in DOMAIN two : two[i] = pass) + 1]
                                         ELSE one[(CHOOSE i \in DOMAIN one : one[i] = pass) + 1]
  BY DEF After
<1> HIDE DEF one, two
<1> QED  BY <1>1, <1>2, <1>3, <1>4, <1>5

(* A file's tree is finite and its nodes nest.                            *)
LEMMA Trees ==
  ASSUME program \in Programs, NEW f \in DOMAIN program
  PROVE  Laid(program[f].tree) /\ IsFiniteSet(DOMAIN program[f].tree)
<1>1. Laid(program[f].tree)
  BY ProgramsAssumption DEF Laid
<1>2. Len(program[f].tree) \in Nat /\ DOMAIN program[f].tree = 1 .. Len(program[f].tree)
  BY <1>1 DEF Laid
<1> QED  BY <1>1, <1>2, FS_Interval

(* A step of one file, to a builder and a stage that fit. *)
LEMMA StepKeeps ==
  ASSUME IInv, NEW f \in DOMAIN program, NEW from, NEW to \in Stages, NEW b, Step(f, from, to, b),
         to \in {"scopes"} \cup Scoping => Built(b, program[f].tree),
         to \in Scoping => Nests(b.scopes)
  PROVE  IInv'
<1>1. program' = program /\ stage' = [stage EXCEPT ![f] = to] /\ builder' = [builder EXCEPT ![f] = b]
  BY DEF Step
<1>2. stage' \in [DOMAIN program -> Stages] /\ stage'[f] = to
  BY <1>1 DEF IInv
<1>3. builder' = [g \in DOMAIN program |-> builder'[g]] /\ builder'[f] = b
  BY <1>1 DEF IInv
<1>4. \A g \in DOMAIN program : g # f => stage'[g] = stage[g] /\ builder'[g] = builder[g]
  BY <1>1 DEF IInv
<1> QED  BY <1>1, <1>2, <1>3, <1>4 DEF IInv

(* A builder starts with the file's tree, in every language.              *)
LEMMA FreshBuilds ==
  ASSUME NEW file, ParserFor(file) # ""
  PROVE  Built(Fresh(file), file.tree)

<1>1. Built(Go!Parse(file.coord, file), file.tree)
  BY DEF Built, Go!Parse, Go!NewBuilder
<1>2. Built(Ts!Parse(file.coord, file), file.tree)
  BY DEF Built, Ts!Parse, Ts!NewBuilder
<1>3. Built(Py!Parse(file.coord, file), file.tree)
  BY DEF Built, Py!Parse, Py!NewBuilder
<1>4. Built(Java!Parse(file.coord, file), file.tree)
  BY DEF Built, Java!Parse, Java!NewBuilder
<1>5. Built(Rb!Parse(file.coord, file), file.tree)
  BY DEF Built, Rb!Parse, Rb!NewBuilder
<1>6. Built(Rs!Parse(file.coord, file), file.tree)
  BY DEF Built, Rs!Parse, Rs!NewBuilder
<1>7. Built(Cs!Parse(file.coord, file), file.tree)
  BY DEF Built, Cs!Parse, Cs!NewBuilder
<1> QED  BY <1>1, <1>2, <1>3, <1>4, <1>5, <1>6, <1>7 DEF Fresh, ParserFor, byExt

(* A file that is read keeps the invariant.                               *)
LEMMA ParseKeeps ==
  ASSUME IInv, NEW f \in DOMAIN program, Parse(f)
  PROVE  IInv'
<1>1. CASE ParserFor(program[f]) = "" \/ program[f].tree = <<>>
  <2>1. Step(f, "unread", "failed", <<>>)
    BY <1>1 DEF Parse
  <2>2. "failed" \in Stages /\ "failed" \notin {"scopes"} \cup Scoping
    BY DEF Stages, Scoping
  <2> QED  BY <2>1, <2>2, StepKeeps
<1>2. CASE ~(ParserFor(program[f]) = "" \/ program[f].tree = <<>>)
  <2>1. Step(f, "unread", "scopes", Fresh(program[f]))
    BY <1>2 DEF Parse
  <2>2. "scopes" \in Stages /\ "scopes" \notin Scoping
    BY DEF Stages, Scoping
  <2> QED  BY <1>2, <2>1, <2>2, FreshBuilds, StepKeeps
<1> QED  BY <1>1, <1>2

(* The pass that collects the scopes establishes that they nest.          *)
LEMMA ScopesKeep ==
  ASSUME IInv, NEW f \in DOMAIN program, collectScopes(f)
  PROVE  IInv'
<1> DEFINE b == builder[f]
<1>1. PICK c : /\ c \in {Go!collectScopes(b), Ts!collectScopes(b), Py!collectScopes(b), Java!collectScopes(b),
                         Rb!collectScopes(b), Rs!collectScopes(b), Cs!collectScopes(b)}
               /\ Step(f, "scopes", After(ParserFor(program[f]), "scopes"), c)
  BY DEF collectScopes, Pass
<1>2. stage[f] = "scopes"
  BY <1>1 DEF Step
<1>3. Built(b, program[f].tree) /\ Kept(b, b) /\ Laid(b.tree)
  BY <1>2, Trees DEF IInv, Built, Kept
<1> HIDE DEF b
<1>4. Opened(b, c)
  BY <1>1, <1>3, GoOpens, TsOpens, PyOpens, JavaOpens, RbOpens, RsOpens, CsOpens
<1>5. Built(c, program[f].tree) /\ Nests(c.scopes)
  BY <1>3, <1>4 DEF Opened, Built
<1>6. After(ParserFor(program[f]), "scopes") \in Stages
  BY Alternation DEF Scoping, Stages
<1> QED  BY <1>1, <1>5, <1>6, StepKeeps

(* A later pass that leaves scopes and tree alone keeps the invariant.    *)
LEMMA PassKeeps ==
  ASSUME IInv, NEW f \in DOMAIN program, NEW pass \in {"imports", "definitions", "references"}, NEW c,
         Kept(builder[f], builder[f]) /\ IsFiniteSet(DOMAIN builder[f].tree) => Kept(builder[f], c),
         Step(f, pass, After(ParserFor(program[f]), pass), c)
  PROVE  IInv'
<1> DEFINE b == builder[f]
<1>2. stage[f] \in Scoping
  BY DEF Step, Scoping
<1>3. Built(b, program[f].tree) /\ Nests(b.scopes)
  BY <1>2 DEF IInv
<1>4. Kept(b, b) /\ IsFiniteSet(DOMAIN b.tree)
  BY <1>3, Trees DEF IInv, Built, Kept
<1>5. Kept(b, c)
  BY <1>4
<1> HIDE DEF b
<1>6. Built(c, program[f].tree) /\ Nests(c.scopes)
  BY <1>3, <1>5 DEF Kept, Built
<1>7. After(ParserFor(program[f]), pass) \in Stages
  BY Alternation DEF Scoping, Stages
<1> QED  BY <1>6, <1>7, StepKeeps

(* collectImports is such a pass.                                         *)
LEMMA ImportsKeep ==
  ASSUME IInv, NEW f \in DOMAIN program, collectImports(f)
  PROVE  IInv'
<1> DEFINE b == builder[f]
<1>1. PICK c : /\ c \in {Go!collectImports(b), Ts!collectImports(b), Py!collectImports(b), Java!collectImports(b),
                         Rb!collectImports(b), Rs!collectImports(b), Cs!collectImports(b)}
               /\ Step(f, "imports", After(ParserFor(program[f]), "imports"), c)
  BY DEF collectImports, Pass
<1>2. Kept(b, b) /\ IsFiniteSet(DOMAIN b.tree) => Kept(b, c)
  BY <1>1, GoPasses, TsPasses, PyPasses, JavaPasses, RbPasses, RsPasses, CsPasses
<1> QED  BY <1>1, <1>2, PassKeeps

(* collectDefinitions is such a pass.                                     *)
LEMMA DefinitionsKeep ==
  ASSUME IInv, NEW f \in DOMAIN program, collectDefinitions(f)
  PROVE  IInv'
<1> DEFINE b == builder[f]
<1>1. PICK c : /\ c \in {Go!collectDefinitions(b), Ts!collectDefinitions(b), Py!collectDefinitions(b), Java!collectDefinitions(b),
                         Rb!collectDefinitions(b), Rs!collectDefinitions(b), Cs!collectDefinitions(b)}
               /\ Step(f, "definitions", After(ParserFor(program[f]), "definitions"), c)
  BY DEF collectDefinitions, Pass
<1>2. Kept(b, b) /\ IsFiniteSet(DOMAIN b.tree) => Kept(b, c)
  BY <1>1, GoPasses, TsPasses, PyPasses, JavaPasses, RbPasses, RsPasses, CsPasses
<1> QED  BY <1>1, <1>2, PassKeeps

(* collectReferences is such a pass.                                      *)
LEMMA ReferencesKeep ==
  ASSUME IInv, NEW f \in DOMAIN program, collectReferences(f)
  PROVE  IInv'
<1> DEFINE b == builder[f]
<1>1. PICK c : /\ c \in {Go!collectReferences(b), Ts!collectReferences(b), Py!collectReferences(b), Java!collectReferences(b),
                         Rb!collectReferences(b), Rs!collectReferences(b), Cs!collectReferences(b)}
               /\ Step(f, "references", After(ParserFor(program[f]), "references"), c)
  BY DEF collectReferences, Pass
<1>2. Kept(b, b) /\ IsFiniteSet(DOMAIN b.tree) => Kept(b, c)
  BY <1>1, GoPasses, TsPasses, PyPasses, JavaPasses, RbPasses, RsPasses, CsPasses
<1> QED  BY <1>1, <1>2, PassKeeps

(* The invariant is inductive.                                            *)
LEMMA Inductive == IInv /\ [Next]_vars => IInv'
<1> SUFFICES ASSUME IInv, [Next]_vars PROVE IInv'
  OBVIOUS
<1>1. CASE Next
  <2>1. PICK f \in DOMAIN program : Parse(f) \/ collectScopes(f) \/ collectImports(f)
                                      \/ collectDefinitions(f) \/ collectReferences(f)
    BY <1>1 DEF Next
  <2> QED  BY <2>1, ParseKeeps, ScopesKeep, ImportsKeep, DefinitionsKeep, ReferencesKeep
<1>2. CASE UNCHANGED vars
  BY <1>2 DEF vars, IInv
<1> QED  BY <1>1, <1>2

(* In every program, whatever its files, a scope's parent is the smallest   *)
(* scope around it in each file whose parse is done, in all seven languages *)
(* (collectScopes and the passes after it, which leave the scopes alone).   *)
THEOREM ScopesNestAlways == Spec => []ScopesNest
<1>1. Init => IInv
  <2> SUFFICES ASSUME Init PROVE IInv
    OBVIOUS
  <2>1. stage \in [DOMAIN program -> Stages]
    BY DEF Init, Stages
  <2>2. "unread" \notin {"scopes"} \cup Scoping
    BY DEF Scoping
  <2> QED  BY <2>1, <2>2 DEF Init, IInv
<1>2. IInv => ScopesNest
  <2> SUFFICES ASSUME IInv, NEW f \in Done PROVE Nests(builder[f].scopes)
    BY DEF ScopesNest, Nests
  <2> QED  BY DEF Done, IInv, Scoping
<1> QED  BY <1>1, <1>2, Inductive, PTL DEF Spec
==============================================================================
