--------------------------- MODULE DataInduction ---------------------------
(***************************************************************************)
(* Induction and recursion up to a number, in the first-order form the     *)
(* provers can use: over sets and functions instead of predicates and      *)
(* operators.  What the proofs need of the community modules' recursive    *)
(* operators follows from it.                                              *)
(***************************************************************************)
EXTENDS SequencesExt, SequenceTheorems, WellFoundedInduction, TLAPS

(* A set of numbers that is not empty has a least one. *)
LEMMA LeastOf ==
  ASSUME NEW S \in SUBSET Nat, S # {}
  PROVE  \E x \in S : \A y \in S : ~(y < x)
<1>1. PICK x \in S : \A y \in S : ~(<<y, x>> \in OpToRel(<, Nat))
  BY NatLessThanWellFounded, WFMin
<1>2. \A y \in S : ~(y < x)
  BY <1>1 DEF OpToRel
<1> QED  BY <1>2

(* Induction up to n. *)
LEMMA UpTo ==
  ASSUME NEW T, NEW n \in Nat, 0 \in T,
         \A m \in 0..n : m \in T /\ m < n => m + 1 \in T
  PROVE  0..n \subseteq T
<1> DEFINE Bad == {m \in 0..n : m \notin T}
<1>1. SUFFICES ASSUME Bad # {} PROVE FALSE
  OBVIOUS
<1>2. Bad \in SUBSET Nat
  OBVIOUS
<1>3. PICK x \in Bad : \A y \in Bad : ~(y < x)
  <2> HIDE DEF Bad
  <2> QED  BY <1>1, <1>2, LeastOf
<1>4. x # 0 /\ x \in 0..n
  OBVIOUS
<1>5. x - 1 \in 0..n /\ x - 1 < n /\ x - 1 < x
  BY <1>4
<1>6. x - 1 \in T
  BY <1>3, <1>5
<1>7. (x - 1) + 1 \in T
  BY <1>5, <1>6
<1>8. (x - 1) + 1 = x
  BY <1>4
<1> QED  BY <1>7, <1>8

(* What starts at b and takes its i-th value from the one before it by G.  *)
Takes(f, V, b, G, n) ==
  f \in [0..n -> V] /\ f[0] = b /\ \A i \in 1..n : f[i] = G[<<i, f[i - 1]>>]

(* Recursion up to n: there is such a function. *)
LEMMA Recursion ==
  ASSUME NEW V, NEW b \in V, NEW n \in Nat, NEW G \in [(1..n) \X V -> V]
  PROVE  \E f : Takes(f, V, b, G, n)
<1> DEFINE P(m) == \E f : Takes(f, V, b, G, m)
           T == {m \in 0..n : P(m)}
<1>1. P(0)
  <2> DEFINE e == [i \in 0..0 |-> b]
  <2>1. Takes(e, V, b, G, 0)
    BY DEF Takes
  <2> QED  BY <2>1
<1>2. ASSUME NEW m \in 0..n, P(m), m < n PROVE P(m + 1)
  <2>1. PICK f : Takes(f, V, b, G, m)
    BY <1>2
  <2>2. f \in [0..m -> V] /\ f[0] = b /\ \A i \in 1..m : f[i] = G[<<i, f[i - 1]>>]
    BY <2>1 DEF Takes
  <2> DEFINE v == G[<<m + 1, f[m]>>]
             g == [i \in 0..(m + 1) |-> IF i <= m THEN f[i] ELSE v]
  <2>3. m + 1 \in 1..n /\ f[m] \in V
    BY <1>2, <2>2
  <2>4. v \in V
    BY <2>3
  <2> HIDE DEF v
  <2>5. g \in [0..(m + 1) -> V] /\ g[0] = b
    BY <2>2, <2>4
  <2>6. \A i \in 1..(m + 1) : g[i] = G[<<i, g[i - 1]>>]
    <3> TAKE i \in 1..(m + 1)
    <3>1. i - 1 \in 0..m /\ g[i - 1] = f[i - 1]
      BY <1>2
    <3>2. CASE i <= m
      <4>1. i \in 1..m  BY <3>2
      <4>2. g[i] = f[i] /\ f[i] = G[<<i, f[i - 1]>>]  BY <2>2, <3>2, <4>1
      <4> QED  BY <3>1, <4>2
    <3>3. CASE ~(i <= m)
      <4>1. i = m + 1 /\ i - 1 = m  BY <3>3, <1>2
      <4>2. g[i] = v  BY <3>3
      <4>3. v = G[<<i, f[i - 1]>>]  BY <4>1 DEF v
      <4> QED  BY <3>1, <4>2, <4>3
    <3> QED  BY <3>2, <3>3
  <2> HIDE DEF g
  <2>7. Takes(g, V, b, G, m + 1)
    BY <2>5, <2>6 DEF Takes
  <2> QED  BY <2>7
<1>3. P(n)
  <2> HIDE DEF P
  <2>1. 0 \in T  BY <1>1
  <2>2. \A m \in 0..n : m \in T /\ m < n => m + 1 \in T
    BY <1>2
  <2>3. 0..n \subseteq T
    <3> HIDE DEF T
    <3> QED  BY <2>1, <2>2, UpTo
  <2> QED  BY <2>3
<1> QED  BY <1>3

(* A set of numbers up to n has one greatest. *)
LEMMA MaxOf ==
  ASSUME NEW n \in Nat, NEW s \in SUBSET (1..n), s # {}
  PROVE  Max(s) \in s /\ \A x \in s : x <= Max(s)
<1> DEFINE up == {n - x : x \in s}
<1>0. \A x \in s : x \in Nat /\ n - x \in Nat
  OBVIOUS
<1>1. up \in SUBSET Nat /\ up # {}
  BY <1>0
<1>2. PICK y \in up : \A z \in up : ~(z < y)
  <2> HIDE DEF up
  <2> QED  BY <1>1, LeastOf
<1>3. PICK m \in s : y = n - m
  BY <1>2
<1>4. \A x \in s : m >= x
  <2> TAKE x \in s
  <2>1. ~(n - x < n - m) /\ x \in Nat /\ m \in Nat
    BY <1>0, <1>2, <1>3
  <2> QED  BY <2>1
<1> QED  BY <1>4 DEF Max

(* What takes its value on a set from the set without its greatest element, *)
(* as a fold from left to right does; Partly, as far as that is in V.       *)
Folded(f, V, b, G, n) ==
  /\ f \in [SUBSET (1..n) -> V]
  /\ \A s \in SUBSET (1..n) : f[s] = IF s = {} THEN b ELSE G[<<Max(s), f[s \ {Max(s)}]>>]

PartlyFolded(F, V, b, G, n) ==
  /\ F[{}] = b
  /\ \A s \in SUBSET (1..n) : s # {} /\ F[s \ {Max(s)}] \in V
                                  => F[s] = G[<<Max(s), F[s \ {Max(s)}]>>]

(* Folding up to n: there is such a function. *)
LEMMA Folding ==
  ASSUME NEW V, NEW b \in V, NEW n \in Nat, NEW G \in [(1..n) \X V -> V]
  PROVE  \E f : Folded(f, V, b, G, n)
<1> DEFINE Folds(f, k) == Folded(f, V, b, G, k)
           T == {k \in 0..n : \E f : Folds(f, k)}
<1>1. \E f : Folds(f, 0)
  <2> DEFINE e == [s \in SUBSET (1..0) |-> b]
  <2>1. \A s \in SUBSET (1..0) : s = {}
    OBVIOUS
  <2>2. Folds(e, 0)
    BY <2>1 DEF Folded
  <2> QED  BY <2>2
<1>2. ASSUME NEW k \in 0..n, NEW f, Folds(f, k), k < n PROVE \E g : Folds(g, k + 1)
  <2> DEFINE g == [s \in SUBSET (1..(k + 1)) |->
                     IF k + 1 \in s THEN G[<<k + 1, f[s \ {k + 1}]>>] ELSE f[s]]
  <2>1. /\ f \in [SUBSET (1..k) -> V]
        /\ \A s \in SUBSET (1..k) : f[s] = IF s = {} THEN b ELSE G[<<Max(s), f[s \ {Max(s)}]>>]
    BY <1>2 DEF Folded
  <2>2. \A s \in SUBSET (1..(k + 1)) : /\ s \ {k + 1} \in SUBSET (1..k)
                                       /\ k + 1 \notin s => s \in SUBSET (1..k)
    OBVIOUS
  <2>3. k + 1 \in 1..n
    BY <1>2
  <2>4. ASSUME NEW s \in SUBSET (1..(k + 1))
        PROVE  g[s] \in V /\ g[s] = IF s = {} THEN b ELSE G[<<Max(s), g[s \ {Max(s)}]>>]
    <3>1. CASE k + 1 \in s
      <4>1. f[s \ {k + 1}] \in V
        BY <2>1, <2>2
      <4>2. g[s] = G[<<k + 1, f[s \ {k + 1}]>>] /\ g[s] \in V
        BY <2>3, <3>1, <4>1
      <4>3. g[s \ {k + 1}] = f[s \ {k + 1}]
        OBVIOUS
      <4>4. Max(s) = k + 1
        <5>0. k + 1 \in Nat
          OBVIOUS
        <5>1. Max(s) \in s /\ k + 1 <= Max(s)
          BY <3>1, <5>0, MaxOf
        <5>2. Max(s) \in 1..(k + 1)
          BY <5>1
        <5> QED  BY <5>0, <5>1, <5>2
      <4> QED  BY <3>1, <4>2, <4>3, <4>4
    <3>2. CASE k + 1 \notin s
      <4>1. s \in SUBSET (1..k) /\ g[s] = f[s]
        BY <2>2, <3>2
      <4>2. CASE s # {}
        <5>1. Max(s) \in s
          <6>1. k \in Nat
            OBVIOUS
          <6> QED  BY <4>1, <4>2, <6>1, MaxOf
        <5>2. s \ {Max(s)} \in SUBSET (1..(k + 1)) /\ k + 1 \notin s \ {Max(s)}
          BY <3>2
        <5>3. g[s \ {Max(s)}] = f[s \ {Max(s)}]
          BY <5>2
        <5> QED  BY <2>1, <4>1, <4>2, <5>3
      <4>3. CASE s = {}
        BY <2>1, <4>1, <4>3
      <4> QED  BY <4>2, <4>3
    <3> QED  BY <3>1, <3>2
  <2>5. g \in [SUBSET (1..(k + 1)) -> V]
    BY <2>4
  <2> HIDE DEF g
  <2>6. Folds(g, k + 1)
    BY <2>4, <2>5 DEF Folded
  <2> QED  BY <2>6
<1>3. n \in T
  <2> HIDE DEF Folds
  <2>1. 0 \in T  BY <1>1
  <2>2. \A k \in 0..n : k \in T /\ k < n => k + 1 \in T
    <3> TAKE k \in 0..n
    <3> HAVE k \in T /\ k < n
    <3>1. PICK f : Folds(f, k)
      OBVIOUS
    <3>2. \E g : Folds(g, k + 1)
      BY <1>2, <3>1
    <3> QED  BY <3>2
  <2>3. 0..n \subseteq T
    <3> HIDE DEF T
    <3> QED  BY <2>1, <2>2, UpTo
  <2> QED  BY <2>3
<1>4. PICK f : Folds(f, n)
  <2> HIDE DEF Folds
  <2> QED  BY <1>3
<1> QED  BY <1>4

(* Over the initial segments of 1..n it takes its values one by one. *)
LEMMA FoldTakes ==
  ASSUME NEW V, NEW b \in V, NEW n \in Nat, NEW G \in [(1..n) \X V -> V], NEW F,
         PartlyFolded(F, V, b, G, n)
  PROVE  Takes([i \in 0..n |-> F[1..i]], V, b, G, n)
<1> DEFINE T == {i \in 0..n : F[1..i] \in V}
<1>1. ASSUME NEW i \in 1..n, F[1..(i - 1)] \in V
      PROVE  F[1..i] = G[<<i, F[1..(i - 1)]>>] /\ F[1..i] \in V
  <2>1. 1..i \in SUBSET (1..n) /\ 1..i # {} /\ i \in 1..i
    <3>1. \A x \in 1..i : x \in 1..n
      OBVIOUS
    <3>2. i \in 1..i
      OBVIOUS
    <3> QED  BY <3>1, <3>2
  <2>2. Max(1..i) = i
    <3>1. Max(1..i) \in 1..i /\ i <= Max(1..i)
      BY <2>1, MaxOf
    <3> QED  BY <3>1
  <2>3. (1..i) \ {i} = 1..(i - 1)
    BY <1>1
  <2>4. F[1..i] = G[<<i, F[1..(i - 1)]>>]
    BY <1>1, <2>1, <2>2, <2>3 DEF PartlyFolded
  <2> QED  BY <1>1, <2>4
<1>2. 1..0 = {} /\ F[{}] = b
  BY DEF PartlyFolded
<1>3. 0..n \subseteq T
  <2>1. 0 \in T
    BY <1>2
  <2>2. \A m \in 0..n : m \in T /\ m < n => m + 1 \in T
    <3> TAKE m \in 0..n
    <3> HAVE m \in T /\ m < n
    <3>1. m + 1 \in 1..n /\ (m + 1) - 1 = m /\ m + 1 \in 0..n
      OBVIOUS
    <3>2. F[1..(m + 1)] \in V
      BY <1>1, <3>1
    <3> QED  BY <3>1, <3>2
  <2> HIDE DEF T
  <2> QED  BY <2>1, <2>2, UpTo
<1>4. \A i \in 1..n : F[1..i] = G[<<i, F[1..(i - 1)]>>]
  <2> TAKE i \in 1..n
  <2>1. i - 1 \in 0..n
    OBVIOUS
  <2> QED  BY <1>1, <1>3, <2>1
<1> DEFINE f == [i \in 0..n |-> F[1..i]]
<1>5. f \in [0..n -> V] /\ f[0] = b
  BY <1>2, <1>3
<1>6. \A i \in 1..n : f[i] = G[<<i, f[i - 1]>>]
  <2> TAKE i \in 1..n
  <2>1. i - 1 \in 0..n /\ i \in 0..n
    OBVIOUS
  <2> QED  BY <1>4, <2>1
<1> QED  BY <1>5, <1>6 DEF Takes
-----------------------------------------------------------------------------
(* Two sequences one after the other. *)
LEMMA Concat ==
  ASSUME NEW S, NEW a \in Seq(S), NEW b \in Seq(S)
  PROVE  /\ Len(a) \in Nat /\ Len(b) \in Nat
         /\ a \o b \in Seq(S) /\ Len(a \o b) = Len(a) + Len(b)
         /\ \A i \in 1..Len(a) : (a \o b)[i] = a[i]
         /\ \A i \in 1..Len(b) : (a \o b)[Len(a) + i] = b[i]
  OBVIOUS

(* The concatenation of sequences over S is a sequence over S. *)
LEMMA FlattenType ==
  ASSUME NEW S, NEW ss \in Seq(Seq(S))
  PROVE  FlattenSeq(ss) \in Seq(S)
<1> DEFINE n == Len(ss)
           F == CHOOSE f : f = [i \in 1..n |-> IF i = 1 THEN ss[i] ELSE f[i - 1] \o ss[i]]
           G == [p \in (1..n) \X Seq(S) |-> p[2] \o ss[p[1]]]
<1>1. n \in Nat /\ \A i \in 1..n : ss[i] \in Seq(S)
  OBVIOUS
<1>2. CASE n = 0
  BY <1>2 DEF FlattenSeq
<1>3. CASE n # 0
  <2>1. FlattenSeq(ss) = F[n]
    BY <1>3 DEF FlattenSeq
  <2>2. G \in [(1..n) \X Seq(S) -> Seq(S)] /\ << >> \in Seq(S)
    BY <1>1, ConcatProperties
  <2>3. PICK f : Takes(f, Seq(S), << >>, G, n)
    <3> HIDE DEF G
    <3> QED  BY <1>1, <2>2, Recursion
  <2>4. f \in [0..n -> Seq(S)] /\ f[0] = << >> /\ \A i \in 1..n : f[i] = G[<<i, f[i - 1]>>]
    BY <2>3 DEF Takes
  <2> DEFINE g == [i \in 1..n |-> f[i]]
  <2>5. \A i \in 1..n : g[i] = IF i = 1 THEN ss[i] ELSE g[i - 1] \o ss[i]
    <3> TAKE i \in 1..n
    <3>a. i - 1 \in 0..n
      BY <1>1
    <3>1. f[i - 1] \in Seq(S)
      BY <2>4, <3>a
    <3>2. G[<<i, f[i - 1]>>] = f[i - 1] \o ss[i]
      BY <3>1
    <3>3. f[i] = f[i - 1] \o ss[i]
      BY <2>4, <3>2
    <3>4. CASE i = 1
      <4>1. ss[1] \in Seq(S) /\ i - 1 = 0  BY <1>1, <3>4
      <4>2. f[i] = << >> \o ss[1]  BY <2>4, <3>3, <3>4, <4>1
      <4> QED  BY <3>4, <4>1, <4>2, ConcatEmptySeq
    <3>5. CASE i # 1
      <4>1. i - 1 \in 1..n  BY <1>1, <3>5
      <4> QED  BY <3>3, <3>5, <4>1
    <3> QED  BY <3>4, <3>5
  <2>6. g = [i \in 1..n |-> IF i = 1 THEN ss[i] ELSE g[i - 1] \o ss[i]]
    <3> DEFINE h == [i \in 1..n |-> IF i = 1 THEN ss[i] ELSE g[i - 1] \o ss[i]]
    <3>1. \A i \in 1..n : g[i] = h[i]
      BY <2>5
    <3>2. DOMAIN g = 1..n /\ DOMAIN h = 1..n /\ g = [i \in 1..n |-> g[i]]
      OBVIOUS
    <3> QED  BY <3>1
  <2>7. F = [i \in 1..n |-> IF i = 1 THEN ss[i] ELSE F[i - 1] \o ss[i]]
    BY <2>6
  <2> DEFINE U == {m \in 0..n : m = 0 \/ F[m] \in Seq(S)}
  <2> HIDE DEF F
  <2>8. ASSUME NEW m \in 0..n, m \in U, m < n PROVE m + 1 \in U
    <3>1. m + 1 \in 1..n
      BY <1>1, <2>8
    <3>2. F[m + 1] = IF m + 1 = 1 THEN ss[m + 1] ELSE F[(m + 1) - 1] \o ss[m + 1]
      BY <3>1, <2>7
    <3>3. CASE m = 0  BY <1>1, <3>1, <3>2, <3>3
    <3>4. CASE m # 0
      <4>1. F[m] \in Seq(S) /\ ss[m + 1] \in Seq(S) /\ (m + 1) - 1 = m /\ m + 1 # 1
        BY <3>4, <1>1, <2>8
      <4>2. F[m + 1] \in Seq(S)  BY <3>2, <4>1, ConcatProperties
      <4> QED  BY <4>2, <2>8
    <3> QED  BY <3>3, <3>4
  <2>9. n \in U
    <3>1. 0 \in U  BY <1>1
    <3> HIDE DEF U
    <3>2. 0..n \subseteq U  BY <1>1, <3>1, <2>8, UpTo
    <3> QED  BY <1>1, <3>2
  <2> QED  BY <1>3, <2>1, <2>9
<1> QED  BY <1>2, <1>3
=============================================================================
