-------------------------- MODULE LinkLocksProofs --------------------------
(***************************************************************************)
(* Proofs, for any files, rows and transactions, of what LinkLocks         *)
(* promises.                                                               *)
(***************************************************************************)
EXTENDS LinkLocks, DataInduction, FiniteSetTheorems

Ascending(s) == \A i, j \in 1..Len(s) : i < j => s[i] < s[j]

(* The rows of a set, each once, in the order of their numbers. *)
LEMMA InOrderAscends ==
  ASSUME NEW S
  PROVE  /\ InOrder(S) \in Seq(DOMAIN Rows) /\ Ascending(InOrder(S))
         /\ \A i \in 1..Len(InOrder(S)) : InOrder(S)[i] \in S
         /\ \A x \in DOMAIN Rows : x \in S => \E i \in 1..Len(InOrder(S)) : InOrder(S)[i] = x
<1> DEFINE n == Len(Rows)
           V == Seq(1..n)
           G == [p \in (1..n) \X V |-> IF p[1] \in S THEN Append(p[2], p[1]) ELSE p[2]]
           upTo == CHOOSE f : f = [i \in 0..n |->
                     IF i = 0 THEN << >>
                     ELSE IF i \in S THEN Append(f[i - 1], i) ELSE f[i - 1]]
<1>1. n \in Nat /\ DOMAIN Rows = 1..n
  BY RowsAssumption
<1>2. InOrder(S) = upTo[n]
  BY DEF InOrder
<1>3. \E f : Takes(f, V, << >>, G, n)
  <2>1. G \in [(1..n) \X V -> V]
    <3>1. \A i \in 1..n, s \in V : Append(s, i) \in V
      BY AppendProperties
    <3> HIDE DEF n, V
    <3> QED  BY <3>1
  <2>2. << >> \in V
    OBVIOUS
  <2> HIDE DEF G, V
  <2> QED  BY <1>1, <2>1, <2>2, Recursion
<1>4. PICK f : Takes(f, V, << >>, G, n)
  BY <1>3
<1>5. f \in [0..n -> V] /\ f[0] = << >> /\ \A i \in 1..n : f[i] = G[<<i, f[i - 1]>>]
  BY <1>4 DEF Takes
<1>6. \A i \in 0..n : f[i] = IF i = 0 THEN << >>
                             ELSE IF i \in S THEN Append(f[i - 1], i) ELSE f[i - 1]
  <2> TAKE i \in 0..n
  <2>1. CASE i = 0  BY <1>5, <2>1
  <2>2. CASE i # 0
    <3>1. i \in 1..n /\ i - 1 \in 0..n  BY <1>1, <2>2
    <3>2. f[i - 1] \in V  BY <1>5, <3>1
    <3>3. G[<<i, f[i - 1]>>] = IF i \in S THEN Append(f[i - 1], i) ELSE f[i - 1]
      BY <3>1, <3>2
    <3>4. f[i] = G[<<i, f[i - 1]>>]  BY <1>5, <3>1
    <3> QED  BY <2>2, <3>3, <3>4
  <2> QED  BY <2>1, <2>2
<1>7. f = [i \in 0..n |-> IF i = 0 THEN << >>
                          ELSE IF i \in S THEN Append(f[i - 1], i) ELSE f[i - 1]]
  <2>1. f = [i \in 0..n |-> f[i]]  BY <1>5
  <2> QED  BY <1>6, <2>1
<1>8. upTo = [i \in 0..n |-> IF i = 0 THEN << >>
                             ELSE IF i \in S THEN Append(upTo[i - 1], i) ELSE upTo[i - 1]]
  BY <1>7
<1> HIDE DEF upTo
<1> DEFINE P(m) == /\ upTo[m] \in V
                   /\ Ascending(upTo[m])
                   /\ \A k \in 1..Len(upTo[m]) : upTo[m][k] <= m /\ upTo[m][k] \in S
                   /\ \A x \in 1..m : x \in S => \E k \in 1..Len(upTo[m]) : upTo[m][k] = x
           T == {m \in 0..n : P(m)}
<1>9. P(0)
  <2>1. upTo[0] = << >>  BY <1>1, <1>8
  <2> QED  BY <2>1 DEF Ascending
<1>10. ASSUME NEW m \in 0..n, P(m), m < n PROVE P(m + 1)
  <2>1. m + 1 \in 1..n /\ m + 1 # 0 /\ (m + 1) - 1 = m /\ m + 1 \in 0..n
    BY <1>1, <1>10
  <2>2. upTo[m + 1] = IF m + 1 \in S THEN Append(upTo[m], m + 1) ELSE upTo[m]
    BY <1>8, <2>1
  <2> DEFINE s == upTo[m]
  <2>3. s \in Seq(1..n) /\ Len(s) \in Nat /\ Ascending(s) /\ \A k \in 1..Len(s) : s[k] <= m /\ s[k] \in 1..n
    BY <1>10
  <2>6. \A k \in 1..Len(s) : s[k] \in S
    BY <1>10
  <2>7. \A x \in 1..m : x \in S => \E k \in 1..Len(s) : s[k] = x
    BY <1>10
  <2> HIDE DEF s
  <2>4. CASE m + 1 \in S
    <3> DEFINE t == Append(s, m + 1)
    <3>1. /\ t \in Seq(1..n) /\ Len(t) = Len(s) + 1
          /\ \A k \in 1..Len(s) : t[k] = s[k]
          /\ t[Len(s) + 1] = m + 1
      BY <2>1, <2>3, AppendProperties
    <3> HIDE DEF t
    <3>2. \A k \in 1..Len(t) : k \in 1..Len(s) \/ k = Len(s) + 1
      BY <2>3, <3>1
    <3>3. \A k \in 1..Len(t) : t[k] <= m + 1 /\ t[k] \in S
      <4> TAKE k \in 1..Len(t)
      <4>1. CASE k \in 1..Len(s)
        <5>1. s[k] <= m /\ s[k] \in 1..n /\ s[k] \in S  BY <2>3, <2>6, <4>1
        <5>2. t[k] = s[k]  BY <3>1, <4>1
        <5> HIDE DEF n
        <5> QED  BY <1>1, <5>1, <5>2
      <4>2. CASE k = Len(s) + 1  BY <2>1, <2>4, <3>1, <4>2
      <4> QED  BY <3>2, <4>1, <4>2
    <3>4. Ascending(t)
      <4> SUFFICES ASSUME NEW i \in 1..Len(t), NEW j \in 1..Len(t), i < j PROVE t[i] < t[j]
        BY DEF Ascending
      <4>1. i \in 1..Len(s)  BY <2>3, <3>1
      <4>2. CASE j \in 1..Len(s)  BY <2>3, <3>1, <4>1, <4>2 DEF Ascending
      <4>3. CASE j = Len(s) + 1  BY <2>1, <2>3, <3>1, <4>1, <4>3
      <4> QED  BY <3>2, <4>2, <4>3
    <3>5. upTo[m + 1] = t
      BY <2>2, <2>4 DEF t, s
    <3>6. \A x \in 1..(m + 1) : x \in S => \E k \in 1..Len(t) : t[k] = x
      <4> SUFFICES ASSUME NEW x \in 1..(m + 1), x \in S PROVE \E k \in 1..Len(t) : t[k] = x
        OBVIOUS
      <4>3. x \in 1..m \/ x = m + 1
        BY <2>1
      <4>1. CASE x = m + 1
        <5>1. Len(s) + 1 \in 1..Len(t)  BY <2>3, <3>1
        <5> QED  BY <3>1, <4>1, <5>1
      <4>2. CASE x \in 1..m
        <5>1. PICK k \in 1..Len(s) : s[k] = x
          BY <2>7, <4>2
        <5>2. k \in 1..Len(t) /\ t[k] = x  BY <2>3, <3>1, <5>1
        <5> QED  BY <5>2
      <4> QED  BY <4>1, <4>2, <4>3
    <3> QED  BY <3>1, <3>3, <3>4, <3>5, <3>6
  <2>5. CASE m + 1 \notin S
    <3>1. upTo[m + 1] = s
      BY <2>2, <2>5 DEF s
    <3>2. \A x \in 1..(m + 1) : x \in S => x \in 1..m
      BY <2>1, <2>5
    <3>3. \A k \in 1..Len(s) : s[k] <= m + 1
      BY <2>1, <2>3
    <3>4. \A x \in 1..(m + 1) : x \in S => \E k \in 1..Len(s) : s[k] = x
      BY <2>7, <3>2
    <3> QED  BY <2>3, <2>6, <3>1, <3>3, <3>4
  <2> QED  BY <2>4, <2>5
<1>11. P(n)
  <2> HIDE DEF P
  <2>1. 0 \in T  BY <1>1, <1>9
  <2>2. \A m \in 0..n : m \in T /\ m < n => m + 1 \in T
    BY <1>1, <1>10
  <2>3. 0..n \subseteq T
    <3> HIDE DEF T
    <3> QED  BY <1>1, <2>1, <2>2, UpTo
  <2> QED  BY <1>1, <2>3
<1> QED  BY <1>1, <1>2, <1>11
-----------------------------------------------------------------------------
(* The statements of loaders and of rebuilds. *)
RowStatements == [does : {"lock", "delete", "check", "insert"}, rows : SUBSET DOMAIN Rows]
Loading       == {Take(Link, TRUE)} \cup {Take(Path(f), FALSE) : f \in Files}
                   \cup {Take(Occurrences(f), FALSE) : f \in Files} \cup RowStatements
Rebuilding    == {Take(Link, FALSE)} \cup RowStatements

LEMMA RowStatementTypes ==
  ASSUME NEW S \in SUBSET DOMAIN Rows
  PROVE  /\ {LockRows(S), DeleteRows(S), CheckRows(S), InsertRows(S)} \subseteq RowStatements
         /\ LockRows(S).does = "lock" /\ LockRows(S).rows = S
         /\ DeleteRows(S).does = "delete" /\ DeleteRows(S).rows = S
         /\ CheckRows(S).does = "check" /\ CheckRows(S).rows = S
  BY DEF LockRows, DeleteRows, CheckRows, InsertRows, RowStatements

LEMMA Sides ==
  ASSUME NEW tbl, NEW F
  PROVE  /\ From(tbl, F) \in SUBSET DOMAIN Rows /\ To(tbl, F) \in SUBSET DOMAIN Rows
         /\ \A i \in From(tbl, F) : Rows[i].table = tbl /\ Rows[i].from \in F
         /\ \A i \in To(tbl, F) : Rows[i].table = tbl /\ Rows[i].to \in F
  BY DEF From, To

(* The tables have their places, and every row is in one. *)
LEMMA Places ==
  /\ Place("resolves_to") = 1 /\ Place("calls") = 2 /\ Place("implements") = 3
  /\ Place("type_defines") = 4 /\ Place("imports") = 5
  /\ \A i \in DOMAIN Rows :
       /\ Rows[i].table \in {"resolves_to", "calls", "implements", "type_defines", "imports"}
       /\ Rows[i].from \in Files /\ Rows[i].to \in Files
<1> DEFINE T == {"resolves_to", "calls", "implements", "type_defines", "imports"}
           R == [table : T, from : Files, to : Files]
<1>1. DOMAIN TableOrder = 1..5
  BY DEF TableOrder
<1>2. /\ TableOrder[1] = "resolves_to" /\ TableOrder[2] = "calls" /\ TableOrder[3] = "implements"
      /\ TableOrder[4] = "type_defines" /\ TableOrder[5] = "imports"
  BY DEF TableOrder
<1>3. \A k \in 1..5 : k = 1 \/ k = 2 \/ k = 3 \/ k = 4 \/ k = 5
  OBVIOUS
<1>4. ASSUME NEW n \in 1..5 PROVE Place(TableOrder[n]) = n
  <2>1. \A k \in 1..5 : TableOrder[k] = TableOrder[n] => k = n
    BY <1>2, <1>3
  <2> QED  BY <1>1, <2>1 DEF Place
<1>5. ToSet(TableOrder) = T
  BY <1>1, <1>2, <1>3 DEF ToSet
<1>6. Rows \in Seq(R)
  BY <1>5, RowsAssumption
<1>7. \A r \in R : r.table \in T /\ r.from \in Files /\ r.to \in Files
  OBVIOUS
<1> HIDE DEF R, T
<1>8. \A i \in DOMAIN Rows : Rows[i] \in R
  BY <1>6
<1> QED  BY <1>2, <1>4, <1>7, <1>8 DEF T

LEMMA RowNumbers ==
  /\ DOMAIN Rows = 1..Len(Rows) /\ Len(Rows) \in Nat
  /\ \A i, j \in DOMAIN Rows : Place(Rows[i].table) < Place(Rows[j].table) => i < j
  /\ \A i \in DOMAIN Rows : Place(Rows[i].table) \in 1..5
<1>1. DOMAIN Rows = 1..Len(Rows) /\ Len(Rows) \in Nat
  BY RowsAssumption
<1>2. \A i \in DOMAIN Rows : Place(Rows[i].table) \in 1..5
  BY Places
<1>3. \A i, j \in DOMAIN Rows : i < j => Place(Rows[i].table) <= Place(Rows[j].table)
  BY RowsAssumption
<1>4. \A i, j \in DOMAIN Rows : Place(Rows[i].table) < Place(Rows[j].table) => i < j
  <2> TAKE i, j \in DOMAIN Rows
  <2>1. CASE j < i  BY <1>2, <1>3, <2>1
  <2>2. CASE j = i  BY <1>2, <2>2
  <2> QED  BY <1>1, <2>1, <2>2
<1> QED  BY <1>1, <1>2, <1>4

(* The edges of a load, of the tables in places m to n: a table's rows are  *)
(* locked above those before, and deleted when they have been locked, other *)
(* than its imports, which are its own.                                     *)
InPlaces(p, m, n) == \A k \in 1..Len(p) : \A i \in p[k].rows : Place(Rows[i].table) \in m..n
OwnImports(p, f)  == \A k \in 1..Len(p) : \A i \in p[k].rows :
                       Rows[i].table = "imports" => p[k].does = "delete" /\ Rows[i].from = f
LocksFirst(p)     == \A k \in 1..Len(p) : \A i \in p[k].rows :
                       Rows[i].table # "imports" /\ p[k].does = "delete"
                         => \E j \in 1..(k - 1) : p[j].does = "lock" /\ i \in p[j].rows
LocksUpward(p)    == \A j, k \in 1..Len(p) : j < k /\ p[k].does = "lock"
                       => \A a \in p[j].rows, b \in p[k].rows : a < b

Tidy(p, f, m, n) ==
  /\ p \in Seq(RowStatements) /\ \A k \in 1..Len(p) : p[k].does \in {"lock", "delete"}
  /\ InPlaces(p, m, n) /\ OwnImports(p, f) /\ LocksFirst(p) /\ LocksUpward(p)

Locked(p) == {i \in DOMAIN Rows : \E k \in 1..Len(p) : p[k].does = "lock" /\ i \in p[k].rows}

LEMMA TidyConcat ==
  ASSUME NEW f, NEW m \in Nat, NEW n \in Nat, NEW o \in Nat, m <= n, n <= o,
         NEW p, NEW q, Tidy(p, f, m, n), Tidy(q, f, n + 1, o)
  PROVE  Tidy(p \o q, f, m, o) /\ Locked(p) \subseteq Locked(p \o q) /\ Locked(q) \subseteq Locked(p \o q)
<1> DEFINE r == p \o q
           P == Len(p)
<1>1. p \in Seq(RowStatements) /\ q \in Seq(RowStatements)
  BY DEF Tidy
<1>2. /\ P \in Nat /\ Len(q) \in Nat /\ r \in Seq(RowStatements) /\ Len(r) = P + Len(q)
      /\ \A i \in 1..P : r[i] = p[i]
      /\ \A i \in 1..Len(q) : r[P + i] = q[i]
  BY <1>1, Concat
<1>3. \A k \in 1..P : p[k] \in RowStatements
  BY <1>1
<1>4. \A k \in 1..Len(q) : q[k] \in RowStatements
  BY <1>1
<1>5. \A s \in RowStatements : s.rows \subseteq DOMAIN Rows
  BY DEF RowStatements
<1> HIDE DEF r, P
<1>6. \A k \in 1..Len(r) : k \in 1..P \/ (k - P \in 1..Len(q) /\ P + (k - P) = k)
  BY <1>2
<1>7. ASSUME NEW k \in 1..Len(r)
      PROVE  /\ r[k].does \in {"lock", "delete"}
             /\ \A i \in r[k].rows : Place(Rows[i].table) \in m..o
             /\ \A i \in r[k].rows : Rows[i].table = "imports" => r[k].does = "delete" /\ Rows[i].from = f
             /\ \A i \in r[k].rows : Rows[i].table # "imports" /\ r[k].does = "delete"
                    => \E j \in 1..(k - 1) : r[j].does = "lock" /\ i \in r[j].rows
  <2>1. CASE k \in 1..P
    <3>1. r[k] = p[k] /\ \A j \in 1..(k - 1) : r[j] = p[j]
      BY <1>2, <2>1
    <3>2. p[k].does \in {"lock", "delete"} /\ k \in 1..Len(p)
      BY <2>1 DEF Tidy, P
    <3>3. \A i \in p[k].rows : Place(Rows[i].table) \in m..n
      BY <3>2 DEF Tidy, InPlaces
    <3>4. \A x \in m..n : x \in m..o
      OBVIOUS
    <3>5. \A i \in p[k].rows : Rows[i].table = "imports" => p[k].does = "delete" /\ Rows[i].from = f
      BY <3>2 DEF Tidy, OwnImports
    <3>6. \A i \in p[k].rows : Rows[i].table # "imports" /\ p[k].does = "delete"
                    => \E j \in 1..(k - 1) : p[j].does = "lock" /\ i \in p[j].rows
      BY <3>2 DEF Tidy, LocksFirst
    <3> QED  BY <3>1, <3>2, <3>3, <3>4, <3>5, <3>6
  <2>2. CASE k - P \in 1..Len(q) /\ P + (k - P) = k
    <3> DEFINE l == k - P
    <3>1. l \in 1..Len(q) /\ P + l = k
      BY <2>2
    <3> HIDE DEF l
    <3>2. r[k] = q[l] /\ q[l].does \in {"lock", "delete"}
      BY <1>2, <3>1 DEF Tidy
    <3>3. \A i \in q[l].rows : Place(Rows[i].table) \in (n + 1)..o
      BY <3>1 DEF Tidy, InPlaces
    <3>4. \A x \in (n + 1)..o : x \in m..o
      OBVIOUS
    <3>5. \A i \in q[l].rows : Rows[i].table = "imports" => q[l].does = "delete" /\ Rows[i].from = f
      BY <3>1 DEF Tidy, OwnImports
    <3>6. \A i \in q[l].rows : Rows[i].table # "imports" /\ q[l].does = "delete"
                    => \E j \in 1..(l - 1) : q[j].does = "lock" /\ i \in q[j].rows
      BY <3>1 DEF Tidy, LocksFirst
    <3>7. \A j \in 1..(l - 1) : P + j \in 1..(k - 1) /\ r[P + j] = q[j]
      BY <1>2, <3>1
    <3>8. ASSUME NEW i \in q[l].rows, Rows[i].table # "imports", q[l].does = "delete"
          PROVE  \E j \in 1..(k - 1) : r[j].does = "lock" /\ i \in r[j].rows
      <4>1. PICK j \in 1..(l - 1) : q[j].does = "lock" /\ i \in q[j].rows
        BY <3>6, <3>8
      <4> QED  BY <3>7, <4>1
    <3> QED  BY <3>2, <3>3, <3>4, <3>5, <3>8
  <2> QED  BY <1>6, <2>1, <2>2
<1>8. ASSUME NEW j \in 1..Len(r), NEW k \in 1..Len(r), j < k, r[k].does = "lock",
             NEW a \in r[j].rows, NEW b \in r[k].rows
      PROVE  a < b
  <2>1. CASE k \in 1..P
    <3>1. j \in 1..Len(p) /\ k \in 1..Len(p) /\ r[j] = p[j] /\ r[k] = p[k]
      BY <1>2, <1>8, <2>1 DEF P
    <3> QED  BY <1>8, <3>1 DEF Tidy, LocksUpward
  <2>2. CASE k - P \in 1..Len(q) /\ P + (k - P) = k
    <3> DEFINE l == k - P
    <3>1. l \in 1..Len(q) /\ P + l = k
      BY <2>2
    <3> HIDE DEF l
    <3>2. r[k] = q[l] /\ b \in q[l].rows /\ q[l].does = "lock"
      BY <1>2, <1>8, <3>1
    <3>3. CASE j \in 1..P
      <4>1. j \in 1..Len(p) /\ a \in p[j].rows
        BY <1>2, <1>8, <3>3 DEF P
      <4>2. Place(Rows[a].table) \in m..n
        BY <4>1 DEF Tidy, InPlaces
      <4>3. Place(Rows[b].table) \in (n + 1)..o
        BY <3>1, <3>2 DEF Tidy, InPlaces
      <4>4. a \in DOMAIN Rows /\ b \in DOMAIN Rows
        BY <1>3, <1>4, <1>5, <3>1, <3>2, <3>3, <4>1
      <4>5. Place(Rows[a].table) < Place(Rows[b].table)
        BY <4>2, <4>3
      <4> QED  BY <4>4, <4>5, RowNumbers
    <3>4. CASE j - P \in 1..Len(q) /\ P + (j - P) = j
      <4> DEFINE h == j - P
      <4>1. h \in 1..Len(q) /\ P + h = j /\ h < l
        BY <1>2, <1>8, <3>1, <3>4
      <4> HIDE DEF h
      <4>2. a \in q[h].rows
        BY <1>2, <1>8, <4>1
      <4> QED  BY <3>1, <3>2, <4>1, <4>2 DEF Tidy, LocksUpward
    <3> QED  BY <1>6, <3>3, <3>4
  <2> QED  BY <1>6, <2>1, <2>2
<1>9. Tidy(r, f, m, o)
  <2>1. InPlaces(r, m, o)  BY <1>7 DEF InPlaces
  <2>2. OwnImports(r, f)  BY <1>7 DEF OwnImports
  <2>3. LocksFirst(r)  BY <1>7 DEF LocksFirst
  <2>4. LocksUpward(r)  BY <1>8 DEF LocksUpward
  <2> QED  BY <1>2, <1>7, <2>1, <2>2, <2>3, <2>4 DEF Tidy
<1>10. Locked(p) \subseteq Locked(r)
  <2>1. \A k \in 1..P : k \in 1..Len(r) /\ r[k] = p[k]
    BY <1>2
  <2> QED  BY <2>1 DEF Locked, P
<1>11. Locked(q) \subseteq Locked(r)
  <2>1. \A k \in 1..Len(q) : P + k \in 1..Len(r) /\ r[P + k] = q[k]
    BY <1>2
  <2> SUFFICES ASSUME NEW i \in Locked(q) PROVE i \in Locked(r)
    OBVIOUS
  <2>2. PICK k \in 1..Len(q) : q[k].does = "lock" /\ i \in q[k].rows
    BY DEF Locked
  <2> QED  BY <2>1, <2>2 DEF Locked
<1> QED  BY <1>9, <1>10, <1>11 DEF r

(* One table is tidy, and locks all that is deleted. *)
LEMMA TableTidy ==
  ASSUME NEW f, NEW tbl, tbl # "imports", NEW m \in Nat, Place(tbl) = m
  PROVE  Tidy(RowsByFile(tbl, f), f, m, m) /\ From(tbl, {f}) \cup To(tbl, {f}) \subseteq Locked(RowsByFile(tbl, f))
<1> DEFINE S == From(tbl, {f})
           T == To(tbl, {f})
           p == <<LockRows(S \cup T), DeleteRows(S), DeleteRows(T)>>
           r == RowsByFile(tbl, f)
<1>1. /\ S \in SUBSET DOMAIN Rows /\ T \in SUBSET DOMAIN Rows
      /\ \A i \in S \cup T : Rows[i].table = tbl
  BY Sides
<1>2. r = IF S \cup T = {} THEN << >> ELSE p
  BY DEF RowsByFile, Unless
<1> HIDE DEF r, S, T
<1>3. CASE S \cup T = {}
  <2>1. r = << >> /\ Len(r) = 0
    BY <1>2, <1>3
  <2>2. Tidy(r, f, m, m)
    BY <2>1 DEF Tidy, InPlaces, OwnImports, LocksFirst, LocksUpward
  <2> QED  BY <1>3, <2>2 DEF r, S, T
<1>4. CASE S \cup T # {}
  <2>1. S \cup T \in SUBSET DOMAIN Rows
    BY <1>1
  <2>2. LockRows(S \cup T).does = "lock" /\ LockRows(S \cup T).rows = S \cup T
    BY <2>1, RowStatementTypes
  <2>3. /\ DeleteRows(S).does = "delete" /\ DeleteRows(S).rows = S
        /\ DeleteRows(T).does = "delete" /\ DeleteRows(T).rows = T
    BY <1>1, RowStatementTypes
  <2>4. {LockRows(S \cup T), DeleteRows(S), DeleteRows(T)} \subseteq RowStatements
    BY <1>1, <2>1, RowStatementTypes
  <2>5. /\ r \in Seq(RowStatements) /\ Len(r) = 3
        /\ r[1].does = "lock" /\ r[1].rows = S \cup T
        /\ r[2].does = "delete" /\ r[2].rows = S /\ r[3].does = "delete" /\ r[3].rows = T
    <3> DEFINE a == LockRows(S \cup T)
               b == DeleteRows(S)
               c == DeleteRows(T)
    <3>1. r = <<a, b, c>> /\ a \in RowStatements /\ b \in RowStatements /\ c \in RowStatements
      BY <1>2, <1>4, <2>4
    <3>2. /\ a.does = "lock" /\ a.rows = S \cup T /\ b.does = "delete" /\ b.rows = S
          /\ c.does = "delete" /\ c.rows = T
      BY <2>2, <2>3
    <3> HIDE DEF a, b, c
    <3>3. r \in Seq(RowStatements) /\ Len(r) = 3 /\ r[1] = a /\ r[2] = b /\ r[3] = c
      BY <3>1
    <3> QED  BY <3>2, <3>3
  <2>6. \A k \in 1..3 : k = 1 \/ (k = 2 /\ 1 \in 1..(k - 1)) \/ (k = 3 /\ 1 \in 1..(k - 1))
    OBVIOUS
  <2>7. m \in m..m
    OBVIOUS
  <2>8. Tidy(r, f, m, m)
    BY <1>1, <2>5, <2>6, <2>7 DEF Tidy, InPlaces, OwnImports, LocksFirst, LocksUpward
  <2>9. S \cup T \subseteq Locked(r)
    BY <2>1, <2>5 DEF Locked
  <2> QED  BY <2>8, <2>9 DEF r, S, T
<1> QED  BY <1>3, <1>4

(* The edges of a file: tidy throughout, and all its rows but its imports   *)
(* are locked.                                                              *)
LEMMA EdgesTidy ==
  ASSUME NEW f
  PROVE  /\ Tidy(EdgesByFile(f), f, 1, 5)
         /\ \A i \in DOMAIN Rows : f \in {Rows[i].from, Rows[i].to} /\ Rows[i].table # "imports"
                                   => i \in Locked(EdgesByFile(f))
<1> DEFINE a == RowsByFile("resolves_to", f)
           b == RowsByFile("calls", f)
           c == RowsByFile("implements", f)
           d == RowsByFile("type_defines", f)
           S == From("imports", {f})
           e == Unless(S, <<DeleteRows(S)>>)
           ab == a \o b
           abc == ab \o c
           abcd == abc \o d
           all == abcd \o e
<1>1. Tidy(a, f, 1, 1) /\ Tidy(b, f, 2, 2) /\ Tidy(c, f, 3, 3) /\ Tidy(d, f, 4, 4)
  BY Places, TableTidy
<1>2. Tidy(e, f, 5, 5)
  <2>1. S \in SUBSET DOMAIN Rows /\ \A i \in S : Rows[i].table = "imports" /\ Rows[i].from = f
    BY Sides
  <2>2. Place("imports") = 5
    BY Places
  <2> HIDE DEF S
  <2>3. CASE S = {}
    <3>1. e = << >> /\ Len(e) = 0
      BY <2>3 DEF Unless
    <3> QED  BY <3>1 DEF Tidy, InPlaces, OwnImports, LocksFirst, LocksUpward
  <2>4. CASE S # {}
    <3>1. DeleteRows(S) \in RowStatements /\ DeleteRows(S).does = "delete" /\ DeleteRows(S).rows = S
      BY <2>1, RowStatementTypes
    <3>2. e \in Seq(RowStatements) /\ Len(e) = 1 /\ e[1].does = "delete" /\ e[1].rows = S
      BY <2>4, <3>1 DEF Unless
    <3>3. 5 \in 5..5 /\ \A k \in 1..1 : k = 1
      OBVIOUS
    <3> QED  BY <2>1, <2>2, <3>2, <3>3 DEF Tidy, InPlaces, OwnImports, LocksFirst, LocksUpward
  <2> QED  BY <2>3, <2>4
<1>3. EdgesByFile(f) = all
  BY DEF EdgesByFile
<1>4. /\ From("resolves_to", {f}) \cup To("resolves_to", {f}) \subseteq Locked(a)
      /\ From("calls", {f}) \cup To("calls", {f}) \subseteq Locked(b)
      /\ From("implements", {f}) \cup To("implements", {f}) \subseteq Locked(c)
      /\ From("type_defines", {f}) \cup To("type_defines", {f}) \subseteq Locked(d)
  BY Places, TableTidy
<1> HIDE DEF a, b, c, d, e
<1>5. Tidy(ab, f, 1, 2) /\ Locked(a) \subseteq Locked(ab) /\ Locked(b) \subseteq Locked(ab)
  <2>1. Tidy(b, f, 1 + 1, 2)  BY <1>1
  <2> QED  BY <1>1, <2>1, TidyConcat
<1> HIDE DEF ab
<1>6. Tidy(abc, f, 1, 3) /\ Locked(ab) \subseteq Locked(abc) /\ Locked(c) \subseteq Locked(abc)
  <2>1. Tidy(c, f, 2 + 1, 3)  BY <1>1
  <2> QED  BY <1>5, <2>1, TidyConcat
<1> HIDE DEF abc
<1>7. Tidy(abcd, f, 1, 4) /\ Locked(abc) \subseteq Locked(abcd) /\ Locked(d) \subseteq Locked(abcd)
  <2>1. Tidy(d, f, 3 + 1, 4)  BY <1>1
  <2>2. 1 \in Nat /\ 3 \in Nat /\ 4 \in Nat /\ 1 <= 3 /\ 3 <= 4  OBVIOUS
  <2> QED  BY <1>6, <2>1, <2>2, TidyConcat
<1> HIDE DEF abcd
<1>8. Tidy(all, f, 1, 5) /\ Locked(abcd) \subseteq Locked(all)
  <2>1. Tidy(e, f, 4 + 1, 5)  BY <1>2
  <2> QED  BY <1>7, <2>1, TidyConcat
<1>9. ASSUME NEW i \in DOMAIN Rows, f \in {Rows[i].from, Rows[i].to}, Rows[i].table # "imports"
      PROVE  i \in Locked(all)
  <2> DEFINE t == Rows[i].table
  <2>1. i \in From(t, {f}) \cup To(t, {f})
    BY <1>9 DEF From, To
  <2>2. t \in {"resolves_to", "calls", "implements", "type_defines"}
    BY <1>9, Places
  <2> HIDE DEF t
  <2> QED  BY <1>4, <1>5, <1>6, <1>7, <1>8, <2>1, <2>2
<1> QED  BY <1>3, <1>8, <1>9
-----------------------------------------------------------------------------
(* What is locked is the link lock, a path, a row or a file's occurrences.  *)
LEMMA Distinct ==
  /\ Link \notin Tuples /\ \A f : Path(f) \notin Tuples /\ Path(f) # Link
  /\ \A f : Occurrences(f) # Link /\ \A g : Occurrences(f) # Path(g)
  /\ \A i : Row(i) # Link /\ \A f : Row(i) # Path(f) /\ Row(i) # Occurrences(f)
  /\ \A i \in DOMAIN Rows : Row(i) \in Tuples
  /\ \A f \in Files : Occurrences(f) \in Tuples
  /\ \A i, j : Row(i) = Row(j) => i = j
  /\ \A f, g : (Path(f) = Path(g) => f = g) /\ (Occurrences(f) = Occurrences(g) => f = g)
  /\ \A x \in Tuples : (\E i \in DOMAIN Rows : x = Row(i)) \/ (\E f \in Files : x = Occurrences(f))
<1>1. /\ \A f : Path(f) # Link /\ Occurrences(f) # Link
      /\ \A i : Row(i) # Link
  BY DEF Path, Occurrences, Row, Link
<1>2. /\ \A f : \A g : Occurrences(f) # Path(g)
      /\ \A i : \A f : Row(i) # Path(f) /\ Row(i) # Occurrences(f)
  BY DEF Path, Occurrences, Row
<1>3. /\ \A i, j : Row(i) = Row(j) => i = j
      /\ \A f, g : (Path(f) = Path(g) => f = g) /\ (Occurrences(f) = Occurrences(g) => f = g)
  BY DEF Path, Occurrences, Row
<1>4. \A x : x \in Tuples <=> (\E i \in DOMAIN Rows : x = Row(i)) \/ (\E f \in Files : x = Occurrences(f))
  BY DEF Tuples
<1>5. Link \notin Tuples /\ \A f : Path(f) \notin Tuples
  BY <1>1, <1>2, <1>4
<1> QED  BY <1>1, <1>2, <1>3, <1>4, <1>5

LEMMA Takes_ ==
  ASSUME NEW x, NEW share
  PROVE  Take(x, share).does = "take" /\ Take(x, share).on = x /\ Take(x, share).share = share
  BY DEF Take

LEMMA LoadingTypes ==
  /\ Take(Link, TRUE) \in Loading /\ RowStatements \subseteq Loading
  /\ \A f \in Files : Take(Path(f), FALSE) \in Loading /\ Take(Occurrences(f), FALSE) \in Loading
  BY DEF Loading

(* The program of a load of f: the link lock, the path, and from there on   *)
(* the statements of the edges, the occurrences, and the check of them.     *)
AfterPath(p, f) ==
  /\ \A k \in 3..Len(p) : \/ p[k] = Take(Occurrences(f), FALSE)
                          \/ p[k] \in RowStatements /\ p[k].does \in {"lock", "delete", "check"}
  /\ \A k \in 3..Len(p) : p[k] \in RowStatements => \A i \in p[k].rows :
       Rows[i].table = "imports" => p[k].does = "delete" /\ Rows[i].from = f
FirstLocked(p) ==
  \A k \in 3..Len(p) : p[k] \in RowStatements /\ p[k].does # "lock" => \A i \in p[k].rows :
    Rows[i].table # "imports"
      => \E j \in 3..(k - 1) : p[j] \in RowStatements /\ p[j].does = "lock" /\ i \in p[j].rows
LockedUpward(p) ==
  \A j, k \in 3..Len(p) : j < k /\ p[j] \in RowStatements /\ p[k] \in RowStatements /\ p[k].does = "lock"
    => \A a \in p[j].rows, b \in p[k].rows : a < b

LEMMA ReplaceFileProgram ==
  ASSUME NEW f \in Files
  PROVE  /\ ReplaceFile(f) \in Seq(Loading) /\ Len(ReplaceFile(f)) >= 4
         /\ ReplaceFile(f)[1] = Take(Link, TRUE) /\ ReplaceFile(f)[2] = Take(Path(f), FALSE)
         /\ AfterPath(ReplaceFile(f), f) /\ FirstLocked(ReplaceFile(f)) /\ LockedUpward(ReplaceFile(f))
<1> DEFINE C == {i \in DOMAIN Rows : f \in {Rows[i].from, Rows[i].to} /\ Rows[i].table # "imports"}
           p == <<Take(Link, TRUE), Take(Path(f), FALSE)>>
           E == EdgesByFile(f)
           o == Take(Occurrences(f), FALSE)
           c == CheckRows(C)
           q == <<o, c>>
           n == Len(E)
           R == ReplaceFile(f)
           pE == p \o E
<1>1. Tidy(E, f, 1, 5) /\ C \subseteq Locked(E) /\ C \in SUBSET DOMAIN Rows
  BY EdgesTidy
<1>2. E \in Seq(Loading) /\ n \in Nat /\ \A k \in 1..n : E[k] \in RowStatements
  <2>1. E \in Seq(RowStatements)  BY <1>1 DEF Tidy
  <2> HIDE DEF E
  <2> QED  BY <2>1, LoadingTypes
<1>3. p \in Seq(Loading) /\ Len(p) = 2 /\ p[1] = Take(Link, TRUE) /\ p[2] = Take(Path(f), FALSE)
  <2> DEFINE a == Take(Link, TRUE)
             b == Take(Path(f), FALSE)
  <2>1. a \in Loading /\ b \in Loading  BY LoadingTypes
  <2> HIDE DEF a, b
  <2>2. p = <<a, b>>  BY DEF a, b
  <2>3. p \in Seq(Loading) /\ Len(p) = 2 /\ p[1] = a /\ p[2] = b
    <3> HIDE DEF p
    <3> QED  BY <2>1, <2>2
  <2> QED  BY <2>3 DEF a, b
<1>4. c \in RowStatements /\ c.does = "check" /\ c.rows = C
  <2> HIDE DEF C
  <2> QED  BY <1>1, RowStatementTypes
<1>5. q \in Seq(Loading) /\ Len(q) = 2 /\ q[1] = o /\ q[2] = c
  <2>1. o \in Loading /\ c \in Loading  BY <1>4, LoadingTypes
  <2> HIDE DEF o, c
  <2> QED  BY <2>1
<1>6. R = pE \o q
  BY DEF ReplaceFile, OccurrencesByFile
<1>7. o.does = "take" /\ o \notin RowStatements
  <2>1. o.does = "take"  BY Takes_
  <2>2. \A s \in RowStatements : s.does # "take"
    BY DEF RowStatements
  <2> QED  BY <2>1, <2>2
<1> HIDE DEF C, p, E, o, c, q, R
<1>8. /\ pE \in Seq(Loading) /\ Len(pE) = 2 + n
      /\ \A i \in 1..2 : pE[i] = p[i]
      /\ \A i \in 1..n : pE[2 + i] = E[i]
  <2>1. p \in Seq(Loading) /\ E \in Seq(Loading) /\ Len(p) = 2 /\ n = Len(E)  BY <1>2, <1>3 DEF n
  <2>2. /\ pE \in Seq(Loading) /\ Len(pE) = Len(p) + Len(E)
        /\ \A i \in 1..Len(p) : pE[i] = p[i]
        /\ \A i \in 1..Len(E) : pE[Len(p) + i] = E[i]
    <3>1. p \in Seq(Loading) /\ E \in Seq(Loading)  BY <2>1
    <3> QED  BY <3>1, Concat
  <2> HIDE DEF pE, n
  <2> QED  BY <2>1, <2>2
<1> HIDE DEF pE
<1>9. /\ R \in Seq(Loading) /\ Len(R) = (2 + n) + 2
      /\ \A i \in 1..(2 + n) : R[i] = pE[i]
      /\ \A i \in 1..2 : R[(2 + n) + i] = q[i]
  <2>1. pE \in Seq(Loading) /\ q \in Seq(Loading)  BY <1>5, <1>8
  <2>2. /\ R \in Seq(Loading) /\ Len(R) = Len(pE) + Len(q)
        /\ \A i \in 1..Len(pE) : R[i] = pE[i]
        /\ \A i \in 1..Len(q) : R[Len(pE) + i] = q[i]
    BY <1>6, <2>1, Concat
  <2> HIDE DEF n
  <2> QED  BY <1>2, <1>5, <1>8, <2>2
<1>10. R[1] = p[1] /\ R[2] = p[2]
  <2>1. 1 \in 1..2 /\ 2 \in 1..2 /\ 1 \in 1..(2 + n) /\ 2 \in 1..(2 + n)  BY <1>2
  <2> QED  BY <1>8, <1>9, <2>1
<1>11. \A i \in 1..n : R[2 + i] = E[i]
  <2> TAKE i \in 1..n
  <2>1. 2 + i \in 1..(2 + n)  BY <1>2
  <2> QED  BY <1>8, <1>9, <2>1
<1>12. R[n + 3] = o /\ R[n + 4] = c
  <2>1. 1 \in 1..2 /\ 2 \in 1..2 /\ (2 + n) + 1 = n + 3 /\ (2 + n) + 2 = n + 4  BY <1>2
  <2> QED  BY <1>5, <1>9, <2>1
<1>13. ASSUME NEW k \in 3..Len(R)
       PROVE  (k - 2 \in 1..n /\ R[k] = E[k - 2]) \/ k = n + 3 \/ k = n + 4
  <2>1. CASE k <= n + 2
    <3>1. k - 2 \in 1..n /\ 2 + (k - 2) = k  BY <1>2, <2>1
    <3> QED  BY <1>11, <3>1
  <2>2. CASE ~(k <= n + 2)
    <3>1. k \in 3..(n + 4)  BY <1>2, <1>9
    <3> QED  BY <1>2, <2>2, <3>1
  <2> QED  BY <2>1, <2>2
<1>14. \A k \in 1..n : k + 2 \in 3..Len(R) /\ R[k + 2] = E[k]
  <2> TAKE k \in 1..n
  <2>1. k + 2 = 2 + k /\ k + 2 \in 3..Len(R)  BY <1>2, <1>9
  <2> QED  BY <1>11, <2>1
<1>15. AfterPath(R, f)
  <2>1. \A k \in 1..n : E[k].does \in {"lock", "delete"}
    BY <1>1 DEF Tidy
  <2>2. \A k \in 1..n : \A i \in E[k].rows :
          Rows[i].table = "imports" => E[k].does = "delete" /\ Rows[i].from = f
    BY <1>1 DEF Tidy, OwnImports
  <2>3. \A i \in C : Rows[i].table # "imports"
    BY DEF C
  <2>4. \A k \in 3..Len(R) : \/ R[k] = o
                             \/ R[k] \in RowStatements /\ R[k].does \in {"lock", "delete", "check"}
    BY <1>2, <1>4, <1>12, <1>13, <2>1
  <2>5. \A k \in 3..Len(R) : R[k] \in RowStatements => \A i \in R[k].rows :
          Rows[i].table = "imports" => R[k].does = "delete" /\ Rows[i].from = f
    BY <1>4, <1>7, <1>12, <1>13, <2>2, <2>3
  <2> QED  BY <2>4, <2>5 DEF AfterPath, o
<1>16. FirstLocked(R)
  <2> SUFFICES ASSUME NEW k \in 3..Len(R), R[k] \in RowStatements, R[k].does # "lock",
                      NEW i \in R[k].rows, Rows[i].table # "imports"
               PROVE  \E j \in 3..(k - 1) : R[j] \in RowStatements /\ R[j].does = "lock" /\ i \in R[j].rows
    BY DEF FirstLocked
  <2>1. PICK j \in 1..n : j + 2 < k /\ E[j].does = "lock" /\ i \in E[j].rows
    <3>1. CASE k - 2 \in 1..n /\ R[k] = E[k - 2]
      <4>1. E[k - 2].does = "delete"
        BY <1>1, <3>1 DEF Tidy
      <4>2. \E j \in 1..((k - 2) - 1) : E[j].does = "lock" /\ i \in E[j].rows
        BY <1>1, <3>1, <4>1 DEF Tidy, LocksFirst
      <4>3. \A j \in 1..((k - 2) - 1) : j \in 1..n /\ j + 2 < k
        BY <1>2, <3>1
      <4> QED  BY <4>2, <4>3
    <3>2. CASE k = n + 4
      <4>1. i \in Locked(E)  BY <1>1, <1>4, <1>12, <3>2
      <4>2. \E j \in 1..n : E[j].does = "lock" /\ i \in E[j].rows
        BY <4>1 DEF Locked
      <4>3. \A j \in 1..n : j + 2 < k  BY <1>2, <3>2
      <4> QED  BY <4>2, <4>3
    <3> QED  BY <1>7, <1>12, <1>13, <3>1, <3>2
  <2>2. j + 2 \in 3..(k - 1) /\ R[j + 2] = E[j] /\ E[j] \in RowStatements
    BY <1>2, <1>14, <2>1
  <2> QED  BY <2>1, <2>2
<1>17. LockedUpward(R)
  <2> SUFFICES ASSUME NEW j \in 3..Len(R), NEW k \in 3..Len(R), j < k,
                      R[j] \in RowStatements, R[k] \in RowStatements, R[k].does = "lock",
                      NEW a \in R[j].rows, NEW b \in R[k].rows
               PROVE  a < b
    BY DEF LockedUpward
  <2>1. k - 2 \in 1..n /\ R[k] = E[k - 2]
    BY <1>4, <1>7, <1>12, <1>13
  <2>2. j - 2 \in 1..n /\ R[j] = E[j - 2] /\ j - 2 < k - 2
    <3>1. j # n + 3 /\ j # n + 4  BY <1>2, <2>1
    <3> QED  BY <1>13, <3>1
  <2> QED  BY <1>1, <2>1, <2>2 DEF Tidy, LocksUpward
<1>18. Len(R) >= 4
  BY <1>2, <1>9
<1> QED  BY <1>3, <1>9, <1>10, <1>15, <1>16, <1>17, <1>18 DEF R
(* A statement that is left out is none. *)
LEMMA UnlessType ==
  ASSUME NEW X, NEW S, NEW s \in Seq(X)
  PROVE  Unless(S, s) \in Seq(X)
  BY DEF Unless

(* What is re-derived of a table, by a batch or by a rebuild. *)
LEMMA DerivedTypes ==
  ASSUME NEW S \in SUBSET DOMAIN Rows, NEW tbl, NEW X, RowStatements \subseteq X
  PROVE  /\ <<DeleteRows(S)>> \o Unless({tbl} \ {"imports"}, <<InsertRows(S)>>) \in Seq(X)
         /\ <<LockRows(S), DeleteRows(S)>> \o Unless({tbl} \ {"imports"}, <<InsertRows(S)>>) \in Seq(X)
<1> DEFINE l == LockRows(S)
           d == DeleteRows(S)
           i == InsertRows(S)
           u == Unless({tbl} \ {"imports"}, <<i>>)
<1>1. l \in X /\ d \in X /\ i \in X
  BY RowStatementTypes
<1> HIDE DEF l, d, i
<1>2. <<l, d>> \in Seq(X) /\ <<d>> \in Seq(X) /\ <<i>> \in Seq(X)
  BY <1>1
<1>3. u \in Seq(X)
  BY <1>2, UnlessType
<1> HIDE DEF u
<1>4. <<d>> \o u \in Seq(X) /\ <<l, d>> \o u \in Seq(X)
  BY <1>2, <1>3, ConcatProperties
<1> QED  BY <1>4 DEF l, d, i, u

(* A batch takes the link lock first, then loads its files, then re-links. *)
LEMMA BatchType ==
  ASSUME NEW t \in Batches
  PROVE  Batch(t) \in Seq(Loading) /\ Len(Batch(t)) >= 1 /\ Batch(t)[1] = Take(Link, TRUE)
<1> DEFINE L == Loading
           files == [k \in DOMAIN Loaded[t] |-> ReplaceFile(Loaded[t][k])]
           tables == [k \in DOMAIN TableOrder |-> RelinkTable(t, TableOrder[k])]
<1>1. files \in Seq(Seq(L))
  <2>1. /\ DOMAIN Loaded[t] = 1..Len(Loaded[t]) /\ Len(Loaded[t]) \in Nat
        /\ \A k \in 1..Len(Loaded[t]) : Loaded[t][k] \in Files
    BY TxnsAssumption
  <2>2. files \in [1..Len(Loaded[t]) -> Seq(L)]
    BY <2>1, ReplaceFileProgram
  <2> HIDE DEF files, L
  <2> QED  BY <2>1, <2>2
<1>2. tables \in Seq(Seq(L))
  <2>1. DOMAIN TableOrder = 1..5
    BY DEF TableOrder
  <2>2. \A tbl : RelinkTable(t, tbl) \in Seq(L)
    <3> TAKE tbl
    <3> DEFINE S == Relinked(t, tbl)
               s == <<LockRows(S), DeleteRows(S)>> \o Unless({tbl} \ {"imports"}, <<InsertRows(S)>>)
    <3>1. S \in SUBSET DOMAIN Rows
      BY Sides DEF Relinked
    <3>2. s \in Seq(L)
      <4> HIDE DEF S
      <4> QED  BY <3>1, DerivedTypes, LoadingTypes
    <3> HIDE DEF s, L
    <3>3. Unless(S, s) \in Seq(L)
      BY <3>2, UnlessType
    <3> QED  BY <3>3 DEF RelinkTable, s
  <2>3. tables \in [1..5 -> Seq(L)]
    BY <2>1, <2>2
  <2> HIDE DEF tables, L
  <2>4. 5 \in Nat /\ tables \in UNION {[1..n -> Seq(L)] : n \in Nat}
    BY <2>3
  <2> QED  BY <2>4, SeqDef
<1> DEFINE a == <<Take(Link, TRUE)>>
           b == FlattenSeq(files)
           c == FlattenSeq(tables)
<1>3. a \in Seq(L) /\ Len(a) = 1 /\ a[1] = Take(Link, TRUE)
  <2> DEFINE y == Take(Link, TRUE)
  <2>1. y \in L  BY LoadingTypes
  <2> HIDE DEF y, L
  <2>2. a = <<y>>  BY DEF y
  <2> HIDE DEF a
  <2>3. a \in Seq(L) /\ Len(a) = 1 /\ a[1] = y  BY <2>1, <2>2
  <2> QED  BY <2>3 DEF y
<1>4. Batch(t) = (a \o b) \o c
  BY DEF Batch
<1> HIDE DEF files, tables, L
<1>5. b \in Seq(L) /\ c \in Seq(L)
  BY <1>1, <1>2, FlattenType
<1> HIDE DEF a, b, c
<1> DEFINE ab == a \o b
<1>6. /\ Len(b) \in Nat /\ Len(c) \in Nat /\ ab \in Seq(L) /\ Len(ab) = 1 + Len(b)
      /\ ab[1] = a[1]
  <2>1. /\ Len(b) \in Nat /\ Len(c) \in Nat /\ ab \in Seq(L) /\ Len(ab) = Len(a) + Len(b)
        /\ \A i \in 1..Len(a) : ab[i] = a[i]
    <3>1. a \in Seq(L) /\ b \in Seq(L)  BY <1>3, <1>5
    <3> QED  BY <3>1, Concat
  <2>2. 1 \in 1..Len(a)  BY <1>3
  <2> HIDE DEF ab
  <2> QED  BY <1>3, <2>1, <2>2
<1> HIDE DEF ab
<1> DEFINE x == ab \o c
<1>7. /\ x \in Seq(L) /\ Len(x) = Len(ab) + Len(c)
      /\ \A i \in 1..Len(ab) : x[i] = ab[i]
  <2>1. ab \in Seq(L) /\ c \in Seq(L)  BY <1>5, <1>6
  <2> QED  BY <2>1, Concat
<1>8. Batch(t) = x
  BY <1>4 DEF ab
<1> HIDE DEF x
<1>9. 1 \in 1..Len(ab) /\ Len(x) >= 1
  BY <1>6, <1>7
<1> QED  BY <1>3, <1>6, <1>7, <1>8, <1>9 DEF L

(* A rebuild takes the link lock first, and nothing but rows after it. *)
LEMMA RebuildType ==
  Rebuild \in Seq(Rebuilding) /\ Len(Rebuild) >= 1 /\ Rebuild[1] = Take(Link, FALSE)
<1> DEFINE X == Rebuilding
           a == <<Take(Link, FALSE)>>
           b == RebuildTable("resolves_to")
           c == RebuildTable("imports")
           d == RebuildTable("calls")
           e == RebuildTable("implements")
           g == RebuildTable("type_defines")
<1>1. \A tbl : RebuildTable(tbl) \in Seq(X)
  <2> TAKE tbl
  <2> DEFINE S == From(tbl, Files)
             s == <<DeleteRows(S)>> \o Unless({tbl} \ {"imports"}, <<InsertRows(S)>>)
  <2>1. S \in SUBSET DOMAIN Rows
    BY Sides
  <2>2. s \in Seq(X)
    <3> HIDE DEF S
    <3>1. RowStatements \subseteq X  BY DEF Rebuilding
    <3> HIDE DEF X
    <3> QED  BY <2>1, <3>1, DerivedTypes
  <2> HIDE DEF s, X
  <2>3. Unless(S, s) \in Seq(X)
    BY <2>2, UnlessType
  <2> QED  BY <2>3 DEF RebuildTable, s
<1>2. a \in Seq(X) /\ Len(a) = 1 /\ a[1] = Take(Link, FALSE)
  <2> DEFINE y == Take(Link, FALSE)
  <2>1. y \in X  BY DEF Rebuilding
  <2> HIDE DEF y, X
  <2>2. a = <<y>>  BY DEF y
  <2> HIDE DEF a
  <2>3. a \in Seq(X) /\ Len(a) = 1 /\ a[1] = y  BY <2>1, <2>2
  <2> QED  BY <2>3 DEF y
<1>3. b \in Seq(X) /\ c \in Seq(X) /\ d \in Seq(X) /\ e \in Seq(X) /\ g \in Seq(X)
  BY <1>1
<1>4. Rebuild = ((((a \o b) \o c) \o d) \o e) \o g
  BY DEF Rebuild
<1> HIDE DEF a, b, c, d, e, g, X
<1>5. ASSUME NEW y \in Seq(X), NEW z \in Seq(X), Len(y) >= 1, y[1] = Take(Link, FALSE)
      PROVE  y \o z \in Seq(X) /\ Len(y \o z) >= 1 /\ (y \o z)[1] = Take(Link, FALSE)
  <2> DEFINE w == y \o z
  <2>1. /\ Len(y) \in Nat /\ Len(z) \in Nat /\ w \in Seq(X) /\ Len(w) = Len(y) + Len(z)
        /\ \A i \in 1..Len(y) : w[i] = y[i]
    BY Concat
  <2> HIDE DEF w
  <2>2. 1 \in 1..Len(y) /\ Len(w) >= 1
    BY <1>5, <2>1
  <2> QED  BY <1>5, <2>1, <2>2 DEF w
<1> DEFINE ab == a \o b
           abc == ab \o c
           abcd == abc \o d
           abcde == abcd \o e
<1>6. ab \in Seq(X) /\ Len(ab) >= 1 /\ ab[1] = Take(Link, FALSE)
  <2>1. Len(a) >= 1  BY <1>2
  <2> QED  BY <1>2, <1>3, <1>5, <2>1
<1>7. Rebuild = abcde \o g
  BY <1>4
<1> HIDE DEF ab
<1>8. abc \in Seq(X) /\ Len(abc) >= 1 /\ abc[1] = Take(Link, FALSE)
  BY <1>3, <1>5, <1>6
<1> HIDE DEF abc
<1>9. abcd \in Seq(X) /\ Len(abcd) >= 1 /\ abcd[1] = Take(Link, FALSE)
  BY <1>3, <1>5, <1>8
<1> HIDE DEF abcd
<1>10. abcde \in Seq(X) /\ Len(abcde) >= 1 /\ abcde[1] = Take(Link, FALSE)
  BY <1>3, <1>5, <1>9
<1> HIDE DEF abcde
<1> QED  BY <1>3, <1>5, <1>7, <1>10 DEF X

(* Every transaction begins with the link lock, shared unless it is a       *)
(* rebuild, and asks for no other kind of it.                               *)
Shape(t) ==
  /\ DOMAIN Program[t] = 1..Len(Program[t]) /\ Len(Program[t]) \in Nat /\ Len(Program[t]) >= 1
  /\ Program[t][1] = Take(Link, t \notin Rebuilds)
  /\ \A k \in 1..Len(Program[t]) :
       \/ Program[t][k] \in RowStatements \/ Program[t][k] = Take(Link, t \notin Rebuilds)
       \/ \E f \in Files : \/ Program[t][k] = Take(Path(f), FALSE)
                           \/ Program[t][k] = Take(Occurrences(f), FALSE)

LEMMA Programs ==
  /\ \A t \in Batches : Program[t] = Batch(t)
  /\ \A t \in Loads : Program[t] = ReplaceFile(Loaded[t][1]) /\ Loaded[t][1] \in Files
  /\ \A t \in Rebuilds : Program[t] = Rebuild
  /\ \A t \in Batches \cup Loads : t \notin Rebuilds
<1>1. \A t \in Loads : Loaded[t] \in Seq(Files) /\ Loaded[t] # << >>
  BY TxnsAssumption
<1>2. \A s \in Seq(Files) : s # << >> => s[1] \in Files
  OBVIOUS
<1>3. \A t \in Loads : Loaded[t][1] \in Files
  BY <1>1, <1>2
<1>4. /\ \A t \in Batches : t \in Txns /\ t \notin Loads /\ t \notin Rebuilds
      /\ \A t \in Loads : t \in Txns /\ t \notin Batches /\ t \notin Rebuilds
      /\ \A t \in Rebuilds : t \in Txns /\ t \notin Loads /\ t \notin Batches
  BY TxnsAssumption DEF Txns
<1> QED  BY <1>3, <1>4 DEF Program, Statements

LEMMA Shapes == \A t \in Txns : Shape(t)
<1>1. ASSUME NEW t, t \notin Rebuilds, Program[t] \in Seq(Loading), Len(Program[t]) >= 1,
             Program[t][1] = Take(Link, TRUE)
      PROVE  Shape(t)
  <2> DEFINE p == Program[t]
  <2>1. DOMAIN p = 1..Len(p) /\ Len(p) \in Nat /\ \A k \in 1..Len(p) : p[k] \in Loading
    BY <1>1
  <2>2. \A s \in Loading : \/ s \in RowStatements \/ s = Take(Link, TRUE)
                           \/ \E f \in Files : s = Take(Path(f), FALSE) \/ s = Take(Occurrences(f), FALSE)
    BY DEF Loading
  <2>3. (t \notin Rebuilds) = TRUE
    BY <1>1
  <2> QED  BY <1>1, <2>1, <2>2, <2>3 DEF Shape
<1>2. ASSUME NEW t \in Batches PROVE Shape(t)
  <2>1. Batch(t) \in Seq(Loading) /\ Len(Batch(t)) >= 1 /\ Batch(t)[1] = Take(Link, TRUE)
    BY BatchType
  <2>2. Program[t] = Batch(t) /\ t \notin Rebuilds
    BY Programs
  <2> QED  BY <1>1, <2>1, <2>2
<1>3. ASSUME NEW t \in Loads PROVE Shape(t)
  <2> DEFINE f == Loaded[t][1]
  <2>1. f \in Files /\ Program[t] = ReplaceFile(f) /\ t \notin Rebuilds
    BY Programs
  <2> HIDE DEF f
  <2>2. ReplaceFile(f) \in Seq(Loading) /\ Len(ReplaceFile(f)) >= 4 /\ ReplaceFile(f)[1] = Take(Link, TRUE)
    BY <2>1, ReplaceFileProgram
  <2>3. Len(ReplaceFile(f)) >= 1
    BY <2>2
  <2> QED  BY <1>1, <2>1, <2>2, <2>3
<1>4. ASSUME NEW t \in Rebuilds PROVE Shape(t)
  <2> DEFINE p == Program[t]
  <2>1. p \in Seq(Rebuilding) /\ Len(p) >= 1 /\ p[1] = Take(Link, FALSE)
    BY RebuildType, Programs
  <2> HIDE DEF p
  <2>2. DOMAIN p = 1..Len(p) /\ Len(p) \in Nat /\ \A k \in 1..Len(p) : p[k] \in Rebuilding
    BY <2>1
  <2>3. \A s \in Rebuilding : s \in RowStatements \/ s = Take(Link, FALSE)
    BY DEF Rebuilding
  <2>4. (t \notin Rebuilds) = FALSE
    BY <1>4
  <2> QED  BY <2>1, <2>2, <2>3, <2>4 DEF Shape, p
<1> QED  BY <1>2, <1>3, <1>4 DEF Txns
-----------------------------------------------------------------------------
(* What a statement asks for. *)
Inserters == Txns \cup {Initial, Gone}
Versions  == xmin \in [Tuples -> Inserters]
Purposes  == {"take", "lock", "delete", "check", "insert"}
LinkAsk(t) == [on |-> Link, xmin |-> Gone, share |-> t \notin Rebuilds, by |-> "take"]

LEMMA AskType ==
  ASSUME Versions, NEW x \in Tuples \cup {Link} \cup {Path(f) : f \in Files},
         NEW share \in BOOLEAN, NEW by \in Purposes
  PROVE  Ask(x, share, by) \in Locks
<1>1. Version(x) \in Inserters
  BY DEF Version, Versions, Inserters
<1> QED  BY <1>1 DEF Ask, Locks, Purposes, Inserters

LEMMA AskIs ==
  ASSUME NEW x, NEW share, NEW by
  PROVE  /\ Ask(x, share, by).on = x /\ Ask(x, share, by).xmin = Version(x)
         /\ Ask(x, share, by).share = share /\ Ask(x, share, by).by = by
  BY DEF Ask

LEMMA LinkAsks ==
  ASSUME NEW t
  PROVE  Ask(Link, t \notin Rebuilds, "take") = LinkAsk(t)
  BY Distinct DEF Ask, Version, LinkAsk

LEMMA AskRowsAre ==
  ASSUME Versions, NEW q \in Seq(DOMAIN Rows), NEW share \in BOOLEAN, NEW by \in Purposes
  PROVE  /\ AskRows(q, share, by) \in Seq(Locks) /\ Len(AskRows(q, share, by)) = Len(q)
         /\ \A k \in 1..Len(q) : AskRows(q, share, by)[k] = Ask(Row(q[k]), share, by)
<1>1. Len(q) \in Nat /\ DOMAIN q = 1..Len(q) /\ \A k \in 1..Len(q) : q[k] \in DOMAIN Rows
  OBVIOUS
<1>2. \A k \in 1..Len(q) : Ask(Row(q[k]), share, by) \in Locks
  BY <1>1, AskType, Distinct
<1> DEFINE a == AskRows(q, share, by)
<1>3. a = [k \in 1..Len(q) |-> Ask(Row(q[k]), share, by)]
  BY <1>1 DEF AskRows
<1> HIDE DEF a
<1>4. a \in [1..Len(q) -> Locks]
  BY <1>2, <1>3
<1>5. a \in Seq(Locks) /\ Len(a) = Len(q)
  BY <1>1, <1>4
<1> QED  BY <1>3, <1>5 DEF a

LEMMA SeenRows ==
  ASSUME NEW t, NEW S \in SUBSET DOMAIN Rows
  PROVE  /\ Seen(t, S) \in SUBSET DOMAIN Rows /\ Seen(t, S) \subseteq S
         /\ \A q \in SetToSeqs(Seen(t, S)) : q \in Seq(DOMAIN Rows) /\ \A k \in 1..Len(q) : q[k] \in Seen(t, S)
<1>1. Seen(t, S) \in SUBSET DOMAIN Rows /\ Seen(t, S) \subseteq S
  BY DEF Seen
<1>2. IsFiniteSet(Seen(t, S))
  <2>1. IsFiniteSet(1..Len(Rows))
    BY RowNumbers, FS_Interval
  <2> QED  BY <1>1, <2>1, RowNumbers, FS_Subset
<1>3. Cardinality(Seen(t, S)) \in Nat
  BY <1>2, FS_CardinalityType
<1>4. ASSUME NEW q \in SetToSeqs(Seen(t, S))
      PROVE  q \in Seq(DOMAIN Rows) /\ \A k \in 1..Len(q) : q[k] \in Seen(t, S)
  <2> DEFINE n == Cardinality(Seen(t, S))
  <2>1. q \in [1..n -> Seen(t, S)] /\ n \in Nat
    BY <1>3, <1>4 DEF SetToSeqs
  <2> HIDE DEF n
  <2>2. q \in Seq(Seen(t, S)) /\ Len(q) = n
    BY <2>1
  <2> QED  BY <1>1, <2>1, <2>2
<1> QED  BY <1>1, <1>4

(* An insert asks for the occurrences its rows refer to. *)
LEMMA EndsAre ==
  ASSUME Versions, NEW q \in Seq(DOMAIN Rows)
  PROVE  AskEnds(q) \in Seq({Ask(Occurrences(f), TRUE, "insert") : f \in Files})
<1> DEFINE X == {Ask(Occurrences(f), TRUE, "insert") : f \in Files}
           g == [k \in DOMAIN q |-> <<Ask(Occurrences(Rows[q[k]].from), TRUE, "insert"),
                                      Ask(Occurrences(Rows[q[k]].to), TRUE, "insert")>>]
<1>1. DOMAIN q = 1..Len(q) /\ Len(q) \in Nat /\ \A k \in 1..Len(q) : q[k] \in DOMAIN Rows
  OBVIOUS
<1>2. \A k \in 1..Len(q) : /\ Ask(Occurrences(Rows[q[k]].from), TRUE, "insert") \in X
                           /\ Ask(Occurrences(Rows[q[k]].to), TRUE, "insert") \in X
  BY <1>1, Places
<1> HIDE DEF X
<1>3. \A x, y \in X : <<x, y>> \in Seq(X)
  OBVIOUS
<1>4. g \in [1..Len(q) -> Seq(X)]
  BY <1>1, <1>2, <1>3
<1>5. AskEnds(q) = FlattenSeq(g)
  BY DEF AskEnds
<1> HIDE DEF g
<1>6. g \in Seq(Seq(X))
  BY <1>1, <1>4
<1> QED  BY <1>5, <1>6, FlattenType DEF X

(* What a transaction may ask for as it begins a statement s. *)
Requesting(t, s, r) ==
  /\ r \in Seq(Locks)
  /\ s.does = "take" => r = <<Ask(s.on, s.share, "take")>>
  /\ s.does = "lock" => r = AskRows(InOrder(Seen(t, s.rows)), FALSE, "lock")
  /\ s.does \in {"lock", "delete", "check"} =>
       \A k \in 1..Len(r) : \E i \in Seen(t, s.rows) : r[k] = Ask(Row(i), s.does = "check", s.does)
  /\ s.does = "insert" => \A k \in 1..Len(r) : \E f \in Files : r[k] = Ask(Occurrences(f), TRUE, "insert")

LEMMA RequestsAre ==
  ASSUME Versions, NEW t \in Txns, NEW k \in 1..Len(Program[t]), NEW r \in Requests(t, Program[t][k])
  PROVE  Requesting(t, Program[t][k], r)
<1> DEFINE s == Program[t][k]
<1>1. \/ s \in RowStatements \/ s = Take(Link, t \notin Rebuilds)
      \/ \E f \in Files : s = Take(Path(f), FALSE) \/ s = Take(Occurrences(f), FALSE)
  BY Shapes DEF Shape
<1>2. r \in Requests(t, s)
  OBVIOUS
<1>5. SUFFICES Requesting(t, s, r)
  OBVIOUS
<1> HIDE DEF s
<1>3. CASE s \notin RowStatements
  <2>1. s.does = "take" /\ s.share \in BOOLEAN /\ s.on \in Tuples \cup {Link} \cup {Path(f) : f \in Files}
    <3> DEFINE X == Tuples \cup {Link} \cup {Path(f) : f \in Files}
    <3>1. Link \in X /\ \A f \in Files : Path(f) \in X /\ Occurrences(f) \in X
      BY Distinct
    <3> HIDE DEF X
    <3>2. CASE s = Take(Link, t \notin Rebuilds)
      BY <3>1, <3>2, Takes_
    <3>3. CASE \E f \in Files : s = Take(Path(f), FALSE) \/ s = Take(Occurrences(f), FALSE)
      <4>1. PICK f \in Files : s = Take(Path(f), FALSE) \/ s = Take(Occurrences(f), FALSE)
        BY <3>3
      <4>2. s.does = "take" /\ s.share = FALSE /\ (s.on = Path(f) \/ s.on = Occurrences(f))
        BY <4>1 DEF Take
      <4> QED  BY <3>1, <4>2 DEF X
    <3> QED  BY <1>1, <1>3, <3>2, <3>3 DEF X
  <2>2. r = <<Ask(s.on, s.share, "take")>>
    BY <1>2, <2>1 DEF Requests
  <2>3. Ask(s.on, s.share, "take") \in Locks
    BY <2>1, AskType DEF Purposes
  <2>4. r \in Seq(Locks)
    BY <2>2, <2>3
  <2> QED  BY <2>1, <2>2, <2>4 DEF Requesting
<1>4. CASE s \in RowStatements
  <2>1. s.does \in {"lock", "delete", "check", "insert"} /\ s.rows \in SUBSET DOMAIN Rows
    BY <1>4 DEF RowStatements
  <2> DEFINE S == Seen(t, s.rows)
  <2>2. /\ S \in SUBSET DOMAIN Rows
        /\ \A q \in SetToSeqs(S) : q \in Seq(DOMAIN Rows) /\ \A j \in 1..Len(q) : q[j] \in S
    BY <2>1, SeenRows
  <2>3. InOrder(S) \in Seq(DOMAIN Rows) /\ \A j \in 1..Len(InOrder(S)) : InOrder(S)[j] \in S
    BY InOrderAscends
  <2> HIDE DEF S
  <2>4. ASSUME NEW q \in Seq(DOMAIN Rows), \A j \in 1..Len(q) : q[j] \in S, NEW share \in BOOLEAN,
               NEW by \in Purposes
        PROVE  /\ AskRows(q, share, by) \in Seq(Locks)
               /\ \A j \in 1..Len(AskRows(q, share, by)) :
                    \E i \in S : AskRows(q, share, by)[j] = Ask(Row(i), share, by)
    BY <2>4, AskRowsAre
  <2>5. CASE s.does = "lock"
    <3>1. r = AskRows(InOrder(S), FALSE, "lock")
      BY <1>2, <2>5 DEF Requests, S
    <3>2. /\ r \in Seq(Locks)
          /\ \A j \in 1..Len(r) : \E i \in S : r[j] = Ask(Row(i), FALSE, "lock")
      BY <2>3, <2>4, <3>1 DEF Purposes
    <3>3. (s.does = "check") = FALSE
      BY <2>5
    <3> QED  BY <2>5, <3>1, <3>2, <3>3 DEF Requesting, S
  <2>6. CASE s.does = "delete"
    <3>1. PICK q \in SetToSeqs(S) : r = AskRows(q, FALSE, "delete")
      BY <1>2, <2>6 DEF Requests, S
    <3>2. /\ r \in Seq(Locks)
          /\ \A j \in 1..Len(r) : \E i \in S : r[j] = Ask(Row(i), FALSE, "delete")
      BY <2>2, <2>4, <3>1 DEF Purposes
    <3>3. (s.does = "check") = FALSE
      BY <2>6
    <3> QED  BY <2>6, <3>2, <3>3 DEF Requesting, S
  <2>7. CASE s.does = "check"
    <3>1. PICK q \in SetToSeqs(S) : r = AskRows(q, TRUE, "check")
      BY <1>2, <2>7 DEF Requests, S
    <3>2. /\ r \in Seq(Locks)
          /\ \A j \in 1..Len(r) : \E i \in S : r[j] = Ask(Row(i), TRUE, "check")
      BY <2>2, <2>4, <3>1 DEF Purposes
    <3>3. (s.does = "check") = TRUE
      BY <2>7
    <3> QED  BY <2>7, <3>2, <3>3 DEF Requesting, S
  <2>8. CASE s.does = "insert"
    <3> DEFINE X == {Ask(Occurrences(f), TRUE, "insert") : f \in Files}
    <3>1. r = AskEnds(InOrder(s.rows))
      BY <1>2, <2>8 DEF Requests
    <3>2. r \in Seq(X)
      BY <3>1, InOrderAscends, EndsAre
    <3>3. X \subseteq Locks
      BY AskType, Distinct DEF Purposes
    <3>4. r \in Seq(Locks) /\ \A j \in 1..Len(r) : r[j] \in X
      <4> HIDE DEF X
      <4> QED  BY <3>2, <3>3
    <3> QED  BY <2>8, <3>4 DEF Requesting
  <2> QED  BY <2>1, <2>5, <2>6, <2>7, <2>8
<1> QED  BY <1>3, <1>4
-----------------------------------------------------------------------------
(* Leaving the queue: its others stay, each once. *)
LEMMA RemoveFirstType ==
  ASSUME NEW S, NEW q \in Seq(S), NEW e, \A j, k \in DOMAIN q : q[j] = q[k] => j = k
  PROVE  /\ RemoveFirst(q, e) \in Seq(S)
         /\ \A j, k \in DOMAIN RemoveFirst(q, e) : RemoveFirst(q, e)[j] = RemoveFirst(q, e)[k] => j = k
<1>1. CASE ~\E i \in 1..Len(q) : q[i] = e
  BY <1>1 DEF RemoveFirst
<1>2. CASE \E i \in 1..Len(q) : q[i] = e
  <2> DEFINE I == {i \in 1..Len(q) : q[i] = e}
             m == Min(I)
             a == SubSeq(q, 1, m - 1)
             b == SubSeq(q, m + 1, Len(q))
  <2>1. I # {} /\ I \in SUBSET Nat /\ Len(q) \in Nat
    BY <1>2
  <2>2. m \in I
    <3> HIDE DEF I
    <3>1. PICK x \in I : \A y \in I : ~(y < x)
      BY <2>1, LeastOf
    <3>2. \A y \in I : x <= y
      BY <2>1, <3>1
    <3> QED  BY <3>1, <3>2 DEF Min
  <2>3. RemoveFirst(q, e) = a \o b
    BY <1>2, <2>1 DEF RemoveFirst, RemoveAt, SelectInSeq
  <2>4. m \in 1..Len(q)
    BY <2>2
  <2> HIDE DEF m
  <2>5. a \in Seq(S) /\ Len(a) = m - 1 /\ \A i \in 1..(m - 1) : a[i] = q[i]
    BY <2>1, <2>4
  <2>6. b \in Seq(S) /\ Len(b) = Len(q) - m /\ \A i \in 1..(Len(q) - m) : b[i] = q[m + i]
    BY <2>1, <2>4
  <2> HIDE DEF a, b
  <2> DEFINE r == a \o b
             src(i) == IF i <= m - 1 THEN i ELSE i + 1
  <2>7. /\ r \in Seq(S) /\ Len(r) = Len(a) + Len(b)
        /\ \A i \in 1..Len(a) : r[i] = a[i]
        /\ \A i \in 1..Len(b) : r[Len(a) + i] = b[i]
    <3>1. a \in Seq(S) /\ b \in Seq(S)  BY <2>5, <2>6
    <3> QED  BY <3>1, Concat
  <2> HIDE DEF r
  <2>8. DOMAIN r = 1..Len(r) /\ Len(r) = (m - 1) + (Len(q) - m)
    BY <2>5, <2>6, <2>7
  <2>9. ASSUME NEW i \in DOMAIN r PROVE r[i] = q[src(i)] /\ src(i) \in DOMAIN q
    <3>1. CASE i <= m - 1
      BY <2>1, <2>4, <2>5, <2>7, <2>8, <2>9, <3>1
    <3>2. CASE ~(i <= m - 1)
      <4> DEFINE k == i - (m - 1)
      <4>1. k \in 1..(Len(q) - m) /\ (m - 1) + k = i /\ m + k = i + 1 /\ i + 1 \in 1..Len(q)
        BY <2>1, <2>4, <2>8, <2>9, <3>2
      <4>2. r[i] = b[k] /\ b[k] = q[m + k]
        BY <2>5, <2>6, <2>7, <4>1
      <4> QED  BY <3>2, <4>1, <4>2
    <3> QED  BY <3>1, <3>2
  <2>10. \A j, k \in DOMAIN r : r[j] = r[k] => j = k
    <3> SUFFICES ASSUME NEW j \in DOMAIN r, NEW k \in DOMAIN r, r[j] = r[k] PROVE j = k
      OBVIOUS
    <3>1. src(j) = src(k)
      <4> HIDE DEF src
      <4> QED  BY <2>9
    <3> QED  BY <2>4, <2>8, <3>1
  <2> QED  BY <2>3, <2>7, <2>10 DEF r
<1> QED  BY <1>1, <1>2

(* Who leaves the queue for the link lock leaves it well formed. *)
LEMMA LeaveType ==
  ASSUME TypeOK, NEW t, Leave(t)
  PROVE  queue' \in Seq(Txns) /\ \A j, k \in DOMAIN queue' : queue'[j] = queue'[k] => j = k
<1>1. queue \in Seq(Txns) /\ \A j, k \in DOMAIN queue : queue[j] = queue[k] => j = k
  BY DEF TypeOK
<1> QED  BY <1>1, RemoveFirstType DEF Leave

(* A transaction that is over, or begins again, has nothing. *)
LEMMA EndType ==
  ASSUME TypeOK, NEW t \in Txns, End(t)
  PROVE  /\ at' \in [Txns -> Nat] /\ \A u \in Txns : at'[u] <= Len(Program[u])
         /\ asks' \in [Txns -> Seq(Locks)] /\ held' \in [Txns -> SUBSET Locks]
         /\ queue' \in Seq(Txns)
         /\ \A j, k \in DOMAIN queue' : queue'[j] = queue'[k] => j = k
<1>1. at' \in [Txns -> Nat] /\ \A u \in Txns : at'[u] = at[u] \/ at'[u] = 0
  BY DEF TypeOK, End
<1>2. \A u \in Txns : at'[u] <= Len(Program[u])
  <2>1. \A u \in Txns : at[u] <= Len(Program[u]) /\ Len(Program[u]) \in Nat
    BY Shapes DEF TypeOK, Shape
  <2> QED  BY <1>1, <2>1
<1>3. asks' \in [Txns -> Seq(Locks)]
  <2>1. << >> \in Seq(Locks) /\ asks \in [Txns -> Seq(Locks)] /\ asks' = [asks EXCEPT ![t] = << >>]
    BY DEF TypeOK, End
  <2> QED  BY <2>1
<1>4. held' \in [Txns -> SUBSET Locks]
  <2>1. {} \in SUBSET Locks /\ held \in [Txns -> SUBSET Locks] /\ held' = [held EXCEPT ![t] = {}]
    BY DEF TypeOK, End
  <2> HIDE DEF Locks
  <2> QED  BY <2>1
<1>5. Leave(t)
  BY DEF End
<1> QED  BY <1>1, <1>2, <1>3, <1>4, <1>5, LeaveType

(* What is asked for next, and what is left then. *)
LEMMA NextAsk ==
  ASSUME TypeOK, NEW t \in Txns, Asking(t)
  PROVE  /\ Wanted(t) \in Locks /\ Tail(asks[t]) \in Seq(Locks)
         /\ Len(asks[t]) \in Nat /\ Len(asks[t]) >= 1 /\ Wanted(t) = asks[t][1]
         /\ Len(Tail(asks[t])) = Len(asks[t]) - 1
         /\ \A k \in 1..Len(Tail(asks[t])) : Tail(asks[t])[k] = asks[t][k + 1] /\ k + 1 \in 1..Len(asks[t])
<1>1. asks[t] \in Seq(Locks) /\ asks[t] # << >>
  BY DEF TypeOK, Asking
<1> DEFINE s == asks[t]
<1> HIDE DEF s
<1>2. s \in Seq(Locks) /\ s # << >>
  BY <1>1 DEF s
<1>3. Head(s) \in Locks /\ Tail(s) \in Seq(Locks) /\ Len(s) \in Nat /\ Len(s) >= 1 /\ Head(s) = s[1]
  BY <1>2
<1>4. Len(Tail(s)) = Len(s) - 1 /\ \A k \in 1..Len(Tail(s)) : Tail(s)[k] = s[k + 1] /\ k + 1 \in 1..Len(s)
  BY <1>2
<1> QED  BY <1>3, <1>4 DEF s, Wanted

LEMMA TypeVersions == TypeOK => Versions
  BY DEF TypeOK, Versions, Inserters

LEMMA TypeInit == Init => TypeOK
<1> SUFFICES ASSUME Init PROVE TypeOK  OBVIOUS
<1>1. at \in [Txns -> Nat] /\ \A t \in Txns : at[t] = 0
  BY DEF Init
<1>2. \A t \in Txns : at[t] <= Len(Program[t])
  BY <1>1, Shapes DEF Shape
<1>3. attempt \in [Txns -> 1..MaxAttempts] /\ outcome \in [Txns -> {"running", "done", "failed"}]
  BY AttemptsAssumption DEF Init
<1>4. queue \in Seq(Txns) /\ \A j, k \in DOMAIN queue : queue[j] = queue[k] => j = k
  BY DEF Init
<1>5. asks \in [Txns -> Seq(Locks)] /\ held \in [Txns -> SUBSET Locks]
  <2>1. << >> \in Seq(Locks)  OBVIOUS
  <2> QED  BY <2>1 DEF Init
<1>6. xmin \in [Tuples -> Txns \cup {Initial, Gone}]
  BY DEF Init
<1> QED  BY <1>1, <1>2, <1>3, <1>4, <1>5, <1>6 DEF TypeOK

(* Every step keeps the types: of each action, the variables it changes. *)
LEMMA TypeNext == TypeOK /\ [Next]_vars => TypeOK'
<1> SUFFICES ASSUME TypeOK, [Next]_vars PROVE TypeOK'  OBVIOUS
<1>1. ASSUME NEW t \in Txns, Begin(t) PROVE TypeOK'
  <2>1. at' \in [Txns -> Nat] /\ \A u \in Txns : at'[u] <= Len(Program[u])
    <3>1. at \in [Txns -> Nat] /\ \A u \in Txns : at[u] <= Len(Program[u]) /\ Len(Program[u]) \in Nat
      BY Shapes DEF TypeOK, Shape
    <3>2. at' = [at EXCEPT ![t] = @ + 1] /\ at[t] < Len(Program[t])
      BY <1>1 DEF Begin
    <3> QED  BY <3>1, <3>2
  <2>2. PICK s \in Requests(t, Program[t][at[t] + 1]) : asks' = [asks EXCEPT ![t] = s]
    BY <1>1 DEF Begin
  <2>3. at[t] + 1 \in 1..Len(Program[t])
    <3>1. at[t] \in Nat /\ at[t] < Len(Program[t]) /\ Len(Program[t]) \in Nat
      BY <1>1, Shapes DEF Begin, TypeOK, Shape
    <3> QED  BY <3>1
  <2>4. s \in Seq(Locks)
    BY <2>2, <2>3, TypeVersions, RequestsAre DEF Requesting
  <2>5. asks' \in [Txns -> Seq(Locks)]
    <3>1. asks \in [Txns -> Seq(Locks)]  BY DEF TypeOK
    <3> QED  BY <2>2, <2>4, <3>1
  <2> QED  BY <1>1, <2>1, <2>5 DEF Begin, TypeOK
<1>2. ASSUME NEW t \in Txns, Grant(t) PROVE TypeOK'
  <2>1. Wanted(t) \in Locks /\ Tail(asks[t]) \in Seq(Locks)
    BY <1>2, NextAsk DEF Grant
  <2>2. asks' \in [Txns -> Seq(Locks)]
    <3>1. asks \in [Txns -> Seq(Locks)] /\ asks' = [asks EXCEPT ![t] = Tail(@)]
      BY <1>2 DEF Grant, TypeOK
    <3> QED  BY <2>1, <3>1
  <2>3. held' \in [Txns -> SUBSET Locks]
    <3>1. held \in [Txns -> SUBSET Locks] /\ held' = [held EXCEPT ![t] = @ \cup {Wanted(t)}]
      BY <1>2 DEF Grant, TypeOK
    <3> HIDE DEF Locks
    <3> QED  BY <2>1, <3>1
  <2> QED  BY <1>2, <2>2, <2>3, LeaveType DEF Grant, TypeOK
<1>3. ASSUME NEW t \in Txns, Skip(t) PROVE TypeOK'
  <2>1. Tail(asks[t]) \in Seq(Locks)
    BY <1>3, NextAsk DEF Skip
  <2>2. asks' \in [Txns -> Seq(Locks)]
    <3>1. asks \in [Txns -> Seq(Locks)] /\ asks' = [asks EXCEPT ![t] = Tail(@)]
      BY <1>3 DEF Skip, TypeOK
    <3> QED  BY <2>1, <3>1
  <2> QED  BY <1>3, <2>2 DEF Skip, TypeOK
<1>4. ASSUME NEW t \in Txns, Wait(t) PROVE TypeOK'
  <2>1. queue \in Seq(Txns) /\ t \notin ToSet(queue) /\ queue' = Append(queue, t)
    BY <1>4 DEF Wait, TypeOK
  <2>2. queue' \in Seq(Txns)
    BY <2>1
  <2>3. ASSUME NEW j \in DOMAIN queue', NEW k \in DOMAIN queue', queue'[j] = queue'[k] PROVE j = k
    <3>1. /\ Len(queue) \in Nat /\ DOMAIN queue = 1..Len(queue)
          /\ DOMAIN queue' = 1..(Len(queue) + 1)
          /\ \A i \in 1..Len(queue) : queue'[i] = queue[i]
          /\ queue'[Len(queue) + 1] = t
      BY <2>1
    <3>2. \A i \in 1..Len(queue) : queue[i] # t
      BY <2>1, <3>1 DEF ToSet
    <3>3. \A i \in DOMAIN queue' : i \in 1..Len(queue) \/ i = Len(queue) + 1
      BY <3>1
    <3> QED  BY <2>3, <3>1, <3>2, <3>3 DEF TypeOK
  <2> QED  BY <1>4, <2>2, <2>3 DEF Wait, TypeOK
<1>5. ASSUME NEW t \in Txns, Commit(t) PROVE TypeOK'
  <2>1. outcome' \in [Txns -> {"running", "done", "failed"}]
    BY <1>5 DEF Commit, TypeOK
  <2>2. xmin' \in [Tuples -> Txns \cup {Initial, Gone}]
    <3>1. xmin \in [Tuples -> Txns \cup {Initial, Gone}]
      BY DEF TypeOK
    <3> QED  BY <1>5, <3>1 DEF Commit
  <2>3. End(t)
    BY <1>5 DEF Commit
  <2> QED  BY <1>5, <2>1, <2>2, <2>3, EndType DEF Commit, TypeOK
<1>6. ASSUME NEW t \in Txns, Refused(t) PROVE TypeOK'
  <2>1. outcome' \in [Txns -> {"running", "done", "failed"}]
    BY <1>6 DEF Refused, TypeOK
  <2> QED  BY <1>6, <2>1, EndType DEF Refused, TypeOK
<1>7. ASSUME NEW t \in Txns, DeadlockVictim(t) PROVE TypeOK'
  <2>1. outcome' \in [Txns -> {"running", "done", "failed"}]
    BY <1>7 DEF DeadlockVictim, TypeOK
  <2>2. attempt' \in [Txns -> 1..MaxAttempts]
    <3>1. attempt[t] # MaxAttempts => attempt[t] + 1 \in 1..MaxAttempts
      BY AttemptsAssumption DEF TypeOK
    <3>2. attempt' = attempt \/ (attempt[t] # MaxAttempts /\ attempt' = [attempt EXCEPT ![t] = @ + 1])
      BY <1>7 DEF DeadlockVictim
    <3> QED  BY <3>1, <3>2 DEF TypeOK
  <2> QED  BY <1>7, <2>1, <2>2, EndType DEF DeadlockVictim, TypeOK
<1>8. ASSUME NEW t \in Txns, Disconnect(t) PROVE TypeOK'
  <2>1. outcome' \in [Txns -> {"running", "done", "failed"}]
    BY <1>8 DEF Disconnect, TypeOK
  <2> QED  BY <1>8, <2>1, EndType DEF Disconnect, TypeOK
<1>9. CASE UNCHANGED vars
  BY <1>9 DEF vars, TypeOK
<1> QED  BY <1>1, <1>2, <1>3, <1>4, <1>5, <1>6, <1>7, <1>8, <1>9 DEF Next, Step

(* Every transaction stays within its statements and its attempts, asks for *)
(* and holds locks of what there is, and queues for the link lock at most   *)
(* once (withRetry, LockLinkShared).                                        *)
THEOREM LocksTypeCorrect == Spec => []TypeOK
<1> QED  BY TypeInit, TypeNext, PTL DEF Spec
-----------------------------------------------------------------------------
(* A step is of one transaction, and is one of these for it. *)
Beginning(t) ==
  /\ asks[t] = << >> /\ at[t] + 1 \in 1..Len(Program[t])
  /\ at'[t] = at[t] + 1 /\ held'[t] = held[t] /\ asks'[t] \in Requests(t, Program[t][at[t] + 1])
Granted(t) ==
  /\ Asking(t) /\ ~Blocked(t) /\ There(Wanted(t)) /\ Wanted(t).by # "check"
  /\ at'[t] = at[t] /\ held'[t] = held[t] \cup {Wanted(t)} /\ asks'[t] = Tail(asks[t])
Skipped(t) ==
  Asking(t) /\ ~There(Wanted(t)) /\ at'[t] = at[t] /\ held'[t] = held[t] /\ asks'[t] = Tail(asks[t])
Same_(t)  == at'[t] = at[t] /\ held'[t] = held[t] /\ asks'[t] = asks[t]
Ended(t)  == at'[t] = 0 /\ held'[t] = {} /\ asks'[t] = << >>

LEMMA Moves ==
  ASSUME TypeOK, [Next]_vars
  PROVE  \/ (\A u \in Txns : Same_(u)) /\ xmin' = xmin
         \/ \E t \in Txns : /\ \A u \in Txns \ {t} : Same_(u)
                            /\ \/ (Beginning(t) \/ Granted(t) \/ Skipped(t)) /\ xmin' = xmin
                               \/ Ended(t) /\ (xmin' = xmin \/ Commit(t))
<1> DEFINE Goal == \/ (\A u \in Txns : Same_(u)) /\ xmin' = xmin
                   \/ \E t \in Txns : /\ \A u \in Txns \ {t} : Same_(u)
                                      /\ \/ (Beginning(t) \/ Granted(t) \/ Skipped(t)) /\ xmin' = xmin
                                         \/ Ended(t) /\ (xmin' = xmin \/ Commit(t))
<1>0. /\ at \in [Txns -> Nat] /\ asks \in [Txns -> Seq(Locks)] /\ held \in [Txns -> SUBSET Locks]
      /\ \A t \in Txns : Len(Program[t]) \in Nat
  BY Shapes DEF TypeOK, Shape
<1>1. ASSUME NEW t \in Txns, Begin(t) PROVE Goal
  <2>1. \A u \in Txns \ {t} : Same_(u)
    BY <1>0, <1>1 DEF Begin, Same_
  <2>2. at[t] + 1 \in 1..Len(Program[t])
    <3>1. at[t] \in Nat /\ at[t] < Len(Program[t]) /\ Len(Program[t]) \in Nat
      BY <1>0, <1>1 DEF Begin
    <3> QED  BY <3>1
  <2>3. Beginning(t) /\ xmin' = xmin
    BY <1>0, <1>1, <2>2 DEF Begin, Beginning
  <2> QED  BY <2>1, <2>3
<1>2. ASSUME NEW t \in Txns, Grant(t) PROVE Goal
  <2>1. \A u \in Txns \ {t} : Same_(u)
    BY <1>0, <1>2 DEF Grant, Same_
  <2>2. Granted(t) /\ xmin' = xmin
    BY <1>0, <1>2 DEF Grant, Granted
  <2> QED  BY <2>1, <2>2
<1>3. ASSUME NEW t \in Txns, Skip(t) PROVE Goal
  <2>1. \A u \in Txns \ {t} : Same_(u)
    BY <1>0, <1>3 DEF Skip, Same_
  <2>2. Skipped(t) /\ xmin' = xmin
    BY <1>0, <1>3 DEF Skip, Skipped
  <2> QED  BY <2>1, <2>2
<1>4. ASSUME NEW t \in Txns, End(t), xmin' = xmin \/ Commit(t) PROVE Goal
  <2>1. \A u \in Txns \ {t} : Same_(u)
    BY <1>0, <1>4 DEF End, Same_
  <2>2. Ended(t)
    BY <1>0, <1>4 DEF End, Ended
  <2> QED  BY <1>4, <2>1, <2>2
<1>5. ASSUME (UNCHANGED vars) \/ \E t \in Txns : Wait(t) PROVE Goal
  BY <1>5 DEF vars, Wait, Same_
<1>6. ASSUME NEW t \in Txns, Commit(t) \/ Refused(t) \/ DeadlockVictim(t) \/ Disconnect(t) PROVE Goal
  <2>1. End(t) /\ (xmin' = xmin \/ Commit(t))
    BY <1>6 DEF Commit, Refused, DeadlockVictim, Disconnect
  <2> QED  BY <1>4, <2>1
<1>7. Goal
  <2> HIDE DEF Goal
  <2> QED  BY <1>1, <1>2, <1>3, <1>5, <1>6 DEF Next, Step
<1> QED  BY <1>7

(* The link lock comes first: before it a transaction has nothing, and with *)
(* it, it asks for it in vain no more.                                      *)
LinkFirst(t) ==
  /\ \A k \in 1..Len(asks[t]) : asks[t][k].on = Link => asks[t][k] = LinkAsk(t)
  /\ \/ at[t] = 0 /\ asks[t] = << >> /\ held[t] = {}
     \/ at[t] = 1 /\ asks[t] = <<LinkAsk(t)>> /\ held[t] = {}
     \/ at[t] >= 1 /\ LinkAsk(t) \in held[t]

LEMMA LinkThere == \A t : There(LinkAsk(t))
  BY Distinct DEF There, LinkAsk, Version

LEMMA LinkFirstNext ==
  TypeOK /\ (\A t \in Txns : LinkFirst(t)) /\ [Next]_vars => \A t \in Txns : LinkFirst(t)'
<1> SUFFICES ASSUME TypeOK, \A t \in Txns : LinkFirst(t), [Next]_vars, NEW t \in Txns
             PROVE  LinkFirst(t)'
  OBVIOUS
<1>0. LinkFirst(t) /\ at[t] \in Nat
  BY DEF TypeOK
<1>1. CASE Same_(t)
  BY <1>0, <1>1 DEF Same_, LinkFirst, LinkAsk
<1>2. CASE Ended(t)
  BY <1>2 DEF Ended, LinkFirst
<1>3. CASE Beginning(t)
  <2> DEFINE s == Program[t][at[t] + 1]
  <2>1. Requesting(t, s, asks'[t])
    BY <1>3, TypeVersions, RequestsAre DEF Beginning
  <2>2. \/ s \in RowStatements \/ s = Take(Link, t \notin Rebuilds)
        \/ \E f \in Files : s = Take(Path(f), FALSE) \/ s = Take(Occurrences(f), FALSE)
    BY <1>3, Shapes DEF Shape, Beginning
  <2>3. at[t] = 0 => s = Take(Link, t \notin Rebuilds)
    <3>1. at[t] = 0 => at[t] + 1 = 1
      OBVIOUS
    <3> QED  BY <3>1, Shapes DEF Shape
  <2> DEFINE r == asks'[t]
  <2>4. s = Take(Link, t \notin Rebuilds) => r = <<LinkAsk(t)>>
    <3>1. ASSUME s = Take(Link, t \notin Rebuilds)
          PROVE  s.does = "take" /\ Ask(s.on, s.share, "take") = LinkAsk(t)
      <4>1. s.does = "take" /\ s.on = Link /\ s.share = (t \notin Rebuilds)
        BY <3>1 DEF Take
      <4> QED  BY <4>1, LinkAsks
    <3> QED  BY <2>1, <3>1 DEF Requesting
  <2>5. s # Take(Link, t \notin Rebuilds) => \A k \in 1..Len(r) : r[k].on # Link
    <3> SUFFICES ASSUME s # Take(Link, t \notin Rebuilds), NEW k \in 1..Len(r) PROVE r[k].on # Link
      OBVIOUS
    <3>1. CASE s \in RowStatements
      <4>1. s.does \in {"lock", "delete", "check", "insert"}
        BY <3>1 DEF RowStatements
      <4> HIDE DEF s, r
      <4>2. \/ \E i \in Seen(t, s.rows) : r[k] = Ask(Row(i), s.does = "check", s.does)
            \/ \E f \in Files : r[k] = Ask(Occurrences(f), TRUE, "insert")
        BY <2>1, <4>1 DEF Requesting, r, s
      <4>3. (\E i : r[k].on = Row(i)) \/ (\E f : r[k].on = Occurrences(f))
        <5>1. CASE \E f \in Files : r[k] = Ask(Occurrences(f), TRUE, "insert")
          <6>1. PICK f \in Files : r[k] = Ask(Occurrences(f), TRUE, "insert")
            BY <5>1
          <6>2. r[k].on = Occurrences(f)
            BY <6>1 DEF Ask
          <6> QED  BY <6>2
        <5>2. CASE \E i \in Seen(t, s.rows) : r[k] = Ask(Row(i), s.does = "check", s.does)
          <6>1. PICK i \in Seen(t, s.rows) : r[k] = Ask(Row(i), s.does = "check", s.does)
            BY <5>2
          <6>2. r[k].on = Row(i)
            BY <6>1 DEF Ask
          <6> QED  BY <6>2
        <5> QED  BY <4>2, <5>1, <5>2
      <4>4. \A i : Row(i) # Link
        BY Distinct
      <4>5. \A f : Occurrences(f) # Link
        BY Distinct
      <4> QED  BY <4>3, <4>4, <4>5
    <3>2. CASE \E f \in Files : s = Take(Path(f), FALSE) \/ s = Take(Occurrences(f), FALSE)
      <4>1. s.does = "take" /\ s.on # Link
        BY <3>2, Distinct DEF Take
      <4> HIDE DEF s
      <4>2. r = <<Ask(s.on, s.share, "take")>>
        BY <2>1, <4>1 DEF Requesting, s
      <4> DEFINE a == Ask(s.on, s.share, "take")
      <4>3. a.on # Link
        BY <4>1, AskIs
      <4> HIDE DEF a, r
      <4>4. r = <<a>>
        BY <4>2 DEF a
      <4>5. k = 1 /\ r[k] = a
        BY <4>4
      <4> QED  BY <4>3, <4>5
    <3> QED  BY <2>2, <3>1, <3>2
  <2>6. \A k \in 1..Len(r) : r[k].on = Link => r[k] = LinkAsk(t)
    <3> DEFINE l == LinkAsk(t)
    <3>1. r = <<l>> => \A k \in 1..Len(r) : r[k] = l
      <4> HIDE DEF r, l
      <4> QED  OBVIOUS
    <3>2. CASE s # Take(Link, t \notin Rebuilds)
      BY <2>5, <3>2
    <3> QED  BY <2>4, <3>1, <3>2
  <2>7. at[t] # 1 \/ held[t] # {}
    <3>1. <<LinkAsk(t)>> # << >>
      OBVIOUS
    <3> QED  BY <1>0, <1>3, <3>1 DEF LinkFirst, Beginning
  <2>8. CASE at[t] = 0
    <3>1. held'[t] = {} /\ at'[t] = 1 /\ r = <<LinkAsk(t)>>
      <4>1. at[t] = 0 /\ ~(at[t] >= 1) /\ at[t] # 1
        BY <2>8
      <4>2. held[t] = {}
        BY <1>0, <4>1 DEF LinkFirst
      <4> QED  BY <1>3, <2>3, <2>4, <2>8, <4>2 DEF Beginning
    <3> QED  BY <2>6, <3>1 DEF LinkFirst, LinkAsk
  <2>9. CASE at[t] # 0
    <3>1. LinkAsk(t) \in held[t]
      BY <1>0, <1>3, <2>7, <2>9 DEF LinkFirst
    <3>2. at'[t] >= 1 /\ LinkAsk(t) \in held'[t]
      BY <1>0, <1>3, <3>1 DEF Beginning
    <3> QED  BY <2>6, <3>2 DEF LinkFirst, LinkAsk
  <2> QED  BY <2>8, <2>9
<1>4. ASSUME Asking(t), at'[t] = at[t], asks'[t] = Tail(asks[t]), held[t] \subseteq held'[t],
             asks[t] = <<LinkAsk(t)>> => LinkAsk(t) \in held'[t]
      PROVE  LinkFirst(t)'
  <2>1. /\ Len(asks'[t]) \in Nat
        /\ \A k \in 1..Len(asks'[t]) : asks'[t][k] = asks[t][k + 1] /\ k + 1 \in 1..Len(asks[t])
    BY <1>4, NextAsk
  <2>2. \A k \in 1..Len(asks'[t]) : asks'[t][k].on = Link => asks'[t][k] = LinkAsk(t)
    BY <1>0, <2>1 DEF LinkFirst
  <2>3. at[t] >= 1 /\ LinkAsk(t) \in held'[t]
    BY <1>0, <1>4 DEF LinkFirst, Asking
  <2> QED  BY <1>4, <2>2, <2>3 DEF LinkFirst, LinkAsk
<1>5. CASE Granted(t)
  <2>1. asks[t] = <<LinkAsk(t)>> => Wanted(t) = LinkAsk(t)
    BY DEF Wanted
  <2> QED  BY <1>4, <1>5, <2>1 DEF Granted
<1>6. CASE Skipped(t)
  <2>1. asks[t] # <<LinkAsk(t)>>
    <3>1. asks[t] = <<LinkAsk(t)>> => Wanted(t) = LinkAsk(t)
      BY DEF Wanted
    <3> QED  BY <1>6, <3>1, LinkThere DEF Skipped
  <2> QED  BY <1>4, <1>6, <2>1 DEF Skipped
<1> QED  BY <1>1, <1>2, <1>3, <1>5, <1>6, Moves

LEMMA LinkFirstInit == Init => \A t \in Txns : LinkFirst(t)
  BY DEF Init, LinkFirst

(* Who wants the link lock and does not have it has nothing. *)
LEMMA LinkWaiterHoldsNothing ==
  ASSUME TypeOK, NEW t \in Txns, LinkFirst(t), Asking(t), ~Has(t, Wanted(t)), Wanted(t).on = Link
  PROVE  held[t] = {} /\ Wanted(t) = LinkAsk(t)
<1>1. 1 \in 1..Len(asks[t]) /\ Wanted(t) = asks[t][1]
  BY NextAsk
<1>2. Wanted(t) = LinkAsk(t)
  BY <1>1 DEF LinkFirst
<1>3. LinkAsk(t) \notin held[t]
  <2>1. LinkAsk(t).share \/ ~LinkAsk(t).share
    OBVIOUS
  <2> QED  BY <1>2, <2>1 DEF Has, Same
<1> QED  BY <1>2, <1>3 DEF LinkFirst, Asking
-----------------------------------------------------------------------------
(* What is granted first is the link lock, and it is refused to a rebuild   *)
(* beside anyone and to anyone beside a rebuild.                            *)
LEMMA AloneNext ==
  TypeOK /\ (\A t \in Txns : LinkFirst(t)) /\ RebuildAlone /\ [Next]_vars => RebuildAlone'
<1> SUFFICES ASSUME TypeOK, \A t \in Txns : LinkFirst(t), RebuildAlone, [Next]_vars PROVE RebuildAlone'
  OBVIOUS
<1>0. Rebuilds \subseteq Txns
  BY DEF Txns
<1>1. ASSUME NEW t \in Txns, \A u \in Txns \ {t} : Same_(u), Granted(t), held[t] = {} PROVE RebuildAlone'
  <2>1. asks[t] = <<LinkAsk(t)>>
    BY <1>1 DEF LinkFirst, Granted, Asking
  <2>2. Wanted(t) = LinkAsk(t)
    BY <2>1 DEF Wanted
  <2>3. ASSUME NEW u \in Txns \ {t}, t \in Rebuilds \/ u \in Rebuilds PROVE held[u] = {}
    <3> SUFFICES ASSUME held[u] # {} PROVE FALSE
      OBVIOUS
    <3>1. LinkAsk(u) \in held[u]
      BY DEF LinkFirst
    <3>2. Conflict(Wanted(t), LinkAsk(u))
      <4>1. Wanted(t).on = Link /\ Wanted(t).xmin = Gone /\ (Wanted(t).share <=> t \notin Rebuilds)
        <5>1. LinkAsk(t).on = Link /\ LinkAsk(t).xmin = Gone /\ (LinkAsk(t).share <=> t \notin Rebuilds)
          BY DEF LinkAsk
        <5> QED  BY <2>2, <5>1
      <4>2. LinkAsk(u).on = Link /\ LinkAsk(u).xmin = Gone /\ (LinkAsk(u).share <=> u \notin Rebuilds)
        BY DEF LinkAsk
      <4> QED  BY <2>3, <4>1, <4>2 DEF Conflict, Same
    <3>3. ~Has(t, Wanted(t))
      BY <1>1 DEF Has
    <3>4. WaitsFor(t, u)
      BY <1>1, <3>1, <3>2, <3>3 DEF WaitsFor, Granted
    <3> QED  BY <1>1, <3>4 DEF Granted, Blocked
  <2>4. \A u \in Txns \ {t} : held'[u] = held[u]
    BY <1>1 DEF Same_
  <2>5. CASE t \in Rebuilds
    BY <1>0, <2>3, <2>4, <2>5 DEF RebuildAlone
  <2>6. CASE t \notin Rebuilds
    BY <1>0, <2>3, <2>4, <2>6 DEF RebuildAlone
  <2> QED  BY <2>5, <2>6
<1>2. ASSUME \A u \in Txns : held[u] = {} => held'[u] = {} PROVE RebuildAlone'
  BY <1>0, <1>2 DEF RebuildAlone
<1>3. ASSUME NEW t \in Txns, \A u \in Txns \ {t} : Same_(u),
             Beginning(t) \/ (Granted(t) /\ held[t] # {}) \/ Skipped(t) \/ Ended(t) \/ Same_(t)
      PROVE  RebuildAlone'
  <2>1. \A u \in Txns : held[u] = {} => held'[u] = {}
    BY <1>3 DEF Beginning, Granted, Skipped, Ended, Same_
  <2> QED  BY <1>2, <2>1
<1>4. CASE \A u \in Txns : Same_(u)
  BY <1>2, <1>4 DEF Same_
<1> QED  BY <1>1, <1>3, <1>4, Moves

LEMMA AloneInit == Init => RebuildAlone
  BY DEF Init, RebuildAlone, Txns

(* "It cannot run beside a loader" (link/rebuild.go): whatever the loads,   *)
(* batches and rebuilds, a rebuild that has the link lock is alone.         *)
THEOREM RebuildsAreAlone == Spec => []RebuildAlone
<1> DEFINE First == \A t \in Txns : LinkFirst(t)
<1>1. Init => TypeOK /\ First /\ RebuildAlone
  BY TypeInit, LinkFirstInit, AloneInit
<1>2. TypeOK /\ First /\ RebuildAlone /\ [Next]_vars => (TypeOK /\ First /\ RebuildAlone)'
  BY TypeNext, LinkFirstNext, AloneNext
<1> HIDE DEF First
<1> QED  BY <1>1, <1>2, PTL DEF Spec
-----------------------------------------------------------------------------
(* Who is ahead of whom in the queue is an order. *)
LEMMA AheadOrder ==
  ASSUME TypeOK
  PROVE  /\ \A t : ~Ahead(t, t)
         /\ \A t, u, v : Ahead(t, u) /\ Ahead(u, v) => Ahead(t, v)
<1>1. DOMAIN queue \subseteq Int
  BY DEF TypeOK
<1>2. \A t : ~Ahead(t, t)
  BY <1>1 DEF Ahead
<1>3. ASSUME NEW t, NEW u, NEW v, Ahead(t, u), Ahead(u, v) PROVE Ahead(t, v)
  <2>1. PICK i \in DOMAIN queue : queue[i] = t /\ \A k \in DOMAIN queue : queue[k] = u => i < k
    BY <1>3 DEF Ahead
  <2>2. PICK j \in DOMAIN queue : queue[j] = u /\ \A k \in DOMAIN queue : queue[k] = v => j < k
    BY <1>3 DEF Ahead
  <2>3. i < j
    BY <2>1, <2>2
  <2>4. \A k \in DOMAIN queue : queue[k] = v => i < k
    BY <1>1, <2>2, <2>3
  <2> QED  BY <2>1, <2>4 DEF Ahead
<1> QED  BY <1>2, <1>3

(* A transaction waits for one that holds a lock; or it holds nothing, and  *)
(* the other is ahead in the queue for the link lock.                       *)
LEMMA WaitsForWhom ==
  ASSUME TypeOK, NEW t \in Txns, LinkFirst(t), NEW u \in Txns, WaitsFor(t, u)
  PROVE  held[u] # {} \/ (held[t] = {} /\ Ahead(u, t))
BY LinkWaiterHoldsNothing DEF WaitsFor

(* A cycle of waits through a rebuild would have to pass from what waits    *)
(* for it, which holds nothing and queues behind it, to what holds a lock   *)
(* or queues before it.                                                     *)
LEMMA NoCycle ==
  TypeOK /\ (\A t \in Txns : LinkFirst(t)) /\ RebuildAlone => RebuildNeverInCycle
<1> SUFFICES ASSUME TypeOK, \A t \in Txns : LinkFirst(t), RebuildAlone, NEW r \in Rebuilds
             PROVE  ~InCycle(r)
  BY DEF RebuildNeverInCycle
<1>1. r \in Txns
  BY DEF Txns
<1>2. SUFFICES \E S \in SUBSET Txns : /\ \A e \in Waits : e[1] \in S \cup {r} => e[2] \in S
                                      /\ r \notin S
  BY DEF InCycle
<1>3. \A e \in Waits : /\ e[1] \in Txns /\ e[2] \in Txns /\ e[1] # e[2]
                       /\ held[e[2]] # {} \/ (held[e[1]] = {} /\ Ahead(e[2], e[1]))
  <2>1. \A e \in Waits : e[1] \in Txns /\ e[2] \in Txns /\ WaitsFor(e[1], e[2])
    BY DEF Waits
  <2>2. \A t, u : WaitsFor(t, u) => t # u
    BY DEF WaitsFor
  <2> QED  BY <2>1, <2>2, WaitsForWhom
<1>4. CASE held[r] # {}
  <2>1. \A u \in Txns \ {r} : held[u] = {}
    BY <1>4 DEF RebuildAlone
  <2>2. \A e \in Waits : e[1] # r
    BY <1>3, <1>4, <2>1
  <2>3. \A e \in Waits : e[1] \in {} \cup {r} => e[2] \in {}
    BY <2>2
  <2> QED  BY <2>3
<1>5. CASE held[r] = {}
  <2> DEFINE S == {u \in Txns : held[u] # {} \/ Ahead(u, r)}
  <2>1. r \notin S
    BY <1>5, AheadOrder
  <2>2. ASSUME NEW e \in Waits, e[1] \in S \cup {r} PROVE e[2] \in S
    <3>1. CASE held[e[2]] # {}
      BY <1>3, <3>1
    <3>2. CASE held[e[1]] = {} /\ Ahead(e[2], e[1])
      <4>1. e[1] = r \/ Ahead(e[1], r)
        BY <2>2, <3>2
      <4>2. Ahead(e[2], r)
        BY <3>2, <4>1, AheadOrder
      <4> QED  BY <1>3, <4>2
    <3> QED  BY <1>3, <3>1, <3>2
  <2> QED  BY <2>1, <2>2
<1> QED  BY <1>4, <1>5

(* "A waiter that holds nothing cannot be half of a cycle": no rebuild is   *)
(* ever the victim of a deadlock, so none needs withRetry.                  *)
THEOREM RebuildsNeverDeadlock == Spec => []RebuildNeverInCycle
<1> DEFINE First == \A t \in Txns : LinkFirst(t)
<1>1. Init => TypeOK /\ First /\ RebuildAlone
  BY TypeInit, LinkFirstInit, AloneInit
<1>2. TypeOK /\ First /\ RebuildAlone /\ [Next]_vars => (TypeOK /\ First /\ RebuildAlone)'
  BY TypeNext, LinkFirstNext, AloneNext
<1>3. TypeOK /\ First /\ RebuildAlone => RebuildNeverInCycle
  BY NoCycle
<1> HIDE DEF First
<1> QED  BY <1>1, <1>2, <1>3, PTL DEF Spec
-----------------------------------------------------------------------------
(* What a load has asked for and been granted, at every statement of it.    *)
FileOf(t) == Loaded[t][1]
PathAsk(f) == [on |-> Path(f), xmin |-> Gone, share |-> FALSE, by |-> "take"]

LEMMA LoadPrograms ==
  ASSUME NEW t \in Loads
  PROVE  /\ t \in Txns /\ t \notin Rebuilds /\ FileOf(t) \in Files
         /\ Program[t][1] = Take(Link, TRUE) /\ Program[t][2] = Take(Path(FileOf(t)), FALSE)
         /\ Len(Program[t]) \in Nat /\ Len(Program[t]) >= 4
         /\ AfterPath(Program[t], FileOf(t)) /\ FirstLocked(Program[t]) /\ LockedUpward(Program[t])
<1> DEFINE f == Loaded[t][1]
<1>1. f \in Files /\ Program[t] = ReplaceFile(f) /\ t \notin Rebuilds /\ t \in Txns
  BY Programs DEF Txns
<1>2. Len(Program[t]) \in Nat
  BY <1>1, Shapes DEF Shape
<1> HIDE DEF f
<1>3. /\ Len(ReplaceFile(f)) >= 4
      /\ ReplaceFile(f)[1] = Take(Link, TRUE) /\ ReplaceFile(f)[2] = Take(Path(f), FALSE)
      /\ AfterPath(ReplaceFile(f), f) /\ FirstLocked(ReplaceFile(f)) /\ LockedUpward(ReplaceFile(f))
  BY <1>1, ReplaceFileProgram
<1>4. FileOf(t) = f
  BY DEF FileOf, f
<1> QED  BY <1>1, <1>2, <1>3, <1>4

(* What a load may ask for at its statement a: a row it asks for is one of  *)
(* the statement's; and if no other transaction inserted it, a delete asks  *)
(* for it only of the load's own imports.                                   *)
RowAsk(t, a, r) ==
  /\ a \in 3..Len(Program[t]) /\ Program[t][a] \in RowStatements
  /\ r.by = Program[t][a].does /\ (r.share <=> r.by = "check") /\ r.xmin \notin Loads \cup {Gone}
  /\ \E i \in Program[t][a].rows : /\ r.on = Row(i)
                                   /\ Rows[i].table # "imports" /\ r.by # "lock" => r.xmin # Initial
AskOf(t, a, r) ==
  \/ r = LinkAsk(t)
  \/ r = PathAsk(FileOf(t)) /\ a = 2
  \/ r.on = Occurrences(FileOf(t)) /\ ~r.share /\ a >= 3
  \/ RowAsk(t, a, r)
LoadAsks(t) == \A k \in 1..Len(asks[t]) : AskOf(t, at[t], asks[t][k])

\* What it may hold there.
RowHeld(t, a, q) ==
  /\ ~q.share
  /\ \E j \in 3..a : /\ j <= Len(Program[t]) /\ Program[t][j] \in RowStatements
                     /\ \E i \in Program[t][j].rows : q.on = Row(i)
HeldOf(t, a, q) ==
  \/ q = LinkAsk(t) \/ q = PathAsk(FileOf(t))
  \/ q.on = Occurrences(FileOf(t)) /\ ~q.share /\ a >= 3
  \/ RowHeld(t, a, q)
LoadHolds(t) == \A q \in held[t] : HeldOf(t, at[t], q)

LoadPath(t) ==
  at[t] >= 2 => (at[t] = 2 /\ asks[t] = <<PathAsk(FileOf(t))>>) \/ PathAsk(FileOf(t)) \in held[t]

(* Of the rows that are there from the start, it has all it has locked.     *)
First_(q, i) == q.on = Row(i) /\ q.xmin = Initial /\ ~q.share
LoadLocked(t) ==
  \A j \in 3..at[t] :
    j <= Len(Program[t]) /\ Program[t][j] \in RowStatements /\ Program[t][j].does = "lock" =>
      \A i \in Program[t][j].rows : xmin[Row(i)] = Initial =>
        \/ \E q \in held[t] : First_(q, i)
        \/ j = at[t] /\ \E k \in 1..Len(asks[t]) : First_(asks[t][k], i)

(* A statement that locks asks for rows upward, all above those it has.     *)
LoadUpward(t) ==
  at[t] \in 3..Len(Program[t]) /\ Program[t][at[t]] \in RowStatements /\ Program[t][at[t]].does = "lock" =>
    \A k \in 1..Len(asks[t]) : \A i, j \in DOMAIN Rows : asks[t][k].on = Row(i) =>
      /\ \A q \in held[t] : q.on = Row(j) => j < i
      /\ \A l \in 1..(k - 1) : asks[t][l].on = Row(j) => j < i

LoadInv(t) == LoadAsks(t) /\ LoadHolds(t) /\ LoadPath(t) /\ LoadLocked(t) /\ LoadUpward(t)

(* No load derives a row, and what was there from the start does not come back. *)
NoLoadRows == \A i \in DOMAIN Rows : xmin[Row(i)] \notin Loads

LEMMA XminNext ==
  ASSUME TypeOK, NoLoadRows, [Next]_vars
  PROVE  NoLoadRows' /\ \A x \in Tuples : xmin'[x] = Initial => xmin[x] = Initial
<1>1. CASE xmin' = xmin
  BY <1>1 DEF NoLoadRows
<1>2. ASSUME NEW t \in Txns, Commit(t)
      PROVE  NoLoadRows' /\ \A x \in Tuples : xmin'[x] = Initial => xmin[x] = Initial
  <2>1. \A x \in Tuples : xmin'[x] = IF x \in Inserted(t) THEN t ELSE IF x \in Deleted(t) THEN Gone ELSE xmin[x]
    BY <1>2 DEF Commit
  <2>2. t # Initial /\ Gone \notin Loads /\ Gone # Initial
    BY TxnsAssumption DEF Txns, Gone, Initial
  <2>3. \A x \in Tuples : xmin'[x] = Initial => xmin[x] = Initial
    BY <2>1, <2>2
  <2>4. t \in Loads => \A i : Row(i) \notin Inserted(t)
    <3>1. t \in Loads => Inserted(t) = {Occurrences(Loaded[t][1])}
      BY TxnsAssumption DEF Inserted
    <3> QED  BY <3>1, Distinct
  <2>5. \A i \in DOMAIN Rows : xmin'[Row(i)] \notin Loads
    BY <2>1, <2>2, <2>4, Distinct DEF NoLoadRows
  <2> QED  BY <2>3, <2>5 DEF NoLoadRows
<1> QED  BY <1>1, <1>2, Moves

(* What a load asks for as it begins a statement. *)
LEMMA LoadBegins ==
  ASSUME TypeOK, NEW t \in Loads, Beginning(t)
  PROVE  \/ at'[t] = 1 /\ asks'[t] = <<LinkAsk(t)>>
         \/ at'[t] = 2 /\ asks'[t] = <<PathAsk(FileOf(t))>>
         \/ /\ at'[t] \in 3..Len(Program[t]) /\ Program[t][at'[t]] \notin RowStatements
            /\ asks'[t] = <<Ask(Occurrences(FileOf(t)), FALSE, "take")>>
         \/ /\ at'[t] \in 3..Len(Program[t]) /\ Program[t][at'[t]] \in RowStatements
            /\ Program[t][at'[t]].does \in {"lock", "delete", "check"}
            /\ Requesting(t, Program[t][at'[t]], asks'[t])
<1> DEFINE a == at'[t]
           s == Program[t][a]
           f == FileOf(t)
<1>1. t \in Txns /\ t \notin Rebuilds /\ f \in Files /\ AfterPath(Program[t], f)
      /\ Program[t][1] = Take(Link, TRUE) /\ Program[t][2] = Take(Path(f), FALSE)
  BY LoadPrograms
<1>2. a \in 1..Len(Program[t]) /\ Requesting(t, s, asks'[t]) /\ Len(Program[t]) \in Nat
  BY <1>1, TypeVersions, RequestsAre, Shapes DEF Beginning, Shape
<1>3. ASSUME NEW x, s = Take(x, FALSE)
      PROVE  asks'[t] = <<Ask(x, FALSE, "take")>>
  <2>1. s.does = "take" /\ s.on = x /\ s.share = FALSE
    BY <1>3 DEF Take
  <2> QED  BY <1>2, <2>1 DEF Requesting
<1> HIDE DEF a
<1>4. CASE a = 1
  <2>1. s.does = "take" /\ s.on = Link /\ s.share = TRUE
    BY <1>1, <1>4 DEF Take
  <2>2. asks'[t] = <<Ask(Link, TRUE, "take")>>
    BY <1>2, <2>1 DEF Requesting
  <2>3. (t \notin Rebuilds) = TRUE
    BY <1>1
  <2>4. Ask(Link, TRUE, "take") = LinkAsk(t)
    BY <2>3, LinkAsks
  <2> QED  BY <1>4, <2>2, <2>4 DEF a
<1>5. CASE a = 2
  <2>1. Ask(Path(f), FALSE, "take") = PathAsk(f)
    BY Distinct DEF Ask, PathAsk, Version
  <2>2. s = Take(Path(f), FALSE)
    BY <1>1, <1>5
  <2> QED  BY <1>3, <1>5, <2>1, <2>2 DEF a
<1>6. CASE a \in 3..Len(Program[t])
  <2>1. \A x : Take(x, FALSE) \notin RowStatements
    <3>1. \A x : Take(x, FALSE).does = "take"
      BY DEF Take
    <3>2. \A y \in RowStatements : y.does # "take"
      BY DEF RowStatements
    <3> QED  BY <3>1, <3>2
  <2>2. CASE s = Take(Occurrences(f), FALSE)
    BY <1>3, <1>6, <2>1, <2>2 DEF a
  <2>3. CASE s \in RowStatements /\ s.does \in {"lock", "delete", "check"}
    BY <1>2, <1>6, <2>3 DEF a
  <2> QED  BY <1>1, <1>6, <2>2, <2>3 DEF AfterPath
<1>7. a = 1 \/ a = 2 \/ a \in 3..Len(Program[t])
  BY <1>2
<1> QED  BY <1>4, <1>5, <1>6, <1>7
LEMMA LoadAsksNext ==
  ASSUME TypeOK, NoLoadRows, NEW t \in Loads, LoadInv(t),
         Same_(t) \/ Beginning(t) \/ Granted(t) \/ Skipped(t) \/ Ended(t)
  PROVE  LoadAsks(t)'
<1>0. t \in Txns /\ LoadAsks(t) /\ at[t] \in Nat
  BY LoadPrograms DEF LoadInv, TypeOK
<1>1. CASE Same_(t)
  BY <1>0, <1>1 DEF Same_, LoadAsks
<1>2. CASE Ended(t)
  BY <1>2 DEF Ended, LoadAsks
<1>3. CASE Granted(t) \/ Skipped(t)
  <2>1. /\ at'[t] = at[t]
        /\ \A k \in 1..Len(asks'[t]) : asks'[t][k] = asks[t][k + 1] /\ k + 1 \in 1..Len(asks[t])
    BY <1>0, <1>3, NextAsk DEF Granted, Skipped
  <2> QED  BY <1>0, <2>1 DEF LoadAsks
<1>4. CASE Beginning(t)
  <2> DEFINE a == at'[t]
             r == asks'[t]
             f == FileOf(t)
             s == Program[t][a]
  <2>0. ASSUME NEW l, r = <<l>>, AskOf(t, a, l) PROVE LoadAsks(t)'
    <3>1. r = <<l>> => \A k \in 1..Len(r) : r[k] = l
      <4> HIDE DEF r
      <4> QED  OBVIOUS
    <3> QED  BY <2>0, <3>1 DEF LoadAsks
  <2>1. CASE a = 1 /\ r = <<LinkAsk(t)>>
    BY <2>0, <2>1 DEF AskOf
  <2>2. CASE a = 2 /\ r = <<PathAsk(f)>>
    BY <2>0, <2>2 DEF AskOf
  <2>3. CASE a \in 3..Len(Program[t]) /\ r = <<Ask(Occurrences(f), FALSE, "take")>>
    <3>1. Ask(Occurrences(f), FALSE, "take").on = Occurrences(f) /\ ~Ask(Occurrences(f), FALSE, "take").share
      BY DEF Ask
    <3>2. a >= 3
      BY <2>3
    <3>3. AskOf(t, a, Ask(Occurrences(f), FALSE, "take"))
      BY <3>1, <3>2 DEF AskOf
    <3> QED  BY <2>0, <2>3, <3>3
  <2>4. CASE a \in 3..Len(Program[t]) /\ s \in RowStatements /\ s.does \in {"lock", "delete", "check"}
             /\ Requesting(t, s, r)
    <3> SUFFICES ASSUME NEW k \in 1..Len(r) PROVE RowAsk(t, a, r[k])
      BY DEF LoadAsks, AskOf
    <3>0. s.rows \in SUBSET DOMAIN Rows
      BY <2>4 DEF RowStatements
    <3>1. PICK i \in Seen(t, s.rows) : r[k] = Ask(Row(i), s.does = "check", s.does)
      BY <2>4 DEF Requesting
    <3>2. i \in s.rows /\ i \in DOMAIN Rows /\ Row(i) \in Tuples
      BY <3>0, <3>1, Distinct DEF Seen
    <3>3. /\ r[k].on = Row(i) /\ r[k].by = s.does /\ (r[k].share <=> s.does = "check")
          /\ r[k].xmin = xmin[Row(i)]
      <4> DEFINE y == Ask(Row(i), s.does = "check", s.does)
      <4>1. y.on = Row(i) /\ y.by = s.does /\ (y.share <=> s.does = "check") /\ y.xmin = Version(Row(i))
        BY DEF Ask
      <4> HIDE DEF y
      <4>2. r[k] = y
        BY <3>1 DEF y
      <4> QED  BY <3>2, <4>1, <4>2 DEF Version
    <3>4. xmin[Row(i)] # Gone /\ xmin[Row(i)] \notin Loads
      BY <3>1, <3>2 DEF Seen, NoLoadRows
    <3>5. ASSUME Rows[i].table # "imports", s.does # "lock" PROVE xmin[Row(i)] # Initial
      <4> SUFFICES ASSUME xmin[Row(i)] = Initial PROVE FALSE
        OBVIOUS
      <4>1. PICK j \in 3..(a - 1) : Program[t][j] \in RowStatements /\ Program[t][j].does = "lock"
                                    /\ i \in Program[t][j].rows
        BY <2>4, <3>2, <3>5, LoadPrograms DEF FirstLocked
      <4>2. a = at[t] + 1 /\ asks[t] = << >>
        BY <1>4 DEF Beginning
      <4>3. j \in 3..at[t] /\ j <= Len(Program[t])
        <5>1. Len(Program[t]) \in Nat
          BY LoadPrograms
        <5> QED  BY <1>0, <2>4, <4>2, <5>1
      <4>4. PICK q \in held[t] : First_(q, i)
        <5>1. ~\E l \in 1..Len(asks[t]) : First_(asks[t][l], i)
          BY <4>2
        <5> QED  BY <4>1, <4>3, <5>1 DEF LoadInv, LoadLocked
      <4>5. Has(t, Ask(Row(i), FALSE, "lock"))
        BY <3>2, <4>4 DEF Has, Same, Ask, Version, First_
      <4> QED  BY <3>1, <4>5 DEF Seen
    <3> QED  BY <2>4, <3>2, <3>3, <3>4, <3>5 DEF RowAsk
  <2> QED  BY <1>4, <2>1, <2>2, <2>3, <2>4, LoadBegins
<1> QED  BY <1>1, <1>2, <1>3, <1>4

LEMMA LoadHoldsNext ==
  ASSUME TypeOK, NEW t \in Loads, LoadInv(t),
         Same_(t) \/ Beginning(t) \/ Granted(t) \/ Skipped(t) \/ Ended(t)
  PROVE  LoadHolds(t)'
<1>0. t \in Txns /\ LoadAsks(t) /\ LoadHolds(t) /\ at[t] \in Nat /\ Len(Program[t]) \in Nat
  BY LoadPrograms DEF LoadInv, TypeOK
<1>1. ASSUME NEW b \in Nat, b >= at[t], NEW q \in held[t] PROVE HeldOf(t, b, q)
  <2>1. \A j \in 3..at[t] : j \in 3..b
    BY <1>0, <1>1
  <2>2. at[t] >= 3 => b >= 3
    BY <1>0, <1>1
  <2>3. HeldOf(t, at[t], q)
    BY <1>0 DEF LoadHolds
  <2>4. RowHeld(t, at[t], q) => RowHeld(t, b, q)
    BY <2>1 DEF RowHeld
  <2> QED  BY <2>2, <2>3, <2>4 DEF HeldOf
<1>2. CASE Ended(t)
  BY <1>2 DEF Ended, LoadHolds
<1>3. CASE Same_(t) \/ Skipped(t) \/ Beginning(t)
  <2>1. held'[t] = held[t] /\ at'[t] \in Nat /\ at'[t] >= at[t]
    BY <1>0, <1>3 DEF Same_, Skipped, Beginning
  <2> QED  BY <1>1, <2>1 DEF LoadHolds
<1>4. CASE Granted(t)
  <2> DEFINE w == Wanted(t)
  <2>1. held'[t] = held[t] \cup {w} /\ at'[t] = at[t] /\ w.by # "check"
    BY <1>4 DEF Granted
  <2>2. 1 \in 1..Len(asks[t]) /\ w = asks[t][1]
    BY <1>0, <1>4, NextAsk DEF Granted
  <2> HIDE DEF w
  <2>3. RowAsk(t, at[t], w) => RowHeld(t, at[t], w)
    <3> SUFFICES ASSUME RowAsk(t, at[t], w) PROVE RowHeld(t, at[t], w)
      OBVIOUS
    <3> DEFINE a == at[t]
    <3>1. a \in 3..a /\ a <= Len(Program[t]) /\ Program[t][a] \in RowStatements
      BY <1>0 DEF RowAsk
    <3>2. ~w.share
      BY <2>1 DEF RowAsk
    <3>3. \E i \in Program[t][a].rows : w.on = Row(i)
      BY DEF RowAsk
    <3> HIDE DEF a
    <3>4. RowHeld(t, a, w)
      BY <3>1, <3>2, <3>3 DEF RowHeld
    <3> QED  BY <3>4 DEF a
  <2>4. HeldOf(t, at[t], w)
    BY <1>0, <2>2, <2>3 DEF LoadAsks, AskOf, HeldOf
  <2>5. \A q \in held'[t] : q \in held[t] \/ q = w
    BY <2>1
  <2>6. \A q \in held[t] : HeldOf(t, at[t], q)
    BY <1>0 DEF LoadHolds
  <2> QED  BY <2>1, <2>4, <2>5, <2>6 DEF LoadHolds
<1> QED  BY <1>2, <1>3, <1>4

LEMMA LoadPathNext ==
  ASSUME TypeOK, NEW t \in Loads, LoadInv(t),
         Same_(t) \/ Beginning(t) \/ Granted(t) \/ Skipped(t) \/ Ended(t)
  PROVE  LoadPath(t)'
<1> DEFINE l == PathAsk(FileOf(t))
<1>0. t \in Txns /\ LoadPath(t) /\ at[t] \in Nat
  BY LoadPrograms DEF LoadInv, TypeOK
<1>1. CASE Same_(t)
  BY <1>0, <1>1 DEF Same_, LoadPath, PathAsk, FileOf
<1>2. CASE Ended(t)
  BY <1>2 DEF Ended, LoadPath
<1>3. CASE Granted(t)
  <2>1. asks[t] = <<l>> => Wanted(t) = l
    BY DEF Wanted
  <2> QED  BY <1>0, <1>3, <2>1 DEF Granted, LoadPath, PathAsk, FileOf
<1>4. CASE Skipped(t)
  <2>1. asks[t] = <<l>> => Wanted(t) = l
    BY DEF Wanted
  <2>2. There(l)
    BY Distinct DEF There, Version, PathAsk
  <2> QED  BY <1>0, <1>4, <2>1, <2>2 DEF Skipped, LoadPath, PathAsk, FileOf
<1>5. CASE Beginning(t)
  <2>1. at'[t] = at[t] + 1 /\ asks[t] = << >> /\ held'[t] = held[t]
    BY <1>5 DEF Beginning
  <2>2. CASE at[t] >= 2
    <3>1. <<l>> # << >>
      OBVIOUS
    <3>2. l \in held[t]
      BY <1>0, <2>1, <2>2, <3>1 DEF LoadPath
    <3> QED  BY <2>1, <3>2 DEF LoadPath, PathAsk, FileOf
  <2>3. CASE at[t] = 1
    <3>1. at'[t] = 2
      BY <2>1, <2>3
    <3>2. asks'[t] = <<l>>
      <4>1. ~(at'[t] \in 3..Len(Program[t])) /\ at'[t] # 1
        BY <3>1
      <4> QED  BY <1>5, <4>1, LoadBegins
    <3> QED  BY <3>1, <3>2 DEF LoadPath, PathAsk, FileOf
  <2>4. CASE at[t] = 0
    <3>1. ~(at'[t] >= 2)
      BY <2>1, <2>4
    <3> QED  BY <3>1 DEF LoadPath
  <2> QED  BY <1>0, <2>2, <2>3, <2>4
<1> QED  BY <1>1, <1>2, <1>3, <1>4, <1>5
(* What an ordered lock asks for: the rows it sees and does not have, all   *)
(* of them, upward.                                                         *)
AsksUpward(t, S, r) ==
  /\ \A k \in 1..Len(r) : \E i \in Seen(t, S) : r[k].on = Row(i)
  /\ \A k \in 1..Len(r) : \A l \in 1..(k - 1) : \A i, j \in DOMAIN Rows :
       r[k].on = Row(i) /\ r[l].on = Row(j) => j < i
  /\ \A i \in Seen(t, S) : \E k \in 1..Len(r) :
       r[k].on = Row(i) /\ r[k].xmin = xmin[Row(i)] /\ ~r[k].share

LEMMA LockAsks ==
  ASSUME Versions, NEW t, NEW S \in SUBSET DOMAIN Rows
  PROVE  AsksUpward(t, S, AskRows(InOrder(Seen(t, S)), FALSE, "lock"))
<1> DEFINE q == InOrder(Seen(t, S))
           r == AskRows(q, FALSE, "lock")
           n == Len(q)
<1>1. /\ q \in Seq(DOMAIN Rows) /\ Ascending(q)
      /\ \A i \in 1..Len(q) : q[i] \in Seen(t, S)
      /\ \A x \in DOMAIN Rows : x \in Seen(t, S) => \E i \in 1..Len(q) : q[i] = x
  BY InOrderAscends
<1>2. Seen(t, S) \subseteq DOMAIN Rows
  BY SeenRows
<1> HIDE DEF q
<1>3. Len(r) = Len(q) /\ \A k \in 1..Len(q) : r[k] = Ask(Row(q[k]), FALSE, "lock")
  <2>1. "lock" \in Purposes /\ FALSE \in BOOLEAN /\ q \in Seq(DOMAIN Rows)
    BY <1>1 DEF Purposes
  <2> QED  BY <2>1, AskRowsAre
<1>4. \A k \in 1..Len(q) : r[k].on = Row(q[k]) /\ r[k].xmin = Version(Row(q[k])) /\ ~r[k].share
  <2> TAKE k \in 1..Len(q)
  <2> DEFINE y == Ask(Row(q[k]), FALSE, "lock")
  <2>1. y.on = Row(q[k]) /\ y.xmin = Version(Row(q[k])) /\ ~y.share
    BY DEF Ask
  <2> HIDE DEF y, r
  <2>2. r[k] = y
    BY <1>3 DEF y
  <2> QED  BY <2>1, <2>2
<1>5. n \in Nat /\ Len(r) = n
  <2>1. Len(q) \in Nat
    BY <1>1
  <2> HIDE DEF r
  <2> QED  BY <2>1, <1>3
<1> HIDE DEF r
<1>6. ASSUME NEW k \in 1..n, NEW l \in 1..(k - 1), NEW i \in DOMAIN Rows, NEW j \in DOMAIN Rows,
             r[k].on = Row(i), r[l].on = Row(j)
      PROVE  j < i
  <2>1. k \in 1..n /\ l \in 1..n /\ l < k
    <3> HIDE DEF n
    <3> QED  BY <1>5
  <2>2. r[k].on = Row(q[k]) /\ r[l].on = Row(q[l])
    BY <1>4, <2>1
  <2>3. i = q[k] /\ j = q[l]
    BY <1>6, <2>2, Distinct
  <2> QED  BY <1>1, <2>1, <2>3 DEF Ascending
<1>7. ASSUME NEW i \in Seen(t, S)
      PROVE  \E k \in 1..n : r[k].on = Row(i) /\ r[k].xmin = xmin[Row(i)] /\ ~r[k].share
  <2>1. PICK k \in 1..n : q[k] = i
    BY <1>1, <1>2
  <2>2. Row(i) \in Tuples
    BY <1>2, Distinct
  <2>3. r[k].on = Row(i) /\ r[k].xmin = Version(Row(i)) /\ ~r[k].share
    BY <1>4, <2>1
  <2> QED  BY <2>2, <2>3 DEF Version
<1>8. \A k \in 1..n : \E i \in Seen(t, S) : r[k].on = Row(i)
  BY <1>1, <1>4
<1>9. AsksUpward(t, S, r)
  <2> HIDE DEF n
  <2> QED  BY <1>5, <1>6, <1>7, <1>8 DEF AsksUpward
<1> QED  BY <1>9 DEF r, q

LEMMA LoadLockedNext ==
  ASSUME TypeOK, NEW t \in Loads, LoadInv(t), \A x \in Tuples : xmin'[x] = Initial => xmin[x] = Initial,
         Same_(t) \/ Beginning(t) \/ Granted(t) \/ Skipped(t) \/ Ended(t)
  PROVE  LoadLocked(t)'
<1> DEFINE p == Program[t]
           Locking(j) == j <= Len(p) /\ p[j] \in RowStatements /\ p[j].does = "lock"
           Holds(i) == \E q \in held[t] : First_(q, i)
           Asks(i)  == \E k \in 1..Len(asks[t]) : First_(asks[t][k], i)
           Holds_(i) == \E q \in held'[t] : First_(q, i)
           Asks_(i)  == \E k \in 1..Len(asks'[t]) : First_(asks'[t][k], i)
<1>0. t \in Txns /\ LoadLocked(t) /\ at[t] \in Nat /\ Len(p) \in Nat
  BY LoadPrograms DEF LoadInv, TypeOK
<1> SUFFICES ASSUME NEW j \in 3..at'[t], Locking(j), NEW i \in p[j].rows, xmin'[Row(i)] = Initial
             PROVE  Holds_(i) \/ (j = at'[t] /\ Asks_(i))
  BY DEF LoadLocked
<1>1. i \in DOMAIN Rows /\ Row(i) \in Tuples /\ p[j].rows \in SUBSET DOMAIN Rows
  BY Distinct DEF RowStatements
<1>2. xmin[Row(i)] = Initial
  BY <1>1
<1>3. j \in 3..at[t] => Holds(i) \/ (j = at[t] /\ Asks(i))
  BY <1>0, <1>2 DEF LoadLocked
<1>4. CASE Same_(t)
  BY <1>3, <1>4 DEF Same_
<1>5. CASE Ended(t)
  BY <1>5 DEF Ended
<1>6. CASE Granted(t) \/ Skipped(t)
  <2>1. /\ at'[t] = at[t] /\ Wanted(t) = asks[t][1] /\ Len(asks[t]) \in Nat
        /\ Len(asks'[t]) = Len(asks[t]) - 1
        /\ \A k \in 1..Len(asks'[t]) : asks'[t][k] = asks[t][k + 1]
    BY <1>0, <1>6, NextAsk DEF Granted, Skipped
  <2>2. held[t] \subseteq held'[t]
    BY <1>6 DEF Granted, Skipped
  <2>3. CASE Holds(i)
    BY <2>2, <2>3
  <2>4. CASE j = at[t] /\ Asks(i)
    <3>1. PICK k \in 1..Len(asks[t]) : First_(asks[t][k], i)
      BY <2>4
    <3>2. CASE k = 1
      <4>1. First_(Wanted(t), i)
        BY <2>1, <3>1, <3>2
      <4>2. There(Wanted(t))
        BY <1>1, <1>2, <4>1 DEF There, Version, First_
      <4>3. Wanted(t) \in held'[t]
        BY <1>6, <4>2 DEF Granted, Skipped
      <4> QED  BY <4>1, <4>3
    <3>3. CASE k # 1
      <4>1. k - 1 \in 1..Len(asks'[t]) /\ (k - 1) + 1 = k
        BY <2>1, <3>3
      <4>2. asks'[t][k - 1] = asks[t][k]
        BY <2>1, <4>1
      <4> QED  BY <2>1, <2>4, <3>1, <4>1, <4>2
    <3> QED  BY <3>2, <3>3
  <2> QED  BY <1>3, <2>1, <2>3, <2>4
<1>7. CASE Beginning(t)
  <2>1. at'[t] = at[t] + 1 /\ asks[t] = << >> /\ held'[t] = held[t]
    BY <1>7 DEF Beginning
  <2>2. CASE j \in 3..at[t]
    <3>1. ~Asks(i)
      BY <2>1
    <3> QED  BY <1>3, <2>1, <2>2, <3>1
  <2>3. CASE j = at'[t]
    <3> DEFINE S == p[j].rows
               r == asks'[t]
    <3>1. Requesting(t, p[j], r)
      <4>1. at'[t] # 1 /\ at'[t] # 2
        BY <2>3
      <4> QED  BY <1>7, <2>3, <4>1, LoadBegins
    <3>2. r = AskRows(InOrder(Seen(t, S)), FALSE, "lock")
      BY <3>1 DEF Requesting
    <3>3. CASE Has(t, Ask(Row(i), FALSE, "lock"))
      <4>1. PICK q \in held[t] : q.on = Row(i) /\ q.xmin = Version(Row(i)) /\ ~q.share
        BY <3>3 DEF Has, Same, Ask
      <4>2. First_(q, i)
        BY <1>1, <1>2, <4>1 DEF First_, Version
      <4> QED  BY <2>1, <4>2
    <3>4. CASE ~Has(t, Ask(Row(i), FALSE, "lock"))
      <4>1. Initial # Gone
        BY DEF Initial, Gone
      <4>2. i \in Seen(t, S)
        BY <1>2, <3>4, <4>1 DEF Seen
      <4> HIDE DEF S, r
      <4>3. PICK k \in 1..Len(r) : r[k].on = Row(i) /\ r[k].xmin = xmin[Row(i)] /\ ~r[k].share
        <5>1. S \in SUBSET DOMAIN Rows /\ Versions
          BY <1>1, TypeVersions DEF S
        <5>2. AsksUpward(t, S, r)
          BY <3>2, <5>1, LockAsks
        <5> QED  BY <4>2, <5>2 DEF AsksUpward
      <4>4. First_(r[k], i)
        BY <1>2, <4>3 DEF First_
      <4> QED  BY <2>3, <4>4 DEF r
    <3> QED  BY <3>3, <3>4
  <2> QED  BY <1>0, <2>1, <2>2, <2>3
<1> QED  BY <1>4, <1>5, <1>6, <1>7

LEMMA LoadUpwardNext ==
  ASSUME TypeOK, NEW t \in Loads, LoadInv(t),
         Same_(t) \/ Beginning(t) \/ Granted(t) \/ Skipped(t) \/ Ended(t)
  PROVE  LoadUpward(t)'
<1> DEFINE p == Program[t]
           a == at'[t]
           r == asks'[t]
<1>0. t \in Txns /\ LoadUpward(t) /\ LoadHolds(t) /\ at[t] \in Nat /\ Len(p) \in Nat
  BY LoadPrograms DEF LoadInv, TypeOK
<1> SUFFICES ASSUME a \in 3..Len(p), p[a] \in RowStatements, p[a].does = "lock",
                    NEW k \in 1..Len(r), NEW i \in DOMAIN Rows, NEW j \in DOMAIN Rows, r[k].on = Row(i)
             PROVE  /\ \A q \in held'[t] : q.on = Row(j) => j < i
                    /\ \A l \in 1..(k - 1) : r[l].on = Row(j) => j < i
  BY DEF LoadUpward
<1>1. CASE Same_(t)
  BY <1>0, <1>1 DEF Same_, LoadUpward
<1>2. CASE Ended(t)
  BY <1>2 DEF Ended
<1>3. CASE Granted(t) \/ Skipped(t)
  <2>1. /\ at'[t] = at[t] /\ Wanted(t) = asks[t][1] /\ Len(asks[t]) \in Nat
        /\ Len(r) = Len(asks[t]) - 1 /\ Len(asks[t]) >= 1
        /\ \A h \in 1..Len(r) : r[h] = asks[t][h + 1]
    BY <1>0, <1>3, NextAsk DEF Granted, Skipped
  <2>2. \A q \in held'[t] : q \in held[t] \/ q = Wanted(t)
    BY <1>3 DEF Granted, Skipped
  <2>3. k + 1 \in 1..Len(asks[t]) /\ asks[t][k + 1].on = Row(i) /\ 1 \in 1..((k + 1) - 1)
    <3>1. k \in 1..Len(r) /\ r[k].on = Row(i)
      OBVIOUS
    <3>2. Len(r) \in Nat /\ Len(r) = Len(asks[t]) - 1 /\ r[k] = asks[t][k + 1]
      BY <2>1, <3>1
    <3> HIDE DEF r
    <3> QED  BY <2>1, <3>1, <3>2
  <2>4. /\ \A q \in held[t] : q.on = Row(j) => j < i
        /\ \A l \in 1..((k + 1) - 1) : asks[t][l].on = Row(j) => j < i
    BY <1>0, <2>1, <2>3 DEF LoadUpward
  <2>5. \A q \in held'[t] : q.on = Row(j) => j < i
    BY <2>1, <2>2, <2>3, <2>4
  <2>6. \A l \in 1..(k - 1) : r[l].on = Row(j) => j < i
    <3> TAKE l \in 1..(k - 1)
    <3>2. k \in 1..Len(r) /\ Len(r) \in Nat
      BY <2>1
    <3> DEFINE n == Len(r)
    <3>3. k \in 1..n /\ n \in Nat
      BY <3>2
    <3> HIDE DEF n
    <3>4. l \in 1..n /\ l + 1 \in 1..((k + 1) - 1)
      BY <3>3
    <3>1. l \in 1..Len(r) /\ l + 1 \in 1..((k + 1) - 1)
      BY <3>4 DEF n
    <3> QED  BY <2>1, <2>4, <3>1
  <2> QED  BY <2>5, <2>6
<1>4. CASE Beginning(t)
  <2> DEFINE S == p[a].rows
  <2>1. a = at[t] + 1 /\ held'[t] = held[t]
    BY <1>4 DEF Beginning
  <2>2. Requesting(t, p[a], r)
    <3>1. a # 1 /\ a # 2
      OBVIOUS
    <3> QED  BY <1>4, <3>1, LoadBegins
  <2>3. r = AskRows(InOrder(Seen(t, S)), FALSE, "lock") /\ S \in SUBSET DOMAIN Rows
    BY <2>2 DEF Requesting, RowStatements
  <2>7. k \in 1..Len(r) /\ r[k].on = Row(i) /\ Versions
    BY TypeVersions
  <2> HIDE DEF S, r
  <2>8. AsksUpward(t, S, r)
    BY <2>3, <2>7, LockAsks
  <2>4. /\ \E h \in Seen(t, S) : r[k].on = Row(h)
        /\ \A l \in 1..(k - 1) : r[l].on = Row(j) => j < i
    BY <2>7, <2>8 DEF AsksUpward
  <2>5. i \in S
    <3>1. PICK h \in Seen(t, S) : r[k].on = Row(h)
      BY <2>4
    <3>2. h \in S /\ h \in DOMAIN Rows
      BY <2>3, SeenRows
    <3>3. h = i
      BY <2>7, <3>1, <3>2, Distinct
    <3> QED  BY <3>2, <3>3
  <2>6. ASSUME NEW q \in held[t], q.on = Row(j) PROVE j < i
    <3>1. HeldOf(t, at[t], q)
      BY <1>0 DEF LoadHolds
    <3>2. LinkAsk(t).on = Link /\ PathAsk(FileOf(t)).on = Path(FileOf(t))
      BY DEF LinkAsk, PathAsk
    <3>3. RowHeld(t, at[t], q)
      BY <2>6, <3>1, <3>2, Distinct DEF HeldOf
    <3>4. PICK h \in 3..at[t] : h <= Len(p) /\ p[h] \in RowStatements /\ \E x \in p[h].rows : q.on = Row(x)
      BY <3>3 DEF RowHeld
    <3>5. j \in p[h].rows
      BY <2>6, <3>4, Distinct
    <3>6. h \in 3..Len(p) /\ h < a
      BY <1>0, <2>1, <3>4
    <3> QED  BY <2>5, <3>4, <3>5, <3>6, LoadPrograms DEF LockedUpward, S
  <2> QED  BY <2>1, <2>4, <2>6 DEF r
<1> QED  BY <1>1, <1>2, <1>3, <1>4

(* No two transactions hold locks that conflict. *)
Compat ==
  \A t, u \in Txns : t # u => \A q \in held[t], r \in held[u] : ~Conflict(q, r)

LEMMA CompatInit == Init => Compat
  BY DEF Init, Compat

LEMMA CompatNext ==
  ASSUME TypeOK, Compat, [Next]_vars
  PROVE  Compat'
<1>1. ASSUME NEW t \in Txns, Granted(t), NEW u \in Txns, t # u, NEW r \in held[u]
      PROVE  ~Conflict(Wanted(t), r)
  <2> SUFFICES ASSUME Conflict(Wanted(t), r) PROVE FALSE
    OBVIOUS
  <2>1. Asking(t) /\ ~WaitsFor(t, u)
    BY <1>1 DEF Granted, Blocked
  <2>2. Has(t, Wanted(t))
    BY <1>1, <2>1 DEF WaitsFor
  <2>3. PICK q \in held[t] : Same(Wanted(t), q) /\ (Wanted(t).share \/ ~q.share)
    BY <2>2 DEF Has
  <2>4. Conflict(q, r)
    BY <2>3 DEF Conflict, Same
  <2> QED  BY <1>1, <2>4 DEF Compat
<1>2. ASSUME NEW t \in Txns, NEW u \in Txns, t # u, NEW q \in held'[t], NEW r \in held'[u], Conflict(q, r)
      PROVE  FALSE
  <2>1. Conflict(r, q)
    BY <1>2 DEF Conflict, Same
  <2>2. CASE q \in held[t] /\ r \in held[u]
    BY <1>2, <2>2 DEF Compat
  <2>3. /\ q \in held[t] \/ (Granted(t) /\ q = Wanted(t) /\ held'[u] = held[u])
        /\ r \in held[u] \/ (Granted(u) /\ r = Wanted(u) /\ held'[t] = held[t])
    <3>1. CASE \A v \in Txns : Same_(v)
      BY <1>2, <3>1 DEF Same_
    <3>2. ASSUME NEW v \in Txns, \A x \in Txns \ {v} : Same_(x), Beginning(v) \/ Granted(v) \/ Skipped(v) \/ Ended(v)
          PROVE  /\ q \in held[t] \/ (Granted(t) /\ q = Wanted(t) /\ held'[u] = held[u])
                 /\ r \in held[u] \/ (Granted(u) /\ r = Wanted(u) /\ held'[t] = held[t])
      <4>1. \A x \in Txns : x # v => held'[x] = held[x]
        BY <3>2 DEF Same_
      <4>2. \A y \in held'[v] : y \in held[v] \/ (Granted(v) /\ y = Wanted(v))
        BY <3>2 DEF Beginning, Granted, Skipped, Ended
      <4>3. CASE v = t
        BY <1>2, <4>1, <4>2, <4>3
      <4>4. CASE v = u
        BY <1>2, <4>1, <4>2, <4>4
      <4>5. CASE v # t /\ v # u
        BY <1>2, <4>1, <4>5
      <4> QED  BY <4>3, <4>4, <4>5
    <3> QED  BY <3>1, <3>2, Moves
  <2>4. CASE Granted(t) /\ q = Wanted(t) /\ held'[u] = held[u]
    BY <1>1, <1>2, <2>4
  <2>5. CASE Granted(u) /\ r = Wanted(u) /\ held'[t] = held[t]
    BY <1>1, <1>2, <2>1, <2>5
  <2> QED  BY <2>2, <2>3, <2>4, <2>5
<1> QED  BY <1>2 DEF Compat

LoadsInv == NoLoadRows /\ \A t \in Loads : LoadInv(t)

LEMMA LoadsInit == Init => LoadsInv
<1> SUFFICES ASSUME Init PROVE LoadsInv
  OBVIOUS
<1>1. \A x \in Tuples : xmin[x] = Initial
  BY DEF Init
<1>2. Initial \notin Loads
  BY TxnsAssumption DEF Txns
<1>3. NoLoadRows
  BY <1>1, <1>2, Distinct DEF NoLoadRows
<1>4. ASSUME NEW t \in Loads PROVE LoadInv(t)
  <2>1. at[t] = 0 /\ asks[t] = << >> /\ held[t] = {}
    BY LoadPrograms DEF Init
  <2>2. Len(asks[t]) = 0
    BY <2>1
  <2> QED  BY <2>1, <2>2 DEF LoadInv, LoadAsks, LoadHolds, LoadPath, LoadLocked, LoadUpward
<1> QED  BY <1>3, <1>4 DEF LoadsInv

LEMMA LoadsNext ==
  ASSUME TypeOK, LoadsInv, [Next]_vars
  PROVE  LoadsInv'
<1>1. NoLoadRows' /\ \A x \in Tuples : xmin'[x] = Initial => xmin[x] = Initial
  BY XminNext DEF LoadsInv
<1>2. ASSUME NEW t \in Loads PROVE LoadInv(t)'
  <2>1. Same_(t) \/ Beginning(t) \/ Granted(t) \/ Skipped(t) \/ Ended(t)
    BY Moves, LoadPrograms
  <2>2. NoLoadRows /\ LoadInv(t)
    BY DEF LoadsInv
  <2> QED  BY <1>1, <2>1, <2>2, LoadAsksNext, LoadHoldsNext, LoadPathNext, LoadLockedNext, LoadUpwardNext
           DEF LoadInv
<1> QED  BY <1>1, <1>2 DEF LoadsInv

(* Two loads of one file are never both past its path. *)
LEMMA OneOfAFile ==
  ASSUME TypeOK, Compat, LoadsInv, NEW t \in Loads, NEW u \in Loads, t # u, at[t] >= 3, at[u] >= 3
  PROVE  FileOf(t) # FileOf(u)
<1> SUFFICES ASSUME FileOf(t) = FileOf(u) PROVE FALSE
  OBVIOUS
<1>1. LoadPath(t) /\ LoadPath(u) /\ t \in Txns /\ u \in Txns /\ at[t] \in Nat /\ at[u] \in Nat
  BY LoadPrograms DEF LoadsInv, LoadInv, TypeOK
<1>2. PathAsk(FileOf(t)) \in held[t] /\ PathAsk(FileOf(t)) \in held[u]
  BY <1>1 DEF LoadPath
<1>3. ~PathAsk(FileOf(t)).share
  BY DEF PathAsk
<1> QED  BY <1>1, <1>2, <1>3 DEF Compat, Conflict, Same

(* What a load that waits for a load wants, when no row it wants is new:   *)
(* the file both load, or a row its ordered lock asks for.                 *)
LocksRow(t, i) ==
  /\ Wanted(t).on = Row(i) /\ at[t] \in 3..Len(Program[t])
  /\ Program[t][at[t]] \in RowStatements /\ Program[t][at[t]].does = "lock"

LEMMA LoadWaitsFor ==
  ASSUME TypeOK, Compat, LoadsInv, NEW t \in Loads, NEW u \in Loads, WaitsFor(t, u), ~Overtaken(t)
  PROVE  \/ Wanted(t) = PathAsk(FileOf(t)) /\ FileOf(u) = FileOf(t) /\ PathAsk(FileOf(t)) \in held[u]
         \/ \E i \in DOMAIN Rows : LocksRow(t, i) /\ \E q \in held[u] : q.on = Row(i)
<1> DEFINE w == Wanted(t)
<1>0. /\ t \in Txns /\ u \in Txns /\ t # u /\ t \notin Rebuilds /\ u \notin Rebuilds
      /\ LoadAsks(t) /\ LoadAsks(u) /\ LoadHolds(u)
  BY LoadPrograms DEF WaitsFor, LoadsInv, LoadInv
<1>1. \A v \in Loads : Asking(v) => Wanted(v) \in Locks /\ AskOf(v, at[v], Wanted(v))
  <2> SUFFICES ASSUME NEW v \in Loads, Asking(v) PROVE Wanted(v) \in Locks /\ AskOf(v, at[v], Wanted(v))
    OBVIOUS
  <2>1. asks[v] \in Seq(Locks) /\ asks[v] # << >> /\ LoadAsks(v)
    BY LoadPrograms DEF TypeOK, Asking, LoadsInv, LoadInv
  <2>2. 1 \in 1..Len(asks[v]) /\ Wanted(v) = asks[v][1] /\ asks[v][1] \in Locks
    <3> HIDE DEF Locks
    <3> QED  BY <2>1 DEF Wanted
  <2> QED  BY <2>1, <2>2 DEF LoadAsks
<1>2. AskOf(t, at[t], w) /\ w \in Locks
  BY <1>1 DEF WaitsFor
<1>3. \/ \E q \in held[u] : Conflict(w, q)
      \/ w.on = Link /\ Asking(u) /\ Conflict(w, Wanted(u))
  BY DEF WaitsFor
<1>4. \A q \in held[u] : HeldOf(u, at[u], q)
  BY <1>0 DEF LoadHolds
<1>5. /\ \A v : LinkAsk(v).on = Link /\ (v \notin Rebuilds => LinkAsk(v).share)
      /\ \A f : PathAsk(f).on = Path(f)
  BY DEF LinkAsk, PathAsk
<1> HIDE DEF w
<1>6. CASE w = LinkAsk(t)
  <2>1. w.on = Link /\ w.share
    BY <1>0, <1>5, <1>6
  <2>2. ASSUME NEW q \in held[u], Conflict(w, q) PROVE FALSE
    <3>1. q.on = Link /\ HeldOf(u, at[u], q)
      BY <1>4, <2>1, <2>2 DEF Conflict, Same
    <3>2. q = LinkAsk(u)
      BY <1>5, <3>1, Distinct DEF HeldOf, RowHeld
    <3> QED  BY <1>0, <1>5, <2>1, <2>2, <3>2 DEF Conflict
  <2>3. ASSUME Asking(u), Conflict(w, Wanted(u)) PROVE FALSE
    <3>1. Wanted(u).on = Link /\ AskOf(u, at[u], Wanted(u))
      BY <1>1, <2>1, <2>3 DEF Conflict, Same
    <3>2. Wanted(u) = LinkAsk(u)
      BY <1>5, <3>1, Distinct DEF AskOf, RowAsk
    <3> QED  BY <1>0, <1>5, <2>1, <2>3, <3>2 DEF Conflict
  <2> QED  BY <1>3, <2>2, <2>3
<1>7. CASE w = PathAsk(FileOf(t))
  <2>1. w.on = Path(FileOf(t)) /\ w.on # Link
    BY <1>5, <1>7, Distinct
  <2>2. PICK q \in held[u] : Conflict(w, q)
    BY <1>3, <2>1
  <2>3. q.on = Path(FileOf(t)) /\ HeldOf(u, at[u], q)
    BY <1>4, <2>1, <2>2 DEF Conflict, Same
  <2>4. q = PathAsk(FileOf(u))
    BY <1>5, <2>3, Distinct DEF HeldOf, RowHeld
  <2>5. FileOf(u) = FileOf(t)
    BY <1>5, <2>3, <2>4, Distinct
  <2> QED  BY <1>7, <2>4, <2>5 DEF w
<1>8. CASE w.on = Occurrences(FileOf(t)) /\ at[t] >= 3
  <2>1. w.on # Link
    BY <1>8, Distinct
  <2>2. PICK q \in held[u] : Conflict(w, q)
    BY <1>3, <2>1
  <2>3. q.on = Occurrences(FileOf(t)) /\ HeldOf(u, at[u], q)
    BY <1>4, <1>8, <2>2 DEF Conflict, Same
  <2>4. q.on = Occurrences(FileOf(u)) /\ at[u] >= 3
    BY <1>5, <2>3, Distinct DEF HeldOf, RowHeld
  <2>5. FileOf(u) = FileOf(t)
    BY <2>3, <2>4, Distinct
  <2> QED  BY <1>0, <1>8, <2>4, <2>5, OneOfAFile
<1>9. CASE RowAsk(t, at[t], w)
  <2>1. /\ at[t] \in 3..Len(Program[t]) /\ Program[t][at[t]] \in RowStatements
        /\ w.by = Program[t][at[t]].does /\ w.xmin \notin Loads \cup {Gone}
    BY <1>9 DEF RowAsk
  <2>2. PICK i \in Program[t][at[t]].rows : /\ w.on = Row(i)
                                            /\ Rows[i].table # "imports" /\ w.by # "lock" => w.xmin # Initial
    BY <1>9 DEF RowAsk
  <2>3. i \in DOMAIN Rows /\ w.on # Link
    BY <2>1, <2>2, Distinct DEF RowStatements
  <2>4. PICK q \in held[u] : Conflict(w, q)
    BY <1>3, <2>3
  <2>5. q.on = Row(i) /\ HeldOf(u, at[u], q)
    BY <1>4, <2>2, <2>4 DEF Conflict, Same
  <2>6. CASE w.by = "lock"
    <3>1. LocksRow(t, i)
      BY <2>1, <2>2, <2>6 DEF LocksRow, w
    <3> QED  BY <2>3, <2>5, <3>1
  <2>7. CASE w.by # "lock"
    <3>1. w.xmin \in Txns \cup {Initial, Gone}
      BY <1>2 DEF Locks
    <3>2. w.xmin = Initial
      BY <2>1, <2>7, <3>1 DEF Overtaken, Txns, w
    <3>3. Rows[i].table = "imports"
      BY <2>2, <2>7, <3>2
    <3>4. Rows[i].from = FileOf(t)
      <4>1. AfterPath(Program[t], FileOf(t))
        BY LoadPrograms
      <4> QED  BY <2>1, <2>2, <3>3, <4>1 DEF AfterPath
    <3>5. RowHeld(u, at[u], q)
      BY <1>5, <2>5, Distinct DEF HeldOf
    <3>6. PICK j \in 3..at[u] : /\ j <= Len(Program[u]) /\ Program[u][j] \in RowStatements
                                /\ \E x \in Program[u][j].rows : q.on = Row(x)
      BY <3>5 DEF RowHeld
    <3>7. i \in Program[u][j].rows
      BY <2>5, <3>6, Distinct
    <3>8. at[u] \in Nat /\ Len(Program[u]) \in Nat /\ at[t] >= 3
      BY <1>0, <2>1, LoadPrograms DEF TypeOK
    <3>9. j \in 3..Len(Program[u]) /\ at[u] >= 3
      BY <3>6, <3>8
    <3>10. Rows[i].from = FileOf(u)
      BY <3>3, <3>6, <3>7, <3>9, LoadPrograms DEF AfterPath
    <3> QED  BY <1>0, <3>4, <3>8, <3>9, <3>10, OneOfAFile
  <2> QED  BY <2>6, <2>7
<1> QED  BY <1>2, <1>6, <1>7, <1>8, <1>9 DEF AskOf

(* Who is waited for and waits wants a row above those it has. *)
LEMMA LoadWaitsUpward ==
  ASSUME TypeOK, Compat, LoadsInv, NEW t \in Loads, NEW u \in Loads, NEW v \in Loads,
         WaitsFor(t, u), WaitsFor(u, v), ~Overtaken(t), ~Overtaken(u)
  PROVE  \E j \in DOMAIN Rows : LocksRow(u, j) /\ \A i \in DOMAIN Rows : LocksRow(t, i) => i < j
<1>0. LoadPath(u) /\ LoadHolds(u) /\ LoadUpward(u) /\ u \in Txns /\ at[u] \in Nat /\ ~Has(u, Wanted(u))
  BY LoadPrograms DEF LoadsInv, LoadInv, TypeOK, WaitsFor
<1>1. PathAsk(FileOf(u)) \in held[u] => Wanted(u) # PathAsk(FileOf(u))
  BY <1>0 DEF Has, Same
<1>2. \A q \in held[u] : \A i : q.on = Row(i) => at[u] >= 3
  <2> SUFFICES ASSUME NEW q \in held[u], NEW i, q.on = Row(i) PROVE at[u] >= 3
    OBVIOUS
  <2>1. HeldOf(u, at[u], q)
    BY <1>0 DEF LoadHolds
  <2>2. LinkAsk(u).on = Link /\ PathAsk(FileOf(u)).on = Path(FileOf(u))
    BY DEF LinkAsk, PathAsk
  <2>3. RowHeld(u, at[u], q)
    BY <2>1, <2>2, Distinct DEF HeldOf
  <2>4. PICK j \in 3..at[u] : TRUE
    BY <2>3 DEF RowHeld
  <2> QED  BY <1>0, <2>4
<1>3. PathAsk(FileOf(u)) \in held[u] \/ \E i \in DOMAIN Rows : LocksRow(t, i) /\ \E q \in held[u] : q.on = Row(i)
  BY LoadWaitsFor
<1>4. Wanted(u) # PathAsk(FileOf(u))
  <2>1. CASE \E i \in DOMAIN Rows : \E q \in held[u] : q.on = Row(i)
    <3>1. at[u] >= 3
      BY <1>2, <2>1
    <3> QED  BY <1>0, <1>1, <3>1 DEF LoadPath
  <2> QED  BY <1>1, <1>3, <2>1
<1>5. PICK j \in DOMAIN Rows : LocksRow(u, j)
  BY <1>4, LoadWaitsFor
<1>6. ASSUME NEW i \in DOMAIN Rows, LocksRow(t, i) PROVE i < j
  <2>1. Wanted(t).on = Row(i) /\ Wanted(t) # PathAsk(FileOf(t))
    <3>1. PathAsk(FileOf(t)).on = Path(FileOf(t))
      BY DEF PathAsk
    <3> QED  BY <1>6, <3>1, Distinct DEF LocksRow
  <2>2. PICK x \in DOMAIN Rows : LocksRow(t, x) /\ \E q \in held[u] : q.on = Row(x)
    BY <2>1, LoadWaitsFor
  <2>3. x = i
    BY <2>1, <2>2, Distinct DEF LocksRow
  <2>4. PICK q \in held[u] : q.on = Row(i)
    BY <2>2, <2>3
  <2>5. 1 \in 1..Len(asks[u]) /\ asks[u][1].on = Row(j)
    <3>1. asks[u] \in Seq(Locks) /\ asks[u] # << >> /\ Wanted(u).on = Row(j)
      BY <1>0, <1>5 DEF TypeOK, WaitsFor, Asking, LocksRow
    <3> HIDE DEF Locks
    <3> QED  BY <3>1 DEF Wanted
  <2> QED  BY <1>0, <1>5, <2>4, <2>5 DEF LoadUpward, LocksRow
<1> QED  BY <1>5, <1>6

LEMMA CyclesOverNewRows ==
  ASSUME TypeOK, Compat, LoadsInv
  PROVE  LoadsCycleOverNewRows
<1> SUFFICES ASSUME NEW S \in SUBSET Loads, Cyclic(S), \A t \in S : ~Overtaken(t)
             PROVE  FALSE
  BY DEF LoadsCycleOverNewRows
<1> DEFINE I == {i \in DOMAIN Rows : \E t \in S : LocksRow(t, i)}
           n == Len(Rows)
           D == {n - i : i \in I}
<1>1. \A t \in S : \E u \in S : WaitsFor(t, u)
  BY DEF Cyclic
<1>2. ASSUME NEW t \in S
      PROVE  \E j \in I : \A i \in DOMAIN Rows : LocksRow(t, i) => i < j
  <2>1. PICK u \in S : WaitsFor(t, u)
    BY <1>1
  <2>2. PICK v \in S : WaitsFor(u, v)
    BY <1>1
  <2> QED  BY <2>1, <2>2, LoadWaitsUpward
<1>3. I # {}
  BY <1>2 DEF Cyclic
<1>4. n \in Nat /\ DOMAIN Rows = 1..n
  BY RowNumbers
<1>5. D \in SUBSET Nat /\ D # {}
  <2>1. I \subseteq 1..n
    BY <1>4
  <2>2. \A i \in I : n - i \in Nat
    <3> HIDE DEF I, n
    <3> QED  BY <1>4, <2>1
  <2> HIDE DEF I, n
  <2> QED  BY <1>3, <2>2
<1> HIDE DEF D
<1>6. PICK d \in D : \A e \in D : ~(e < d)
  BY <1>5, LeastOf
<1>7. PICK i \in I : d = n - i
  BY <1>6 DEF D
<1>8. PICK t \in S : LocksRow(t, i)
  BY <1>7
<1>9. PICK j \in I : i < j
  BY <1>2, <1>7, <1>8
<1>10. n - j \in D /\ j \in 1..n /\ i \in 1..n
  BY <1>4, <1>7, <1>9 DEF D
<1> QED
  <2> HIDE DEF n
  <2> QED  BY <1>4, <1>6, <1>7, <1>9, <1>10

(* What the ordered locks give the loads, however the derived rows cross:  *)
(* no two of them wait for each other but over a row derived again since.  *)
THEOREM LoadsDeadlockOnlyOverNewRows == Spec => []LoadsCycleOverNewRows
<1>1. Init => TypeOK /\ Compat /\ LoadsInv
  BY TypeInit, CompatInit, LoadsInit
<1>2. TypeOK /\ Compat /\ LoadsInv /\ [Next]_vars => (TypeOK /\ Compat /\ LoadsInv)'
  BY TypeNext, CompatNext, LoadsNext
<1>3. TypeOK /\ Compat /\ LoadsInv => LoadsCycleOverNewRows
  BY CyclesOverNewRows
<1> QED  BY <1>1, <1>2, <1>3, PTL DEF Spec
=============================================================================
