---------------------------- MODULE CoordsProofs ----------------------------
(***************************************************************************)
(* Proofs about Coords: Resolve's search, the descriptors of what it       *)
(* resolves, and the line-by-line scanners of its manifests against what   *)
(* the formats say.                                                        *)
(***************************************************************************)
EXTENDS Coords, DataInduction, FiniteSetTheorems

-----------------------------------------------------------------------------
(* The registry. *)

LEMMA Registered ==
  /\ DOMAIN Manifests = 1 .. 11
  /\ Range(Manifests) = { Manifests[i] : i \in 1 .. 11 }
  /\ DOMAIN ecosystems = Range(Manifests)
  /\ \A i, j \in 1 .. 11 : Manifests[i] = Manifests[j] => i = j
<1>1. DOMAIN Manifests = 1 .. 11
  BY DEF Manifests
<1>2. Range(Manifests) = { Manifests[i] : i \in 1 .. 11 }
  BY <1>1 DEF Range
<1>3. DOMAIN ecosystems = Range(Manifests)
  BY DEF ecosystems
<1>4. \A i, j \in 1 .. 11 : Manifests[i] = Manifests[j] => i = j
  BY DEF Manifests
<1> QED  BY <1>1, <1>2, <1>3, <1>4

LEMMA EcosystemAt ==
  \A i \in 1 .. 11 : ecosystems[Manifests[i]] = Registry[i]
<1> TAKE i \in 1 .. 11
<1> DEFINE m == Manifests[i]
           k == CHOOSE j \in DOMAIN Manifests : Manifests[j] = m
<1>1. m \in Range(Manifests) /\ i \in DOMAIN Manifests
  BY Registered
<1>2. k \in DOMAIN Manifests /\ Manifests[k] = m
  BY <1>1
<1>3. k = i
  BY <1>2, Registered
<1>4. ecosystems[m] = Registry[k]
  BY <1>1 DEF ecosystems
<1> QED  BY <1>3, <1>4

(* No two ecosystems share a scheme or an extension. *)
LEMMA RegistryApart ==
  /\ \A i, j \in 1 .. 11 : Registry[i].scheme = Registry[j].scheme => i = j
  /\ \A i, j \in 1 .. 11 : \A e \in Registry[i].exts : e \in Registry[j].exts => i = j
  /\ \A i \in 1 .. 11 : Registry[i].exts # {}
<1>1. \A i, j \in 1 .. 11 : Registry[i].scheme = Registry[j].scheme => i = j
  BY DEF Registry, CMake, Cargo, NuGet, RubyGems, SwiftPM, Composer, GoMod, NPM, Maven, PyPI,
         Gradle, Ecosystem
<1> DEFINE at(e) == IF e = ".rs" THEN 2 ELSE IF e = ".cs" THEN 3 ELSE IF e = ".rb" THEN 4
                    ELSE IF e = ".swift" THEN 5 ELSE IF e = ".php" THEN 6 ELSE IF e = ".go" THEN 7
                    ELSE IF e = ".ts" THEN 8 ELSE IF e = ".java" THEN 9 ELSE IF e = ".py" THEN 10
                    ELSE IF e \in {".kt", ".kts"} THEN 11 ELSE 1
<1>2. ASSUME NEW i \in 1 .. 11, NEW e \in Registry[i].exts PROVE at(e) = i
  <2>1. CASE i = 1
    <3>1. Registry[1] = CMake  BY DEF Registry
    <3> QED  BY <2>1, <3>1, <1>2 DEF CMake, Ecosystem
  <2>2. CASE i = 2
    <3>1. Registry[2] = Cargo  BY DEF Registry
    <3> QED  BY <2>2, <3>1, <1>2 DEF Cargo, Ecosystem
  <2>3. CASE i = 3
    <3>1. Registry[3] = NuGet  BY DEF Registry
    <3> QED  BY <2>3, <3>1, <1>2 DEF NuGet, Ecosystem
  <2>4. CASE i = 4
    <3>1. Registry[4] = RubyGems  BY DEF Registry
    <3> QED  BY <2>4, <3>1, <1>2 DEF RubyGems, Ecosystem
  <2>5. CASE i = 5
    <3>1. Registry[5] = SwiftPM  BY DEF Registry
    <3> QED  BY <2>5, <3>1, <1>2 DEF SwiftPM, Ecosystem
  <2>6. CASE i = 6
    <3>1. Registry[6] = Composer  BY DEF Registry
    <3> QED  BY <2>6, <3>1, <1>2 DEF Composer, Ecosystem
  <2>7. CASE i = 7
    <3>1. Registry[7] = GoMod  BY DEF Registry
    <3> QED  BY <2>7, <3>1, <1>2 DEF GoMod, Ecosystem
  <2>8. CASE i = 8
    <3>1. Registry[8] = NPM  BY DEF Registry
    <3> QED  BY <2>8, <3>1, <1>2 DEF NPM, Ecosystem
  <2>9. CASE i = 9
    <3>1. Registry[9] = Maven  BY DEF Registry
    <3> QED  BY <2>9, <3>1, <1>2 DEF Maven, Ecosystem
  <2>10. CASE i = 10
    <3>1. Registry[10] = PyPI  BY DEF Registry
    <3> QED  BY <2>10, <3>1, <1>2 DEF PyPI, Ecosystem
  <2>11. CASE i = 11
    <3>1. Registry[11] = Gradle  BY DEF Registry
    <3> QED  BY <2>11, <3>1, <1>2 DEF Gradle, Ecosystem
  <2> QED  BY <2>1, <2>2, <2>3, <2>4, <2>5, <2>6, <2>7, <2>8, <2>9, <2>10, <2>11
<1>3. \A i \in 1 .. 11 : Registry[i].exts # {}
  BY DEF Registry, CMake, Cargo, NuGet, RubyGems, SwiftPM, Composer, GoMod, NPM, Maven, PyPI,
         Gradle, Ecosystem
<1> HIDE DEF at
<1> QED  BY <1>1, <1>2, <1>3

(* Every ecosystem owns its extensions, and has a scheme of its own. *)
LEMMA Owners ==
  /\ \A e \in Extensions : owner[e] \in Range(Manifests) /\ e \in ecosystems[owner[e]].exts
  /\ \A m \in Range(Manifests) : \A e \in ecosystems[m].exts : e \in Extensions /\ owner[e] = m
  /\ \A m \in Range(Manifests) : ecosystems[m].exts # {}
  /\ \A m, n \in Range(Manifests) : ecosystems[m].scheme = ecosystems[n].scheme => m = n
<1>1. \A m \in Range(Manifests) : \E i \in 1 .. 11 : m = Manifests[i] /\ ecosystems[m] = Registry[i]
  BY Registered, EcosystemAt
<1>2. \A e \in Extensions : owner[e] \in Range(Manifests) /\ e \in ecosystems[owner[e]].exts
  <2> TAKE e \in Extensions
  <2>1. \E m \in DOMAIN ecosystems : e \in ecosystems[m].exts
    BY DEF Extensions
  <2>2. owner[e] = CHOOSE m \in DOMAIN ecosystems : e \in ecosystems[m].exts
    BY DEF owner
  <2> QED  BY <2>1, <2>2, Registered
<1>3. \A m \in Range(Manifests) : \A e \in ecosystems[m].exts : e \in Extensions
  BY Registered DEF Extensions
<1>4. \A m, n \in Range(Manifests) : \A e \in ecosystems[m].exts : e \in ecosystems[n].exts => m = n
  <2> TAKE m, n \in Range(Manifests)
  <2> TAKE e \in ecosystems[m].exts
  <2> HAVE e \in ecosystems[n].exts
  <2>1. PICK i \in 1 .. 11 : m = Manifests[i] /\ ecosystems[m] = Registry[i]
    BY <1>1
  <2>2. PICK j \in 1 .. 11 : n = Manifests[j] /\ ecosystems[n] = Registry[j]
    BY <1>1
  <2>3. e \in Registry[i].exts /\ e \in Registry[j].exts
    BY <2>1, <2>2
  <2>4. i = j
    BY <2>3, RegistryApart
  <2> QED  BY <2>1, <2>2, <2>4
<1>5. \A m \in Range(Manifests) : \A e \in ecosystems[m].exts : owner[e] = m
  BY <1>2, <1>3, <1>4
<1>6. \A m \in Range(Manifests) : ecosystems[m].exts # {}
  BY <1>1, RegistryApart
<1>7. \A m, n \in Range(Manifests) : ecosystems[m].scheme = ecosystems[n].scheme => m = n
  <2> TAKE m, n \in Range(Manifests)
  <2> HAVE ecosystems[m].scheme = ecosystems[n].scheme
  <2>1. PICK i \in 1 .. 11 : m = Manifests[i] /\ ecosystems[m] = Registry[i]
    BY <1>1
  <2>2. PICK j \in 1 .. 11 : n = Manifests[j] /\ ecosystems[n] = Registry[j]
    BY <1>1
  <2>3. Registry[i].scheme = Registry[j].scheme
    BY <2>1, <2>2
  <2>4. i = j
    BY <2>3, RegistryApart
  <2> QED  BY <2>1, <2>2, <2>4
<1> QED  BY <1>2, <1>3, <1>5, <1>6, <1>7

LEMMA GoOwned == ".go" \in Extensions /\ owner[".go"] = "go.mod" /\ "go.mod" \in Range(Manifests)
<1>1. Manifests[7] = "go.mod" /\ Registry[7] = GoMod
  BY DEF Manifests, Registry
<1>2. "go.mod" \in Range(Manifests) /\ ecosystems["go.mod"] = GoMod
  BY <1>1, Registered, EcosystemAt
<1>3. ".go" \in GoMod.exts
  BY DEF GoMod, Ecosystem
<1> QED  BY <1>2, <1>3, Owners

(* The first of some manifests is one of them. *)
LEMMA FirstIsOne ==
  ASSUME NEW found \in SUBSET Range(Manifests), found # {}
  PROVE  First(found) \in found
<1> DEFINE at == { i \in DOMAIN Manifests : Manifests[i] \in found }
<1>1. at \in SUBSET Nat /\ at # {}
  BY Registered
<1>2. PICK x \in at : \A y \in at : ~(y < x)
  <2> HIDE DEF at
  <2> QED  BY <1>1, LeastOf
<1>3. \A y \in at : x <= y
  BY <1>1, <1>2
<1>4. (CHOOSE i \in at : \A j \in at : i <= j) \in at
  <2> HIDE DEF at
  <2> QED  BY <1>3
<1> QED  BY <1>4 DEF First

-----------------------------------------------------------------------------
(* The directories above a tree. *)

Above == { SubSeq(Start, 1, n) : n \in 0 .. Len(Start) }

LEMMA Ancestor ==
  ASSUME NEW n \in 0 .. Len(Start)
  PROVE  LET d == SubSeq(Start, 1, n) IN
         /\ d \in Above /\ d \in Seq(STRING) /\ Len(d) = n
         /\ \A i \in 1 .. n : d[i] = Start[i]
         /\ IsPrefix(d, Start)
         /\ d = <<>> <=> n = 0
         /\ n # 0 => Front(d) = SubSeq(Start, 1, n - 1)
<1> DEFINE d == SubSeq(Start, 1, n)
<1>1. Start \in Seq(STRING) /\ Len(Start) \in Nat /\ n \in Nat /\ n <= Len(Start)
  BY StartAssumption
<1>2. d \in Seq(STRING) /\ Len(d) = n /\ \A i \in 1 .. n : d[i] = Start[i]
  BY <1>1
<1>3. d \in Above
  BY DEF Above
<1>4. d = <<>> <=> n = 0
  BY <1>1, <1>2
<1>5. IsPrefix(d, Start)
  <2>1. SubSeq(d, 1, n) = d
    BY <1>1, <1>2
  <2> QED  BY <1>1, <1>2, <2>1 DEF IsPrefix
<1>6. n # 0 => Front(d) = SubSeq(Start, 1, n - 1)
  <2> SUFFICES ASSUME n # 0 PROVE SubSeq(d, 1, n - 1) = SubSeq(Start, 1, n - 1)
    BY <1>2 DEF Front
  <2> QED  BY <1>1, <1>2
<1> QED  BY <1>2, <1>3, <1>4, <1>5, <1>6

LEMMA AboveAre ==
  /\ \A d \in Above : d \in Seq(STRING) /\ Len(d) \in Nat /\ IsPrefix(d, Start)
  /\ \A d, e \in Above : Len(d) = Len(e) => d = e
  /\ \A d \in Above : d = <<>> <=> Len(d) = 0
  /\ \A d \in Above : d # <<>> => Front(d) \in Above /\ Len(Front(d)) = Len(d) - 1
  /\ Start \in Above
<1>1. Len(Start) \in Nat
  BY StartAssumption
<1>2. \A d \in Above : \E n \in 0 .. Len(Start) : d = SubSeq(Start, 1, n)
  BY DEF Above
<1>3. Start \in Above
  <2>1. SubSeq(Start, 1, Len(Start)) = Start
    BY StartAssumption
  <2>2. Len(Start) \in 0 .. Len(Start)
    BY <1>1
  <2> QED  BY <2>1, <2>2, Ancestor
<1>4. \A d \in Above : d # <<>> => Front(d) \in Above /\ Len(Front(d)) = Len(d) - 1
  <2> TAKE d \in Above
  <2>1. PICK n \in 0 .. Len(Start) : d = SubSeq(Start, 1, n)
    BY <1>2
  <2> HAVE d # <<>>
  <2>2. n # 0 /\ Len(d) = n /\ Front(d) = SubSeq(Start, 1, n - 1)
    BY <2>1, Ancestor
  <2>3. n - 1 \in 0 .. Len(Start)
    BY <1>1, <2>2
  <2>4. SubSeq(Start, 1, n - 1) \in Above /\ Len(SubSeq(Start, 1, n - 1)) = n - 1
    BY <2>3, Ancestor
  <2> QED  BY <2>2, <2>4
<1>5. \A d \in Above : d \in Seq(STRING) /\ Len(d) \in Nat /\ IsPrefix(d, Start) /\ (d = <<>> <=> Len(d) = 0)
  <2> TAKE d \in Above
  <2>1. PICK n \in 0 .. Len(Start) : d = SubSeq(Start, 1, n)
    BY <1>2
  <2> QED  BY <1>1, <2>1, Ancestor
<1>6. \A d, e \in Above : Len(d) = Len(e) => d = e
  <2> TAKE d, e \in Above
  <2>1. PICK n \in 0 .. Len(Start) : d = SubSeq(Start, 1, n)
    BY <1>2
  <2>2. PICK k \in 0 .. Len(Start) : e = SubSeq(Start, 1, k)
    BY <1>2
  <2> QED  BY <2>1, <2>2, Ancestor
<1> QED  BY <1>3, <1>4, <1>5, <1>6

(* A directory that is above the tree is above its source files. *)
LEMMA AboveSources ==
  ASSUME NEW r \in Above, NEW d \in Dirs
  PROVE  /\ d \in Seq(STRING) /\ IsPrefix(r, d)
         /\ Len(r) \in Nat /\ Len(r) <= Len(d)
         /\ \A i \in 1 .. Len(r) : d[i] = Start[i]
<1>1. PICK n \in 0 .. Len(Start) : r = SubSeq(Start, 1, n)
  BY DEF Above
<1>2. /\ r \in Seq(STRING) /\ Len(r) = n
      /\ \A i \in 1 .. n : r[i] = Start[i]
  BY <1>1, Ancestor
<1>3. d \in Seq(STRING) /\ IsPrefix(Start, d)
  BY DirsAssumption
<1>4. Len(Start) <= Len(d) /\ SubSeq(Start, 1, Len(Start)) = SubSeq(d, 1, Len(Start))
  BY <1>3 DEF IsPrefix
<1>5. n \in Nat /\ Len(Start) \in Nat /\ Len(d) \in Nat /\ n <= Len(Start) /\ Start \in Seq(STRING)
  BY StartAssumption, <1>3
<1>6. \A i \in 1 .. Len(Start) : d[i] = Start[i]
  <2>1. SubSeq(Start, 1, Len(Start)) = Start
    BY StartAssumption
  <2>2. \A i \in 1 .. Len(Start) : SubSeq(d, 1, Len(Start))[i] = d[i]
    BY <1>3, <1>4, <1>5
  <2> QED  BY <1>4, <2>1, <2>2
<1>7. SubSeq(r, 1, n) = SubSeq(d, 1, n)
  BY <1>2, <1>3, <1>4, <1>5, <1>6
<1> QED  BY <1>2, <1>3, <1>4, <1>5, <1>6, <1>7 DEF IsPrefix
-----------------------------------------------------------------------------
(* What a directory of a layout holds. *)

LEMMA Held ==
  ASSUME NEW l \in Layouts, NEW d \in Above
  PROVE  /\ d \in DOMAIN l /\ DOMAIN l = Above
         /\ DOMAIN l[d] \subseteq Range(Manifests)
         /\ Present(l[d]) = DOMAIN l[d]
<1>1. DOMAIN l = Above /\ \A x \in DOMAIN l : DOMAIN l[x] \subseteq Range(Manifests)
  BY LayoutsAssumption DEF Above
<1> QED  BY <1>1 DEF Present

(* A go.mod that parses states a path of segments. *)
LEMMA GoModName ==
  ASSUME NEW lines \in Seq([directive : STRING, module : Written]),
         ~FromGoMod(lines).failed
  PROVE  FromGoMod(lines).name \in Written /\ FromGoMod(lines).name # <<>>
<1> DEFINE Test(l) == l.directive = "module" /\ l.module # Absent
           I == { i \in 1 .. Len(lines) : Test(lines[i]) }
           k == SelectInSeq(lines, Test)
           found == ScanModulePath(lines)
<1>1. k = IF I # {} THEN Min(I) ELSE 0
  BY DEF SelectInSeq
<1>2. found = IF k = 0 THEN <<>> ELSE << lines[k] >>
  BY DEF ScanModulePath, FirstLine
<1>3. found # <<>>
  BY DEF FromGoMod, Malformed
<1>4. I # {} /\ k = Min(I)
  BY <1>1, <1>2, <1>3
<1>5. I \in SUBSET Nat
  OBVIOUS
<1>6. k \in I
  <2> HIDE DEF I
  <2>1. PICK x \in I : \A y \in I : ~(y < x)
    BY <1>4, <1>5, LeastOf
  <2>2. \A y \in I : x <= y
    BY <1>5, <2>1
  <2>3. Min(I) = CHOOSE z \in I : \A y \in I : z <= y
    BY DEF Min
  <2> QED  BY <1>4, <2>2, <2>3
<1> DEFINE module == Head(found).module
<1>7. found = << lines[k] >> /\ Head(found) = lines[k]
  <2>1. found = << lines[k] >>
    BY <1>2, <1>3
  <2>2. Head(<< lines[k] >>) = lines[k]
    OBVIOUS
  <2> QED  BY <2>1, <2>2
<1>8. lines[k].module \in Written /\ lines[k].module # <<>>
  <2>1. k \in 1 .. Len(lines) /\ Test(lines[k])
    BY <1>6
  <2>2. lines[k] \in [directive : STRING, module : Written]
    <3> DEFINE R == [directive : STRING, module : Written]
    <3>1. lines \in Seq(R)
      OBVIOUS
    <3> HIDE DEF k, R
    <3>2. lines[k] \in R
      BY <2>1, <3>1
    <3> QED  BY <3>2 DEF R
  <2> QED  BY <2>1, <2>2 DEF Absent
<1>9. FromGoMod(lines).name = Or(module, Unknown)
  BY <1>3 DEF FromGoMod, Identity
<1> QED  BY <1>7, <1>8, <1>9 DEF Or, Absent

-----------------------------------------------------------------------------
(* The inductive invariant: what Resolve has looked at holds nothing, and   *)
(* what it stops at is the nearest directory that holds a manifest.         *)

Typed ==
  /\ layout \in [Trees -> Layouts]
  /\ cur \in [Trees -> Above]
  /\ outcome \in [Trees -> {"looking", "resolved", "no manifest", "failed"}]

Docs(t) == layout[t][cur[t]]

Spread ==
  set = [t \in Trees |-> IF outcome[t] = "resolved" THEN newSet(cur[t], Found(Docs(t), cur[t]))
                         ELSE NoSet]

Searched ==
  \A t \in Trees :
    /\ outcome[t] = "no manifest" => Holds(t) = {}
    /\ \A d \in Holds(t) : Len(d) <= Len(cur[t])

Decided ==
  \A t \in Trees :
    /\ outcome[t] \in {"resolved", "failed"} => cur[t] \in Holds(t)
    /\ outcome[t] = "resolved" => \A m \in DOMAIN Docs(t) : ~From(m, Docs(t)[m]).failed
    /\ outcome[t] = "failed" => \E m \in DOMAIN Docs(t) : From(m, Docs(t)[m]).failed

IInv == Typed /\ Spread /\ Searched /\ Decided

LEMMA InitIInv == Init => IInv
<1> SUFFICES ASSUME Init PROVE IInv
  OBVIOUS
<1>1. Typed
  BY AboveAre DEF Init, Typed
<1>2. Spread
  BY DEF Init, Spread
<1>3. Searched
  <2> SUFFICES ASSUME NEW t \in Trees, NEW d \in Holds(t) PROVE Len(d) <= Len(Start)
    BY DEF Init, Searched
  <2>1. d \in Above
    BY Held, AboveAre DEF Init, Holds
  <2> QED  BY <2>1, AboveAre, StartAssumption DEF IsPrefix
<1>4. Decided
  BY DEF Init, Decided
<1> QED  BY <1>1, <1>2, <1>3, <1>4 DEF IInv

LEMMA NextIInv == IInv /\ [Next]_vars => IInv'
<1> SUFFICES ASSUME IInv, [Next]_vars PROVE IInv'
  OBVIOUS
<1>u. CASE UNCHANGED vars
  BY <1>u DEF IInv, Typed, Spread, Searched, Decided, Docs, Holds, vars
<1>n. ASSUME NEW t \in Trees, Resolve(t) PROVE IInv'
  <2> DEFINE docs == layout[t][cur[t]]
  <2>1. /\ layout \in [Trees -> Layouts] /\ cur \in [Trees -> Above]
        /\ outcome \in [Trees -> {"looking", "resolved", "no manifest", "failed"}]
        /\ Spread /\ Searched /\ Decided
    BY DEF IInv, Typed
  <2>2. /\ outcome[t] = "looking" /\ layout' = layout
        /\ \A s \in Trees : Holds(s)' = Holds(s)
    BY <1>n DEF Resolve, Holds
  <2>3. /\ layout[t] \in Layouts /\ cur[t] \in Above
        /\ DOMAIN layout[t] = Above
        /\ Present(docs) = DOMAIN docs
    <3>1. layout[t] \in Layouts /\ cur[t] \in Above
      BY <2>1
    <3> QED  BY <3>1, Held
  <2>4. Holds(t) \subseteq Above /\ (cur[t] \in Holds(t) <=> DOMAIN docs # {})
    BY <2>3 DEF Holds
  <2>5. \A d \in Holds(t) : Len(d) <= Len(cur[t])
    BY <2>1 DEF Searched
  <2>a. CASE /\ \E m \in Present(docs) : From(m, docs[m]).failed
             /\ outcome' = [outcome EXCEPT ![t] = "failed"]
             /\ UNCHANGED <<cur, set>>
    <3>1. Typed'
      BY <2>1, <2>2, <2>a DEF Typed
    <3>2. Spread'
      BY <2>1, <2>2, <2>a DEF Spread, Docs
    <3>3. Searched'
      BY <2>1, <2>2, <2>a DEF Searched
    <3>4. Decided'
      <4>1. \A s \in Trees : outcome'[s] = (IF s = t THEN "failed" ELSE outcome[s]) /\ Docs(s)' = Docs(s)
        BY <2>1, <2>2, <2>a DEF Docs
      <4>2. Docs(t) = docs
        BY DEF Docs
      <4> SUFFICES ASSUME NEW s \in Trees
                   PROVE  /\ outcome'[s] \in {"resolved", "failed"} => cur'[s] \in Holds(s)'
                          /\ outcome'[s] = "resolved" => \A m \in DOMAIN Docs(s)' : ~From(m, Docs(s)'[m]).failed
                          /\ outcome'[s] = "failed" => \E m \in DOMAIN Docs(s)' : From(m, Docs(s)'[m]).failed
        BY DEF Decided
      <4>3. CASE s = t
        BY <2>2, <2>3, <2>4, <2>a, <4>1, <4>2, <4>3
      <4>4. CASE s # t
        BY <2>1, <2>2, <2>a, <4>1, <4>4 DEF Decided
      <4> QED  BY <4>3, <4>4
    <3> QED  BY <3>1, <3>2, <3>3, <3>4 DEF IInv
  <2>b. CASE /\ Present(docs) # {}
             /\ \A m \in Present(docs) : ~From(m, docs[m]).failed
             /\ outcome' = [outcome EXCEPT ![t] = "resolved"]
             /\ set' = [set EXCEPT ![t] = newSet(cur[t], Found(docs, cur[t]))]
             /\ UNCHANGED cur
    <3>1. Typed'
      BY <2>1, <2>2, <2>b DEF Typed
    <3>2. Spread'
      BY <2>1, <2>2, <2>b DEF Spread, Docs
    <3>3. Searched'
      BY <2>1, <2>2, <2>b DEF Searched
    <3>4. Decided'
      <4>1. \A s \in Trees : outcome'[s] = (IF s = t THEN "resolved" ELSE outcome[s]) /\ Docs(s)' = Docs(s)
        BY <2>1, <2>2, <2>b DEF Docs
      <4>2. Docs(t) = docs
        BY DEF Docs
      <4> QED  BY <2>1, <2>2, <2>3, <2>4, <2>b, <4>1, <4>2 DEF Decided
    <3> QED  BY <3>1, <3>2, <3>3, <3>4 DEF IInv
  <2>c. CASE /\ Present(docs) = {} /\ cur[t] = <<>>
             /\ outcome' = [outcome EXCEPT ![t] = "no manifest"]
             /\ UNCHANGED <<cur, set>>
    <3>1. Typed'
      BY <2>1, <2>2, <2>c DEF Typed
    <3>2. Spread'
      BY <2>1, <2>2, <2>c DEF Spread, Docs
    <3>3. Searched'
      <4>1. Holds(t) = {}
        <5> SUFFICES ASSUME NEW d \in Holds(t) PROVE FALSE
          OBVIOUS
        <5>1. d \in Above /\ Len(cur[t]) = 0 /\ Len(d) <= 0 /\ Len(d) \in Nat
          BY <2>3, <2>4, <2>5, <2>c, AboveAre
        <5>2. d = cur[t]
          BY <2>3, <5>1, AboveAre
        <5> QED  BY <2>3, <2>4, <2>c, <5>2
      <4> QED  BY <2>1, <2>2, <2>c, <4>1 DEF Searched
    <3>4. Decided'
      <4>1. \A s \in Trees : outcome'[s] = (IF s = t THEN "no manifest" ELSE outcome[s]) /\ Docs(s)' = Docs(s)
        BY <2>1, <2>2, <2>c DEF Docs
      <4>2. Docs(t) = docs
        BY DEF Docs
      <4> QED  BY <2>1, <2>2, <2>3, <2>4, <2>c, <4>1, <4>2 DEF Decided
    <3> QED  BY <3>1, <3>2, <3>3, <3>4 DEF IInv
  <2>d. CASE /\ Present(docs) = {} /\ cur[t] # <<>>
             /\ cur' = [cur EXCEPT ![t] = Front(@)]
             /\ UNCHANGED <<outcome, set>>
    <3>0. Front(cur[t]) \in Above /\ Len(Front(cur[t])) = Len(cur[t]) - 1 /\ Len(cur[t]) \in Nat
      BY <2>3, <2>d, AboveAre
    <3>1. Typed'
      BY <2>1, <2>2, <2>d, <3>0 DEF Typed
    <3>2. Spread'
      <4>1. \A s \in Trees : s # t => cur'[s] = cur[s] /\ Docs(s)' = Docs(s)
        BY <2>1, <2>2, <2>d DEF Docs
      <4> QED  BY <2>1, <2>2, <2>d, <4>1 DEF Spread
    <3>3. Searched'
      <4>1. \A d \in Holds(t) : Len(d) <= Len(cur[t]) - 1
        <5> TAKE d \in Holds(t)
        <5>1. d \in Above /\ Len(d) \in Nat /\ Len(d) <= Len(cur[t]) /\ d # cur[t]
          BY <2>3, <2>4, <2>5, <2>d, AboveAre
        <5>2. Len(d) # Len(cur[t])
          BY <2>3, <5>1, AboveAre
        <5> QED  BY <3>0, <5>1, <5>2
      <4>2. \A s \in Trees : cur'[s] = IF s = t THEN Front(cur[t]) ELSE cur[s]
        BY <2>1, <2>d
      <4> QED  BY <2>1, <2>2, <2>d, <3>0, <4>1, <4>2 DEF Searched
    <3>4. Decided'
      <4>1. \A s \in Trees : s # t => cur'[s] = cur[s] /\ Docs(s)' = Docs(s)
        BY <2>1, <2>2, <2>d DEF Docs
      <4> QED  BY <2>1, <2>2, <2>d, <4>1 DEF Decided
    <3> QED  BY <3>1, <3>2, <3>3, <3>4 DEF IInv
  <2> QED  BY <1>n, <2>a, <2>b, <2>c, <2>d DEF Resolve
<1> QED  BY <1>u, <1>n DEF Next

THEOREM CoordsInvariant == Spec => []IInv
<1> QED  BY InitIInv, NextIInv, PTL DEF Spec
-----------------------------------------------------------------------------
(* What the invariant says of a tree that has ended. *)

LEMMA NearestIs ==
  ASSUME IInv, NEW t \in Trees, outcome[t] \in {"resolved", "failed"}
  PROVE  Nearest(t) = cur[t] /\ cur[t] \in Above
<1>1. layout[t] \in Layouts /\ cur[t] \in Above /\ cur[t] \in Holds(t)
  BY DEF IInv, Typed, Decided
<1>2. \A d \in Holds(t) : d \in Above /\ Len(d) <= Len(cur[t])
  BY <1>1, Held DEF IInv, Searched, Holds
<1> DEFINE P(d) == d \in Holds(t) /\ \A e \in Holds(t) : Len(e) <= Len(d)
<1>3. P(cur[t])
  BY <1>1, <1>2
<1>4. \A d : P(d) => d = cur[t]
  <2> SUFFICES ASSUME NEW d, P(d) PROVE d = cur[t]
    OBVIOUS
  <2>1. d \in Above /\ Len(d) \in Nat /\ Len(cur[t]) \in Nat
    BY <1>1, <1>2, AboveAre
  <2>2. Len(d) <= Len(cur[t]) /\ Len(cur[t]) <= Len(d)
    BY <1>1, <1>2
  <2>3. Len(d) = Len(cur[t])
    BY <2>1, <2>2
  <2> QED  BY <1>1, <2>1, <2>3, AboveAre
<1> QED  BY <1>1, <1>3, <1>4 DEF Nearest

(* Every extension of a resolved tree has an entry: what its manifest       *)
(* states, or its ecosystem's unknown, in either case with its own scheme   *)
(* and the directory of the manifests.                                      *)
LEMMA Entry ==
  ASSUME IInv, NEW t \in Trees, outcome[t] = "resolved"
  PROVE  /\ DOMAIN set[t].byExt = Extensions
         /\ \A e \in Extensions :
              LET c == For(set[t], e)  m == owner[e] IN
              /\ c.root = cur[t]
              /\ c.scheme = ecosystems[m].scheme
              /\ m \in DOMAIN Docs(t) => /\ c.name = From(m, Docs(t)[m]).name
                                         /\ c.version = From(m, Docs(t)[m]).version
              /\ m \notin DOMAIN Docs(t) => c.name = Unknown
         /\ set[t].primary \in Range(set[t].byExt)
<1> DEFINE root == cur[t]
           docs == Docs(t)
           found == Found(docs, root)
<1>1. set[t] = newSet(root, found)
  BY DEF IInv, Spread
<1>2. layout[t] \in Layouts /\ cur[t] \in Holds(t) /\ cur[t] \in Above
  BY DEF IInv, Typed, Decided
<1>3. DOMAIN docs \subseteq Range(Manifests) /\ DOMAIN docs # {}
  BY <1>2, Held DEF Holds, Docs
<1>4. DOMAIN found = DOMAIN docs
  BY DEF Found
<1>5. \A m \in DOMAIN docs :
        /\ found[m].root = root /\ found[m].scheme = ecosystems[m].scheme
        /\ found[m].name = From(m, docs[m]).name
        /\ found[m].version = From(m, docs[m]).version
  BY DEF Found, Coord
<1> HIDE DEF docs, found, root
<1>6. /\ set[t].byExt = [e \in Extensions |-> IF owner[e] \in DOMAIN found THEN found[owner[e]]
                                            ELSE unknown(ecosystems[owner[e]], root)]
      /\ set[t].primary = found[First(DOMAIN found)]
  BY <1>1 DEF newSet
<1>7. \A e \in Extensions :
        LET c == For(set[t], e)  m == owner[e] IN
        /\ c.root = root
        /\ c.scheme = ecosystems[m].scheme
        /\ m \in DOMAIN docs => /\ c.name = From(m, docs[m]).name
                                /\ c.version = From(m, docs[m]).version
        /\ m \notin DOMAIN docs => c.name = Unknown
  <2> TAKE e \in Extensions
  <2>1. CASE owner[e] \in DOMAIN docs
    <3>1. For(set[t], e) = found[owner[e]]
      BY <1>4, <1>6, <2>1 DEF For
    <3> QED  BY <1>5, <2>1, <3>1
  <2>2. CASE owner[e] \notin DOMAIN docs
    <3>1. For(set[t], e) = unknown(ecosystems[owner[e]], root)
      BY <1>4, <1>6, <2>2 DEF For
    <3> QED  BY <2>2, <3>1 DEF unknown, Coord
  <2> QED  BY <2>1, <2>2
<1>8. set[t].primary \in Range(set[t].byExt)
  <2> DEFINE m == First(DOMAIN found)
  <2>1. m \in DOMAIN found /\ m \in Range(Manifests)
    BY <1>3, <1>4, FirstIsOne
  <2>2. PICK e \in ecosystems[m].exts : TRUE
    BY <2>1, Owners
  <2>3. e \in Extensions /\ owner[e] = m
    BY <2>1, <2>2, Owners
  <2>4. set[t].byExt[e] = set[t].primary /\ e \in DOMAIN set[t].byExt
    BY <1>6, <2>1, <2>3
  <2> QED  BY <2>4 DEF Range
<1> QED  BY <1>6, <1>7, <1>8 DEF docs, root

LEMMA ResolvedIs == \A t : t \in Resolved <=> t \in Trees /\ outcome[t] = "resolved"
  BY DEF Resolved

(* Resolve's variables have their types, and only a tree that resolved has  *)
(* a set.                                                                   *)
THEOREM CoordsTypeCorrect == Spec => []TypeOK
<1>1. ASSUME IInv PROVE TypeOK
  <2>1. \A t \in Trees : cur[t] \in DOMAIN layout[t] /\ IsPrefix(cur[t], Start)
    <3> TAKE t \in Trees
    <3>1. layout[t] \in Layouts /\ cur[t] \in Above
      BY <1>1 DEF IInv, Typed
    <3> QED  BY <3>1, Held, AboveAre
  <2>2. outcome \in [Trees -> {"looking", "resolved", "no manifest", "failed"}]
    BY <1>1 DEF IInv, Typed
  <2>3. \A t \in Trees : outcome[t] = "resolved" => DOMAIN set[t].byExt = Extensions
    BY <1>1, Entry
  <2>4. \A t \in Trees : outcome[t] # "resolved" => set[t] = NoSet
    BY <1>1 DEF IInv, Spread
  <2> QED  BY <2>1, <2>2, <2>3, <2>4, ResolvedIs DEF TypeOK
<1> QED  BY <1>1, CoordsInvariant, PTL

(* Whatever surrounds a tree, the manifests of the nearest directory that   *)
(* holds one decide, and they only.                                         *)
THEOREM NearestDecide == Spec => []NearestManifestsDecide
<1>1. ASSUME IInv PROVE NearestManifestsDecide
  <2> SUFFICES ASSUME NEW t \in Trees
      PROVE  /\ outcome[t] = "no manifest" => Holds(t) = {}
             /\ outcome[t] = "failed" => \E m \in DOMAIN layout[t][Nearest(t)] :
                                           From(m, layout[t][Nearest(t)][m]).failed
             /\ outcome[t] = "resolved" =>
                  /\ \A e \in Extensions :
                       LET c == For(set[t], e)  docs == layout[t][Nearest(t)] IN
                       /\ c.root = Nearest(t)
                       /\ c.scheme = ecosystems[owner[e]].scheme
                       /\ c.name # Unknown => owner[e] \in DOMAIN docs
                  /\ set[t].primary \in Range(set[t].byExt)
                  /\ \A m \in DOMAIN layout[t][Nearest(t)] : ~From(m, layout[t][Nearest(t)][m]).failed
    BY DEF NearestManifestsDecide
  <2>1. outcome[t] = "no manifest" => Holds(t) = {}
    BY <1>1 DEF IInv, Searched
  <2>2. ASSUME outcome[t] = "failed"
        PROVE  \E m \in DOMAIN layout[t][Nearest(t)] : From(m, layout[t][Nearest(t)][m]).failed
    BY <1>1, <2>2, NearestIs DEF IInv, Decided, Docs
  <2>3. ASSUME outcome[t] = "resolved"
        PROVE  /\ \A e \in Extensions :
                    LET c == For(set[t], e)  docs == layout[t][Nearest(t)] IN
                    /\ c.root = Nearest(t)
                    /\ c.scheme = ecosystems[owner[e]].scheme
                    /\ c.name # Unknown => owner[e] \in DOMAIN docs
               /\ set[t].primary \in Range(set[t].byExt)
               /\ \A m \in DOMAIN layout[t][Nearest(t)] : ~From(m, layout[t][Nearest(t)][m]).failed
    <3>1. Nearest(t) = cur[t]
      BY <1>1, <2>3, NearestIs
    <3>2. \A m \in DOMAIN Docs(t) : ~From(m, Docs(t)[m]).failed
      BY <1>1, <2>3 DEF IInv, Decided
    <3>3. Docs(t) = layout[t][Nearest(t)]
      BY <3>1 DEF Docs
    <3> QED  BY <1>1, <2>3, <3>1, <3>2, <3>3, Entry
  <2> QED  BY <2>1, <2>2, <2>3
<1> QED  BY <1>1, CoordsInvariant, PTL

(* What Namespace leaves of a source file's directory tells the directory.  *)
LEMMA NamespaceTells ==
  ASSUME NEW c, c.root \in Above, NEW d1 \in Dirs, NEW d2 \in Dirs,
         Namespace(c, d1) = Namespace(c, d2)
  PROVE  d1 = d2
<1> DEFINE r == c.root
           n == Len(r)
<1>1. /\ d1 \in Seq(STRING) /\ IsPrefix(r, d1) /\ n <= Len(d1) /\ \A i \in 1 .. n : d1[i] = Start[i]
      /\ d2 \in Seq(STRING) /\ IsPrefix(r, d2) /\ n <= Len(d2) /\ \A i \in 1 .. n : d2[i] = Start[i]
      /\ n \in Nat
  BY AboveSources
<1>2. SubSeq(d1, n + 1, Len(d1)) = SubSeq(d2, n + 1, Len(d2))
  BY <1>1 DEF Namespace
<1> HIDE DEF r, n
<1>3. Len(d1) \in Nat /\ Len(d2) \in Nat
  BY <1>1
<1>4. Len(SubSeq(d1, n + 1, Len(d1))) = Len(d1) - n /\ Len(SubSeq(d2, n + 1, Len(d2))) = Len(d2) - n
  BY <1>1, <1>3
<1>5. Len(d1) = Len(d2)
  BY <1>1, <1>2, <1>3, <1>4
<1>6. \A i \in 1 .. Len(d1) : d1[i] = d2[i]
  <2> TAKE i \in 1 .. Len(d1)
  <2>1. CASE i <= n
    BY <1>1, <2>1
  <2>2. CASE ~(i <= n)
    <3>1. i - n \in 1 .. Len(d1) - n /\ n + 1 + (i - n) - 1 = i
      BY <1>1, <1>3, <2>2
    <3>2. SubSeq(d1, n + 1, Len(d1))[i - n] = d1[i]
      BY <1>1, <1>3, <3>1
    <3>3. SubSeq(d2, n + 1, Len(d2))[i - n] = d2[i]
      BY <1>1, <1>3, <1>5, <3>1
    <3> QED  BY <1>2, <3>2, <3>3
  <2> QED  BY <2>1, <2>2
<1> QED  BY <1>1, <1>5, <1>6, SeqEqual

(* Descriptors tell ecosystems and directories apart, in any tree.          *)
THEOREM DescriptorsAreSeparate == Spec => []DescriptorsSeparate
<1>1. ASSUME IInv PROVE DescriptorsSeparate
  <2> SUFFICES ASSUME NEW t \in Trees, outcome[t] = "resolved",
                      NEW e1 \in Extensions, NEW e2 \in Extensions, NEW d1 \in Dirs, NEW d2 \in Dirs,
                      Descriptor(For(set[t], e1), Namespace(For(set[t], e1), d1))
                        = Descriptor(For(set[t], e2), Namespace(For(set[t], e2), d2))
               PROVE  owner[e1] = owner[e2] /\ d1 = d2
    BY ResolvedIs DEF DescriptorsSeparate
  <2> DEFINE c1 == For(set[t], e1)
             c2 == For(set[t], e2)
  <2>1. /\ c1.root = cur[t] /\ c1.scheme = ecosystems[owner[e1]].scheme
        /\ c2.root = cur[t] /\ c2.scheme = ecosystems[owner[e2]].scheme
    BY <1>1, Entry
  <2>2. cur[t] \in Above
    BY <1>1, NearestIs
  <2> HIDE DEF c1, c2
  <2>3. Prefix(c1) = Prefix(c2) /\ Namespace(c1, d1) = Namespace(c2, d2)
    BY DEF Descriptor, c1, c2
  <2>4. c1.scheme = c2.scheme
    BY <2>3 DEF Prefix
  <2>5. owner[e1] = owner[e2]
    BY <2>1, <2>4, Owners
  <2>6. Namespace(c1, d2) = Namespace(c2, d2)
    BY <2>1 DEF Namespace
  <2>7. d1 = d2
    BY <2>1, <2>2, <2>3, <2>6, NamespaceTells
  <2> QED  BY <2>5, <2>7
<1> QED  BY <1>1, CoordsInvariant, PTL

(* The segments of a path; no prover knows by itself that "." is a string. *)
Segment == STRING \cup {"."}

LEMMA Segments ==
  /\ \A s \in Seq(STRING) : s \in Seq(Segment)
  /\ Unknown \in Seq(Segment) /\ Unknown # <<>>
<1>1. ASSUME NEW S, NEW T, S \subseteq T, NEW s \in Seq(S) PROVE s \in Seq(T)
  BY <1>1
<1>2. STRING \subseteq Segment /\ "." \in Segment
  BY DEF Segment
<1>3. ASSUME NEW x \in Segment PROVE << x >> \in Seq(Segment) /\ << x >> # <<>>
  OBVIOUS
<1> QED  BY <1>1, <1>2, <1>3 DEF Unknown

(* A path continues a name exactly when it is the name and the rest of it. *)
LEMMA Continues ==
  \A a, p, x \in Seq(Segment) :
    p = a \o x <=> IsPrefix(a, p) /\ SubSeq(p, Len(a) + 1, Len(p)) = x
<1> TAKE a, p, x \in Seq(Segment)
<1>1. Len(a) \in Nat /\ Len(p) \in Nat /\ Len(x) \in Nat
  OBVIOUS
<1>2. /\ a \o x \in Seq(Segment) /\ Len(a \o x) = Len(a) + Len(x)
      /\ \A i \in 1 .. Len(a) : (a \o x)[i] = a[i]
      /\ \A i \in 1 .. Len(x) : (a \o x)[Len(a) + i] = x[i]
  BY Concat
<1>3. ASSUME p = a \o x PROVE IsPrefix(a, p) /\ SubSeq(p, Len(a) + 1, Len(p)) = x
  <2>1. Len(p) = Len(a) + Len(x)
    BY <1>2, <1>3
  <2>2. SubSeq(a, 1, Len(a)) = SubSeq(p, 1, Len(a))
    BY <1>1, <1>2, <1>3, <2>1
  <2>3. Len(SubSeq(p, Len(a) + 1, Len(p))) = Len(x) /\ SubSeq(p, Len(a) + 1, Len(p)) \in Seq(Segment)
    BY <1>1, <2>1
  <2>4. \A i \in 1 .. Len(x) : SubSeq(p, Len(a) + 1, Len(p))[i] = x[i]
    BY <1>1, <1>2, <1>3, <2>1
  <2>5. SubSeq(p, Len(a) + 1, Len(p)) = x
    BY <2>3, <2>4, SeqEqual
  <2> QED  BY <1>1, <2>1, <2>2, <2>5 DEF IsPrefix
<1>4. ASSUME IsPrefix(a, p), SubSeq(p, Len(a) + 1, Len(p)) = x PROVE p = a \o x
  <2>1. Len(a) <= Len(p) /\ SubSeq(a, 1, Len(a)) = SubSeq(p, 1, Len(a))
    BY <1>4 DEF IsPrefix
  <2>2. Len(x) = Len(p) - Len(a)
    BY <1>1, <1>4, <2>1
  <2>3. \A i \in 1 .. Len(a) : p[i] = a[i]
    <3>1. \A i \in 1 .. Len(a) : SubSeq(p, 1, Len(a))[i] = p[i] /\ SubSeq(a, 1, Len(a))[i] = a[i]
      BY <1>1, <2>1
    <3> QED  BY <2>1, <3>1
  <2>4. \A i \in 1 .. Len(x) : p[Len(a) + i] = x[i]
    BY <1>1, <1>4, <2>1, <2>2
  <2>5. \A i \in 1 .. Len(p) : p[i] = (a \o x)[i]
    <3> TAKE i \in 1 .. Len(p)
    <3>1. CASE i <= Len(a)
      BY <1>1, <1>2, <2>3, <3>1
    <3>2. CASE ~(i <= Len(a))
      <4>1. i - Len(a) \in 1 .. Len(x) /\ Len(a) + (i - Len(a)) = i
        BY <1>1, <2>2, <3>2
      <4> QED  BY <1>2, <2>4, <4>1
    <3> QED  BY <3>1, <3>2
  <2>6. Len(p) = Len(a \o x)
    BY <1>1, <1>2, <2>2
  <2> QED  BY <1>2, <2>5, <2>6, SeqEqual
<1> QED  BY <1>3, <1>4

(* What Import gives renders as a namespace of the module does exactly when *)
(* the path is the module's name and that namespace.                        *)
LEMMA ImportJoins ==
  ASSUME NEW c, c.name \in Seq(Segment), c.name # <<>>,
         NEW p \in Seq(Segment), p # <<>>, NEW ns \in Seq(Segment)
  PROVE  LET i == Import(c, p) IN
         Descriptor(i.coord, i.ns) = Descriptor(c, ns) <=> p = c.name \o ns
<1> DEFINE i == Import(c, p)
<1>1. p = c.name \o ns <=> IsPrefix(c.name, p) /\ SubSeq(p, Len(c.name) + 1, Len(p)) = ns
  <2> DEFINE name == c.name
  <2>1. name \in Seq(Segment)
    OBVIOUS
  <2> HIDE DEF name
  <2>2. p = name \o ns <=> IsPrefix(name, p) /\ SubSeq(p, Len(name) + 1, Len(p)) = ns
    BY <2>1, Continues
  <2> QED  BY <2>2 DEF name
<1>2. CASE IsPrefix(c.name, p)
  <2>1. i.coord = c /\ i.ns = SubSeq(p, Len(c.name) + 1, Len(p))
    BY <1>2 DEF Import
  <2>2. Descriptor(c, i.ns) = Descriptor(c, ns) <=> i.ns = ns
    BY DEF Descriptor
  <2> QED  BY <1>1, <1>2, <2>1, <2>2
<1>3. CASE ~IsPrefix(c.name, p)
  <2>1. i.coord.name = p
    BY <1>3 DEF Import, Foreign, Coord
  <2>2. p # c.name
    <3>1. IsPrefix(p, p)
      BY DEF IsPrefix
    <3> QED  BY <1>3, <3>1
  <2>3. Prefix(i.coord)[3] = p /\ Prefix(c)[3] = c.name
    BY <2>1 DEF Prefix, Or, Absent
  <2>4. Descriptor(i.coord, i.ns) # Descriptor(c, ns)
    BY <2>2, <2>3 DEF Descriptor
  <2> QED  BY <1>1, <1>3, <2>4
<1> QED  BY <1>2, <1>3

(* An import joins the definitions of the directory it names and no other,  *)
(* for every import path and every module.                                  *)
THEOREM ImportsJoinTheirPackage == Spec => []ImportJoinsItsPackage
<1>1. ASSUME IInv PROVE ImportJoinsItsPackage
  <2> SUFFICES ASSUME NEW t \in Trees, outcome[t] = "resolved", NEW p \in Paths, NEW d \in Dirs
               PROVE  LET c == For(set[t], ".go")  i == Import(c, p) IN
                      Descriptor(i.coord, i.ns) = Descriptor(c, Namespace(c, d))
                        <=> p = c.name \o SubSeq(d, Len(c.root) + 1, Len(d))
    BY ResolvedIs DEF ImportJoinsItsPackage
  <2> DEFINE c == For(set[t], ".go")
             i == Import(c, p)
             ns == Namespace(c, d)
  <2>1. /\ c.root = cur[t] /\ cur[t] \in Above
        /\ "go.mod" \in DOMAIN Docs(t) => c.name = From("go.mod", Docs(t)["go.mod"]).name
        /\ "go.mod" \notin DOMAIN Docs(t) => c.name = Unknown
    BY <1>1, Entry, GoOwned, NearestIs
  <2>2. c.name \in Seq(Segment) /\ c.name # <<>>
    <3>1. CASE "go.mod" \in DOMAIN Docs(t)
      <4>1. layout[t] \in Layouts /\ cur[t] \in DOMAIN layout[t]
        BY <1>1, Held DEF IInv, Typed
      <4>2. Docs(t)["go.mod"] \in Seq([directive : STRING, module : Written])
        <5>1. Document("go.mod", Docs(t)["go.mod"])
          BY <3>1, <4>1, DocumentsAssumption DEF Docs
        <5> QED  BY <5>1 DEF Document
      <4>3. From("go.mod", Docs(t)["go.mod"]) = FromGoMod(Docs(t)["go.mod"])
        BY DEF From
      <4>4. ~From("go.mod", Docs(t)["go.mod"]).failed
        BY <1>1, <3>1 DEF IInv, Decided
      <4> QED  BY <2>1, <3>1, <4>2, <4>3, <4>4, GoModName, Segments DEF Written
    <3>2. CASE "go.mod" \notin DOMAIN Docs(t)
      BY <2>1, <3>2, Segments
    <3> QED  BY <3>1, <3>2
  <2>3. p \in Seq(Segment) /\ p # <<>>
    BY PathsAssumption, Segments DEF Absent
  <2>4. ns = SubSeq(d, Len(c.root) + 1, Len(d)) /\ ns \in Seq(Segment)
    <3>1. IsPrefix(c.root, d) /\ d \in Seq(STRING) /\ Len(c.root) \in Nat
      BY <2>1, AboveSources
    <3>2. SubSeq(d, Len(c.root) + 1, Len(d)) \in Seq(STRING)
      BY <3>1
    <3> QED  BY <3>1, <3>2, Segments DEF Namespace
  <2> HIDE DEF c, ns
  <2>5. Descriptor(i.coord, i.ns) = Descriptor(c, ns) <=> p = c.name \o ns
    BY <2>2, <2>3, <2>4, ImportJoins
  <2> QED  BY <2>4, <2>5 DEF c, ns
<1> QED  BY <1>1, CoordsInvariant, PTL

-----------------------------------------------------------------------------
(* Triple quotes, one line at a time. *)

Open == {"none", "D", "S"}

LEMMA Elements ==
  ASSUME NEW R, NEW s \in Seq(R)
  PROVE  Len(s) \in Nat /\ DOMAIN s = 1 .. Len(s) /\ \A i \in 1 .. Len(s) : s[i] \in R
  OBVIOUS

(* The fold over the quotes of a line takes them one by one. *)
LEMMA ToggleFold ==
  ASSUME NEW q \in Open, NEW quotes \in Seq({"D", "S"})
  PROVE  \E f : /\ f \in [0 .. Len(quotes) -> Open] /\ f[0] = q
                /\ \A i \in 1 .. Len(quotes) : f[i] = Toggle(f[i - 1], quotes[i])
                /\ FoldLeft(Toggle, q, quotes) = f[Len(quotes)]
<1> DEFINE n == Len(quotes)
           G == [p \in (1..n) \X Open |-> Toggle(p[2], quotes[p[1]])]
           F == CHOOSE f : f = [s \in SUBSET (1..n) |->
                                  IF s = {} THEN q ELSE Toggle(f[s \ {Max(s)}], quotes[Max(s)])]
           f == [i \in 0..n |-> F[1..i]]
<1>1. n \in Nat /\ DOMAIN quotes = 1..n /\ \A i \in 1..n : quotes[i] \in {"D", "S"}
  OBVIOUS
<1>2. FoldLeft(Toggle, q, quotes) = F[1..n]
  BY <1>1 DEF FoldLeft, MapThenFoldSet
<1>3. G \in [(1..n) \X Open -> Open]
  BY <1>1 DEF Toggle, Open
<1>4. \A i \in 1..n, v \in Open : G[<<i, v>>] = Toggle(v, quotes[i])
  OBVIOUS
<1> HIDE DEF G
<1>5. \E g : g = [s \in SUBSET (1..n) |->
                    IF s = {} THEN q ELSE Toggle(g[s \ {Max(s)}], quotes[Max(s)])]
  <2>0. PICK g : Folded(g, Open, q, G, n)
    <3> HIDE DEF n
    <3> QED  BY <1>1, <1>3, Folding
  <2>1. /\ g \in [SUBSET (1..n) -> Open]
        /\ \A s \in SUBSET (1..n) : g[s] = IF s = {} THEN q ELSE G[<<Max(s), g[s \ {Max(s)}]>>]
    BY <2>0 DEF Folded
  <2>2. \A s \in SUBSET (1..n) :
          g[s] = IF s = {} THEN q ELSE Toggle(g[s \ {Max(s)}], quotes[Max(s)])
    <3> TAKE s \in SUBSET (1..n)
    <3>1. CASE s # {}
      <4>1. Max(s) \in 1..n /\ s \ {Max(s)} \in SUBSET (1..n)
        BY <1>1, <3>1, MaxOf
      <4> QED  BY <1>4, <2>1, <3>1, <4>1
    <3> QED  BY <2>1, <3>1
  <2>3. g = [s \in SUBSET (1..n) |->
               IF s = {} THEN q ELSE Toggle(g[s \ {Max(s)}], quotes[Max(s)])]
    BY <2>1, <2>2
  <2> QED  BY <2>3
<1>6. F = [s \in SUBSET (1..n) |->
             IF s = {} THEN q ELSE Toggle(F[s \ {Max(s)}], quotes[Max(s)])]
  BY <1>5
<1> HIDE DEF F
<1>7. F[{}] = q
  BY <1>6
<1>8. ASSUME NEW s \in SUBSET (1..n), s # {}, F[s \ {Max(s)}] \in Open
      PROVE  F[s] = G[<<Max(s), F[s \ {Max(s)}]>>]
  <2>1. Max(s) \in 1..n
    BY <1>1, <1>8, MaxOf
  <2> QED  BY <1>4, <1>6, <1>8, <2>1
<1>9. Takes(f, Open, q, G, n)
  <2>1. PartlyFolded(F, Open, q, G, n)
    BY <1>7, <1>8 DEF PartlyFolded
  <2> HIDE DEF n
  <2> QED  BY <1>1, <1>3, <2>1, FoldTakes
<1>10. f \in [0..n -> Open] /\ f[0] = q /\ \A i \in 1..n : f[i] = G[<<i, f[i - 1]>>]
  BY <1>9 DEF Takes
<1>11. \A i \in 1..n : f[i] = Toggle(f[i - 1], quotes[i])
  <2> TAKE i \in 1..n
  <2>1. i - 1 \in 0..n
    OBVIOUS
  <2>2. f[i - 1] \in Open
    BY <1>10, <2>1
  <2> QED  BY <1>4, <1>10, <2>2
<1>12. f[n] = F[1..n]
  BY <1>1
<1> HIDE DEF f
<1> QED  BY <1>2, <1>10, <1>11, <1>12

LEMMA ToggleType ==
  \A q \in Open : \A quotes \in Seq({"D", "S"}) : FoldLeft(Toggle, q, quotes) \in Open
<1> TAKE q \in Open
<1> TAKE quotes \in Seq({"D", "S"})
<1>1. PICK f : /\ f \in [0 .. Len(quotes) -> Open] /\ f[0] = q
               /\ \A i \in 1 .. Len(quotes) : f[i] = Toggle(f[i - 1], quotes[i])
               /\ FoldLeft(Toggle, q, quotes) = f[Len(quotes)]
  BY ToggleFold
<1>2. Len(quotes) \in 0 .. Len(quotes)
  OBVIOUS
<1> QED  BY <1>1, <1>2

(* The scanner's view of a line and TOML's. *)
LEMMA QuoteLine ==
  ASSUME NEW q \in Open, NEW line, line.quotes \in TripleQuotes,
         q # "none" => line.quotes # <<q, q>>
  PROVE  LET r == FoldLeft(Toggle, q, line.quotes) IN
         /\ r \in Open
         /\ q = "none" => r = OpensMultiline(line)
         /\ q # "none" => r = IF Contains(line.quotes, q) THEN "none" ELSE q
<1> DEFINE quotes == line.quotes
           r == FoldLeft(Toggle, q, quotes)
           at(d) == { i \in DOMAIN quotes : quotes[i] = d }
           Scanned == /\ r \in Open
                      /\ q = "none" => r = OpensMultiline(line)
                      /\ q # "none" => r = IF Contains(quotes, q) THEN "none" ELSE q
<1>1. quotes \in Seq({"D", "S"}) /\ Len(quotes) \in {0, 1, 2}
  <2>1. \A x, y \in {"D", "S"} : /\ <<>> \in Seq({"D", "S"}) /\ << x >> \in Seq({"D", "S"})
                                /\ << x, y >> \in Seq({"D", "S"})
    OBVIOUS
  <2>2. Len(<<>>) = 0 /\ \A x, y : Len(<< x >>) = 1 /\ Len(<< x, y >>) = 2
    OBVIOUS
  <2> QED  BY <2>1, <2>2 DEF TripleQuotes
<1>2. PICK f : /\ f \in [0 .. Len(quotes) -> Open] /\ f[0] = q
               /\ \A i \in 1 .. Len(quotes) : f[i] = Toggle(f[i - 1], quotes[i])
               /\ r = f[Len(quotes)]
  BY <1>1, ToggleFold
<1>3. OpensMultiline(line) = CASE Cardinality(at("D")) = 1 -> "D"
                               [] Cardinality(at("D")) = 0 /\ Cardinality(at("S")) = 1 -> "S"
                               [] OTHER -> "none"
  BY DEF OpensMultiline
<1>4. Cardinality({}) = 0 /\ Cardinality({1}) = 1 /\ Cardinality({1, 2}) = 2
  <2>1. Cardinality({1} \cup {2}) = Cardinality({1}) + 1
    <3> DEFINE one == {1}
    <3>1. IsFiniteSet(one) /\ 2 \notin one
      <4>1. IsFiniteSet({1})
        BY FS_Singleton, Zenon
      <4>2. 2 \notin {1}
        OBVIOUS
      <4> QED  BY <4>1, <4>2
    <3> HIDE DEF one
    <3>2. Cardinality(one \cup {2}) = Cardinality(one) + 1
      BY <3>1, FS_AddElement
    <3> QED  BY <3>2 DEF one
  <2>2. {1} \cup {2} = {1, 2}
    OBVIOUS
  <2>3. Cardinality({}) = 0 /\ Cardinality({1}) = 1
    <3>1. Cardinality({}) = 0
      BY FS_EmptySet, Zenon
    <3>2. Cardinality({1}) = 1
      BY FS_Singleton, Zenon
    <3> QED  BY <3>1, <3>2
  <2>4. Cardinality({1, 2}) = 1 + 1
    <3> DEFINE two == {1, 2}
               one == {1}
    <3>1. two = one \cup {2}
      BY <2>2
    <3>2. Cardinality(one \cup {2}) = Cardinality(one) + 1 /\ Cardinality(one) = 1
      BY <2>1, <2>3
    <3> HIDE DEF one, two
    <3>3. Cardinality(two) = 1 + 1
      BY <3>1, <3>2
    <3> QED  BY <3>3 DEF two
  <2> QED  BY <2>3, <2>4
<1>5. Contains(quotes, q) <=> \E i \in 1 .. Len(quotes) : quotes[i] = q
  BY DEF Contains
<1> HIDE DEF r
<1>6. ASSUME quotes = <<>> PROVE Scanned
  <2>1. r = q
    BY <1>2, <1>6
  <2>2. at("D") = {} /\ at("S") = {}
    BY <1>6
  <2>3. OpensMultiline(line) = "none"
    BY <1>3, <1>4, <2>2
  <2>4. ~Contains(quotes, q)
    BY <1>5, <1>6
  <2> QED  BY <2>1, <2>3, <2>4
<1>7. ASSUME quotes = <<"D">> PROVE Scanned
  <2>1. r = Toggle(q, "D")
    BY <1>2, <1>7
  <2>2. at("D") = {1}
    BY <1>7
  <2>3. OpensMultiline(line) = "D"
    BY <1>3, <1>4, <2>2
  <2>4. Contains(quotes, q) <=> q = "D"
    BY <1>5, <1>7
  <2> QED  BY <1>7, <2>1, <2>3, <2>4 DEF Open, Toggle
<1>8. ASSUME quotes = <<"S">> PROVE Scanned
  <2>1. r = Toggle(q, "S")
    BY <1>2, <1>8
  <2>2. at("D") = {} /\ at("S") = {1}
    BY <1>8
  <2>3. OpensMultiline(line) = "S"
    BY <1>3, <1>4, <2>2
  <2>4. Contains(quotes, q) <=> q = "S"
    BY <1>5, <1>8
  <2> QED  BY <1>8, <2>1, <2>3, <2>4 DEF Open, Toggle
<1>9. ASSUME quotes = <<"D", "D">> PROVE Scanned
  <2>1. r = Toggle(Toggle(q, "D"), "D")
    BY <1>2, <1>9
  <2>2. at("D") = {1, 2}
    BY <1>9
  <2>3. OpensMultiline(line) = "none"
    BY <1>3, <1>4, <2>2
  <2>4. Contains(quotes, q) <=> q = "D"
    BY <1>5, <1>9
  <2> QED  BY <1>9, <2>1, <2>3, <2>4 DEF Open, Toggle
<1>10. ASSUME quotes = <<"S", "S">> PROVE Scanned
  <2>1. r = Toggle(Toggle(q, "S"), "S")
    BY <1>2, <1>10
  <2>2. at("D") = {} /\ at("S") = {1, 2}
    BY <1>10
  <2>3. OpensMultiline(line) = "none"
    BY <1>3, <1>4, <2>2
  <2>4. Contains(quotes, q) <=> q = "S"
    BY <1>5, <1>10
  <2> QED  BY <1>10, <2>1, <2>3, <2>4 DEF Open, Toggle
<1>11. Scanned
  <2> HIDE DEF Scanned
  <2> QED  BY <1>6, <1>7, <1>8, <1>9, <1>10 DEF TripleQuotes
<1> QED  BY <1>11 DEF r
-----------------------------------------------------------------------------
(* Cargo.toml and pyproject.toml. *)

LEMMA TomlLines ==
  ASSUME NEW lines, TomlDocument(lines)
  PROVE  /\ Len(lines) \in Nat /\ DOMAIN lines = 1 .. Len(lines)
         /\ \A i \in 1 .. Len(lines) :
              /\ lines[i].value \in Written
              /\ lines[i].quotes \in TripleQuotes
              /\ lines[i].table \in STRING
<1> DEFINE R == [kind : STRING, table : STRING, key : STRING, value : Written, quotes : TripleQuotes]
<1>1. lines \in Seq(R)
  BY DEF TomlDocument
<1>2. \A l \in R : l.value \in Written /\ l.quotes \in TripleQuotes /\ l.table \in STRING
  OBVIOUS
<1> HIDE DEF R
<1> QED  BY <1>1, <1>2, Elements

(* Inside is defined line by line. *)
LEMMA InsideIs ==
  ASSUME NEW lines, TomlDocument(lines)
  PROVE  LET q == Inside(lines)  n == Len(lines) IN
         /\ q \in [1 .. n + 1 -> Open] /\ q[1] = "none"
         /\ \A i \in 1 .. n : q[i + 1] = FoldLeft(Toggle, q[i], lines[i].quotes)
<1> DEFINE n == Len(lines)
           G == [p \in (1..n) \X Open |-> FoldLeft(Toggle, p[2], lines[p[1]].quotes)]
           q == Inside(lines)
<1>1. n \in Nat /\ \A i \in 1..n : lines[i].quotes \in Seq({"D", "S"})
  <2>1. {<<>>, <<"D">>, <<"S">>, <<"D", "D">>, <<"S", "S">>} \subseteq Seq({"D", "S"})
    <3>1. \A x, y \in {"D", "S"} : /\ <<>> \in Seq({"D", "S"}) /\ << x >> \in Seq({"D", "S"})
                                   /\ << x, y >> \in Seq({"D", "S"})
      OBVIOUS
    <3> QED  BY <3>1
  <2> QED  BY <2>1, TomlLines DEF TripleQuotes
<1>2. \A i \in 1..n, v \in Open : FoldLeft(Toggle, v, lines[i].quotes) \in Open
  BY <1>1, ToggleType
<1>3. G \in [(1..n) \X Open -> Open] /\ "none" \in Open
  BY <1>2 DEF Open
<1>4. \A i \in 1..n, v \in Open : G[<<i, v>>] = FoldLeft(Toggle, v, lines[i].quotes)
  OBVIOUS
<1> HIDE DEF G
<1>5. PICK f : Takes(f, Open, "none", G, n)
  <2> HIDE DEF n
  <2> QED  BY <1>1, <1>3, Recursion
<1>6. f \in [0..n -> Open] /\ f[0] = "none" /\ \A i \in 1..n : f[i] = G[<<i, f[i - 1]>>]
  BY <1>5 DEF Takes
<1> DEFINE g == [i \in 1 .. n + 1 |-> f[i - 1]]
<1>7. \A i \in 1 .. n + 1 : g[i] = IF i = 1 THEN "none"
                                   ELSE FoldLeft(Toggle, g[i - 1], lines[i - 1].quotes)
  <2> TAKE i \in 1 .. n + 1
  <2>1. CASE i = 1
    BY <1>6, <2>1
  <2>2. CASE i # 1
    <3>1. i - 1 \in 1..n /\ (i - 1) - 1 \in 0..n /\ i - 1 \in 1 .. n + 1
      BY <1>1, <2>2
    <3>2. g[i] = f[i - 1] /\ g[i - 1] = f[(i - 1) - 1] /\ f[(i - 1) - 1] \in Open
      BY <1>6, <3>1
    <3>3. f[i - 1] = G[<<i - 1, f[(i - 1) - 1]>>]
      BY <1>6, <3>1
    <3> QED  BY <1>4, <2>2, <3>1, <3>2, <3>3
  <2> QED  BY <2>1, <2>2
<1>8. g = [i \in 1 .. n + 1 |-> IF i = 1 THEN "none"
                                ELSE FoldLeft(Toggle, g[i - 1], lines[i - 1].quotes)]
  BY <1>7
<1>9. q = [i \in 1 .. n + 1 |-> IF i = 1 THEN "none"
                                ELSE FoldLeft(Toggle, q[i - 1], lines[i - 1].quotes)]
  <2>1. q = CHOOSE at : at = [i \in 1 .. n + 1 |-> IF i = 1 THEN "none"
                                ELSE FoldLeft(Toggle, at[i - 1], lines[i - 1].quotes)]
    BY DEF Inside
  <2> HIDE DEF q, g
  <2> QED  BY <1>8, <2>1
<1> HIDE DEF q, g
<1>10. q[1] = "none"
  <2>1. 1 \in 1 .. n + 1
    BY <1>1
  <2> QED  BY <1>9, <2>1
<1>11. \A i \in 1 .. n : q[i + 1] = FoldLeft(Toggle, q[i], lines[i].quotes)
  <2> TAKE i \in 1 .. n
  <2>1. i + 1 \in 1 .. n + 1 /\ i + 1 # 1 /\ (i + 1) - 1 = i
    BY <1>1
  <2> QED  BY <1>9, <2>1
<1>12. q \in [1 .. n + 1 -> Open]
  <2> DEFINE T == {i \in 0..n : q[i + 1] \in Open}
  <2>1. 0 \in T
    BY <1>1, <1>3, <1>10
  <2>2. \A m \in 0..n : m \in T /\ m < n => m + 1 \in T
    <3> TAKE m \in 0..n
    <3> HAVE m \in T /\ m < n
    <3>1. m + 1 \in 1..n /\ m + 1 \in 0..n
      BY <1>1
    <3> QED  BY <1>2, <1>11, <3>1
  <2>3. 0..n \subseteq T
    <3> HIDE DEF T, n
    <3> QED  BY <1>1, <2>1, <2>2, UpTo
  <2>4. \A i \in 1 .. n + 1 : q[i] \in Open
    <3> TAKE i \in 1 .. n + 1
    <3>1. i - 1 \in 0..n /\ (i - 1) + 1 = i
      BY <1>1
    <3> QED  BY <2>3, <3>1
  <2> QED  BY <1>9, <2>4
<1> QED  BY <1>10, <1>11, <1>12 DEF q

(* The scanner's states, and what a line does to one. *)
Scan == [delim : Open, inTable : BOOLEAN, name : Written, version : Written]

LEMMA ScanLineIs ==
  ASSUME NEW table, NEW seen \in Scan, NEW line, line.value \in Written
  PROVE  LET to == ScanLine(table, seen, line)  opened == OpensMultiline(line) IN
         /\ to \in Scan
         /\ seen.delim # "none" =>
              /\ to.delim = IF Contains(line.quotes, seen.delim) THEN "none" ELSE seen.delim
              /\ to.inTable = seen.inTable /\ to.name = seen.name /\ to.version = seen.version
         /\ seen.delim = "none" /\ line.kind = "header" =>
              /\ to.delim = "none" /\ to.inTable = (line.table = table)
              /\ to.name = seen.name /\ to.version = seen.version
         /\ seen.delim = "none" /\ line.kind # "header" =>
              /\ to.delim = opened /\ to.inTable = seen.inTable
              /\ to.name = IF opened = "none" /\ seen.inTable /\ line.kind = "key" /\ line.key = "name"
                           THEN line.value ELSE seen.name
              /\ to.version = IF opened = "none" /\ seen.inTable /\ line.kind = "key" /\ line.key = "version"
                              THEN line.value ELSE seen.version
<1> DEFINE to == ScanLine(table, seen, line)
           opened == OpensMultiline(line)
<1>1. opened \in Open
  BY DEF OpensMultiline, Open
<1>2. /\ seen = [delim |-> seen.delim, inTable |-> seen.inTable, name |-> seen.name,
                 version |-> seen.version]
      /\ seen.delim \in Open /\ seen.inTable \in BOOLEAN /\ seen.name \in Written
      /\ seen.version \in Written
  BY DEF Scan
<1> HIDE DEF opened
<1>3. CASE seen.delim # "none"
  <2>1. to = [seen EXCEPT !.delim = IF Contains(line.quotes, @) THEN "none" ELSE @]
    BY <1>3 DEF ScanLine
  <2> HIDE DEF to
  <2>2. /\ to \in Scan /\ to.inTable = seen.inTable /\ to.name = seen.name /\ to.version = seen.version
        /\ to.delim = IF Contains(line.quotes, seen.delim) THEN "none" ELSE seen.delim
    BY <1>2, <2>1 DEF Scan, Open
  <2> QED  BY <1>3, <2>2 DEF to
<1>4. CASE seen.delim = "none" /\ line.kind = "header"
  <2>1. to = [seen EXCEPT !.inTable = line.table = table]
    BY <1>4 DEF ScanLine
  <2> HIDE DEF to
  <2>2. /\ to \in Scan /\ to.delim = seen.delim /\ to.name = seen.name /\ to.version = seen.version
        /\ to.inTable = (line.table = table)
    BY <1>2, <2>1 DEF Scan, Open
  <2> QED  BY <1>4, <2>2 DEF to
<1>5. CASE seen.delim = "none" /\ line.kind # "header" /\ opened # "none"
  <2>1. to = [seen EXCEPT !.delim = opened]
    BY <1>5 DEF ScanLine, opened
  <2> HIDE DEF to
  <2>2. /\ to \in Scan /\ to.delim = opened /\ to.name = seen.name /\ to.version = seen.version
        /\ to.inTable = seen.inTable
    BY <1>1, <1>2, <2>1 DEF Scan
  <2> QED  BY <1>5, <2>2 DEF to, opened
<1>6. CASE /\ seen.delim = "none" /\ line.kind # "header" /\ opened = "none"
           /\ ~seen.inTable \/ line.kind # "key"
  <2>1. to = seen
    BY <1>6 DEF ScanLine, opened
  <2> HIDE DEF to
  <2> QED  BY <1>6, <2>1 DEF to, opened
<1>7. CASE /\ seen.delim = "none" /\ line.kind # "header" /\ opened = "none"
           /\ seen.inTable /\ line.kind = "key"
  <2>1. to = CASE line.key = "name"    -> [seen EXCEPT !.name = line.value]
               [] line.key = "version" -> [seen EXCEPT !.version = line.value]
               [] OTHER                -> seen
    BY <1>7 DEF ScanLine, opened
  <2> HIDE DEF to
  <2>2. /\ to \in Scan /\ to.delim = seen.delim /\ to.inTable = seen.inTable
        /\ to.name = IF line.key = "name" THEN line.value ELSE seen.name
        /\ to.version = IF line.key = "version" THEN line.value ELSE seen.version
    <3>1. CASE line.key = "name"
      <4>1. to = [seen EXCEPT !.name = line.value]
        BY <2>1, <3>1
      <4> QED  BY <1>2, <3>1, <4>1 DEF Scan
    <3>2. CASE line.key = "version"
      <4>1. to = [seen EXCEPT !.version = line.value]
        BY <2>1, <3>2
      <4> QED  BY <1>2, <3>2, <4>1 DEF Scan
    <3>3. CASE line.key \notin {"name", "version"}
      <4>1. to = seen
        BY <2>1, <3>3
      <4> QED  BY <1>2, <3>3, <4>1 DEF Scan
    <3> QED  BY <3>1, <3>2, <3>3
  <2> QED  BY <1>7, <2>2 DEF to, opened
<1> QED  BY <1>2, <1>3, <1>4, <1>5, <1>6, <1>7

ScannedAs(st, lines, table) ==
  /\ st \in [0 .. Len(lines) -> Scan]
  /\ st[0] = [delim |-> "none", inTable |-> FALSE, name |-> Absent, version |-> Absent]
  /\ \A i \in 1 .. Len(lines) : st[i] = ScanLine(table, st[i - 1], lines[i])
  /\ ScanTomlTable(lines, table) = st[Len(lines)]

LEMMA Scanning ==
  ASSUME NEW lines, TomlDocument(lines), NEW table
  PROVE  \E st : ScannedAs(st, lines, table)
<1> DEFINE n == Len(lines)
           b == [delim |-> "none", inTable |-> FALSE, name |-> Absent, version |-> Absent]
           G == [p \in (1..n) \X Scan |-> ScanLine(table, p[2], lines[p[1]])]
           F == CHOOSE f : f = [s \in SUBSET (1..n) |->
                  IF s = {} THEN b ELSE ScanLine(table, f[s \ {Max(s)}], lines[Max(s)])]
           f == [i \in 0..n |-> F[1..i]]
<1>1. n \in Nat /\ DOMAIN lines = 1..n /\ \A i \in 1..n : lines[i].value \in Written
  BY TomlLines
<1>2. ScanTomlTable(lines, table) = F[1..n]
  BY <1>1 DEF ScanTomlTable, FoldLeft, MapThenFoldSet
<1>3. G \in [(1..n) \X Scan -> Scan]
  <2>1. \A i \in 1..n, v \in Scan : ScanLine(table, v, lines[i]) \in Scan
    BY <1>1, ScanLineIs
  <2> QED  BY <2>1
<1>4. \A i \in 1..n, v \in Scan : G[<<i, v>>] = ScanLine(table, v, lines[i])
  OBVIOUS
<1>b. b \in Scan
  <2>1. Absent \in Written
    <3>1. <<>> \in Seq(STRING) /\ <<>> # << "${}" >>
      OBVIOUS
    <3> QED  BY <3>1 DEF Absent, Written, Pointer
  <2> QED  BY <2>1 DEF Scan, Open
<1> HIDE DEF G, b
<1>5. \E g : g = [s \in SUBSET (1..n) |->
                    IF s = {} THEN b ELSE ScanLine(table, g[s \ {Max(s)}], lines[Max(s)])]
  <2>0. PICK g : Folded(g, Scan, b, G, n)
    <3> HIDE DEF n
    <3> QED  BY <1>1, <1>3, <1>b, Folding
  <2>1. /\ g \in [SUBSET (1..n) -> Scan]
        /\ \A s \in SUBSET (1..n) : g[s] = IF s = {} THEN b ELSE G[<<Max(s), g[s \ {Max(s)}]>>]
    BY <2>0 DEF Folded
  <2>2. \A s \in SUBSET (1..n) :
          g[s] = IF s = {} THEN b ELSE ScanLine(table, g[s \ {Max(s)}], lines[Max(s)])
    <3> TAKE s \in SUBSET (1..n)
    <3>1. CASE s # {}
      <4>1. Max(s) \in 1..n /\ s \ {Max(s)} \in SUBSET (1..n)
        BY <1>1, <3>1, MaxOf
      <4> QED  BY <1>4, <2>1, <3>1, <4>1
    <3> QED  BY <2>1, <3>1
  <2>3. g = [s \in SUBSET (1..n) |->
               IF s = {} THEN b ELSE ScanLine(table, g[s \ {Max(s)}], lines[Max(s)])]
    BY <2>1, <2>2
  <2> QED  BY <2>3
<1>6. F = [s \in SUBSET (1..n) |->
             IF s = {} THEN b ELSE ScanLine(table, F[s \ {Max(s)}], lines[Max(s)])]
  BY <1>5 DEF b
<1> HIDE DEF F
<1>7. F[{}] = b
  BY <1>6
<1>8. ASSUME NEW s \in SUBSET (1..n), s # {}, F[s \ {Max(s)}] \in Scan
      PROVE  F[s] = G[<<Max(s), F[s \ {Max(s)}]>>]
  <2>1. Max(s) \in 1..n
    BY <1>1, <1>8, MaxOf
  <2> QED  BY <1>4, <1>6, <1>8, <2>1
<1>9. Takes(f, Scan, b, G, n)
  <2>1. PartlyFolded(F, Scan, b, G, n)
    BY <1>7, <1>8 DEF PartlyFolded
  <2> HIDE DEF n
  <2> QED  BY <1>1, <1>3, <1>b, <2>1, FoldTakes
<1>10. f \in [0..n -> Scan] /\ f[0] = b /\ \A i \in 1..n : f[i] = G[<<i, f[i - 1]>>]
  BY <1>9 DEF Takes
<1>11. \A i \in 1..n : f[i] = ScanLine(table, f[i - 1], lines[i])
  <2> TAKE i \in 1..n
  <2>1. i - 1 \in 0..n
    OBVIOUS
  <2>2. f[i - 1] \in Scan
    BY <1>10, <2>1
  <2> QED  BY <1>4, <1>10, <2>2
<1>12. f[n] = F[1..n]
  BY <1>1
<1> HIDE DEF f
<1>13. ScannedAs(f, lines, table)
  BY <1>2, <1>10, <1>11, <1>12 DEF ScannedAs, b
<1> QED  BY <1>13

(* v is the value of the last line of S up to k, or there is none yet. *)
Latest(lines, S, k, v) ==
  \/ v = Absent /\ \A i \in S : ~(i <= k)
  \/ \E i \in S : i <= k /\ (\A j \in S : j <= k => j <= i) /\ v = lines[i].value

LEMMA LatestStep ==
  ASSUME NEW lines, NEW n \in Nat, NEW S \in SUBSET (1..n), NEW k \in 0..n, k < n,
         NEW v, Latest(lines, S, k, v), NEW w,
         w = IF k + 1 \in S THEN lines[k + 1].value ELSE v
  PROVE  Latest(lines, S, k + 1, w)
<1>1. CASE k + 1 \in S
  <2>1. \A j \in S : j <= k + 1 => j <= k + 1
    OBVIOUS
  <2>2. k + 1 <= k + 1
    OBVIOUS
  <2> QED  BY <1>1, <2>1, <2>2 DEF Latest
<1>2. CASE k + 1 \notin S
  <2>1. \A j \in S : j <= k + 1 <=> j <= k
    BY <1>2
  <2> QED  BY <1>2, <2>1 DEF Latest
<1> QED  BY <1>1, <1>2

LEMMA LatestIs ==
  ASSUME NEW lines, NEW n \in Nat, NEW S \in SUBSET (1..n), NEW v, Latest(lines, S, n, v)
  PROVE  v = IF S = {} THEN Absent ELSE lines[CHOOSE i \in S : \A j \in S : j <= i].value
<1>1. CASE S = {}
  BY <1>1 DEF Latest
<1>2. CASE S # {}
  <2>0. \A j \in S : j <= n
    OBVIOUS
  <2>1. PICK i \in S : (\A j \in S : j <= i) /\ v = lines[i].value
    BY <1>2, <2>0 DEF Latest
  <2> DEFINE c == CHOOSE x \in S : \A j \in S : j <= x
  <2>2. c \in S /\ \A j \in S : j <= c
    BY <2>1
  <2>3. c = i
    <3> HIDE DEF c
    <3>1. i <= c /\ c <= i /\ i \in 1..n /\ c \in 1..n
      BY <2>1, <2>2
    <3> QED  BY <3>1
  <2>4. v = lines[c].value
    <3> HIDE DEF c
    <3> QED  BY <2>1, <2>3
  <2> QED  BY <1>2, <2>4
<1> QED  BY <1>1, <1>2

(* The scanner states what the format says the table states. *)
LEMMA TomlIsRead ==
  ASSUME NEW lines, TomlDocument(lines), NEW table
  PROVE  LET t == ScanTomlTable(lines, table) IN
         /\ t.name = TomlValue(lines, table, "name") /\ t.name \in Written
         /\ t.version = TomlValue(lines, table, "version") /\ t.version \in Written
<1> DEFINE n == Len(lines)
           q == Inside(lines)
           headers == { i \in DOMAIN lines : q[i] = "none" /\ lines[i].kind = "header" }
           In(i) == \E h \in headers : /\ h < i /\ lines[h].table = table
                                       /\ \A g \in headers : g < i => g <= h
           stated(key) == { i \in DOMAIN lines : /\ q[i] = "none" /\ In(i) /\ lines[i].kind = "key"
                                                 /\ lines[i].key = key
                                                 /\ q[i + 1] = "none" }
<1>1. /\ n \in Nat /\ DOMAIN lines = 1..n
      /\ \A i \in 1..n : lines[i].value \in Written /\ lines[i].quotes \in TripleQuotes
  BY TomlLines
<1>2. /\ q \in [1 .. n + 1 -> Open] /\ q[1] = "none"
      /\ \A i \in 1 .. n : q[i + 1] = FoldLeft(Toggle, q[i], lines[i].quotes)
  BY InsideIs
<1>3. PICK st : ScannedAs(st, lines, table)
  BY Scanning
<1>4. /\ st \in [0..n -> Scan]
      /\ st[0] = [delim |-> "none", inTable |-> FALSE, name |-> Absent, version |-> Absent]
      /\ \A i \in 1..n : st[i] = ScanLine(table, st[i - 1], lines[i])
      /\ ScanTomlTable(lines, table) = st[n]
  BY <1>3 DEF ScannedAs
<1>5. ASSUME NEW key
      PROVE  TomlValue(lines, table, key) =
               IF stated(key) = {} THEN Absent
               ELSE lines[CHOOSE i \in stated(key) : \A j \in stated(key) : j <= i].value
  BY DEF TomlValue
<1>6. \A i \in 1..n : IF q[i] = "none" THEN lines[i].kind = "header" => lines[i].quotes = <<>>
                      ELSE lines[i].quotes # << q[i], q[i] >>
  BY <1>1 DEF TomlDocument
<1> HIDE DEF q, n
<1>7. ASSUME NEW i \in 1..n
      PROVE  /\ i \in headers => (In(i + 1) <=> lines[i].table = table)
             /\ i \notin headers => (In(i + 1) <=> In(i))
  <2>1. headers \subseteq 1..n /\ \A g \in headers : (g < i + 1 <=> g < i \/ g = i) /\ (g < i => g <= i)
    BY <1>1, <1>7
  <2> HIDE DEF headers
  <2>2. CASE i \in headers
    <3>1. \A h \in headers : h < i + 1 /\ (\A g \in headers : g < i + 1 => g <= h) => h = i
      BY <1>1, <2>1, <2>2
    <3>2. i < i + 1 /\ \A g \in headers : g < i + 1 => g <= i
      BY <1>1, <2>1
    <3> QED  BY <2>2, <3>1, <3>2
  <2>3. CASE i \notin headers
    <3>1. \A g \in headers : g < i + 1 <=> g < i
      BY <2>1, <2>3
    <3> QED  BY <2>3, <3>1
  <2> QED  BY <2>2, <2>3
<1>8. ~In(1)
  <2>1. \A h \in headers : ~(h < 1)
    BY <1>1
  <2> QED  BY <2>1
<1> DEFINE Agrees(k) == /\ st[k].delim = q[k + 1] /\ st[k].inTable = In(k + 1)
                        /\ Latest(lines, stated("name"), k, st[k].name)
                        /\ Latest(lines, stated("version"), k, st[k].version)
           T == {k \in 0..n : Agrees(k)}
<1>9. stated("name") \in SUBSET (1..n) /\ stated("version") \in SUBSET (1..n)
  BY <1>1
<1>10. Agrees(0)
  <2>1. /\ st[0].delim = "none" /\ st[0].inTable = FALSE /\ st[0].name = Absent /\ st[0].version = Absent
    BY <1>4
  <2>2. In(0 + 1) = FALSE
    BY <1>8
  <2>3. \A i \in 1..n : ~(i <= 0)
    OBVIOUS
  <2> HIDE DEF In, stated
  <2>4. /\ Latest(lines, stated("name"), 0, Absent)
        /\ Latest(lines, stated("version"), 0, Absent)
    BY <1>9, <2>3 DEF Latest
  <2>5. q[0 + 1] = "none"
    BY <1>2
  <2> QED  BY <2>1, <2>2, <2>4, <2>5
<1>11. ASSUME NEW k \in 0..n, Agrees(k), k < n PROVE Agrees(k + 1)
  <2> DEFINE i == k + 1
             line == lines[i]
             seen == st[k]
             opened == OpensMultiline(line)
  <2>1. i \in 1..n /\ i - 1 = k /\ k \in Nat
    BY <1>1, <1>11
  <2>2. /\ seen \in Scan /\ st[i] = ScanLine(table, seen, line)
        /\ line.value \in Written /\ line.quotes \in TripleQuotes
    BY <1>1, <1>4, <2>1
  <2>3. /\ q[i] \in Open /\ q[i + 1] = FoldLeft(Toggle, q[i], line.quotes)
        /\ q[i] # "none" => line.quotes # << q[i], q[i] >>
        /\ q[i] = "none" /\ line.kind = "header" => line.quotes = <<>>
    BY <1>1, <1>2, <1>6, <2>1
  <2>4. /\ q[i] = "none" => q[i + 1] = opened
        /\ q[i] # "none" => q[i + 1] = IF Contains(line.quotes, q[i]) THEN "none" ELSE q[i]
    BY <2>2, <2>3, QuoteLine
  <2>5. LET to == st[i] IN
         /\ seen.delim # "none" =>
              /\ to.delim = IF Contains(line.quotes, seen.delim) THEN "none" ELSE seen.delim
              /\ to.inTable = seen.inTable /\ to.name = seen.name /\ to.version = seen.version
         /\ seen.delim = "none" /\ line.kind = "header" =>
              /\ to.delim = "none" /\ to.inTable = (line.table = table)
              /\ to.name = seen.name /\ to.version = seen.version
         /\ seen.delim = "none" /\ line.kind # "header" =>
              /\ to.delim = opened /\ to.inTable = seen.inTable
              /\ to.name = IF opened = "none" /\ seen.inTable /\ line.kind = "key" /\ line.key = "name"
                           THEN line.value ELSE seen.name
              /\ to.version = IF opened = "none" /\ seen.inTable /\ line.kind = "key" /\ line.key = "version"
                              THEN line.value ELSE seen.version
    BY <2>2, ScanLineIs
  <2>6. line.quotes = <<>> => opened = "none"
    <3> SUFFICES ASSUME line.quotes = <<>> PROVE opened = "none"
      OBVIOUS
    <3>1. \A d : { x \in DOMAIN line.quotes : line.quotes[x] = d } = {}
      OBVIOUS
    <3>2. Cardinality({}) = 0
      BY FS_EmptySet
    <3> QED  BY <3>1, <3>2 DEF OpensMultiline
  <2>7. /\ seen.delim = q[i] /\ seen.inTable = In(i)
        /\ Latest(lines, stated("name"), k, seen.name)
        /\ Latest(lines, stated("version"), k, seen.version)
    BY <1>11
  <2>8. /\ i \in headers <=> q[i] = "none" /\ line.kind = "header"
        /\ \A key : i \in stated(key) <=> /\ q[i] = "none" /\ In(i) /\ line.kind = "key"
                                          /\ line.key = key /\ q[i + 1] = "none"
    BY <1>1, <2>1
  <2>9. /\ i \in headers => (In(i + 1) <=> line.table = table)
        /\ i \notin headers => (In(i + 1) <=> In(i))
    BY <1>7, <2>1
  <2>10. seen.inTable \in BOOLEAN /\ st[i].inTable \in BOOLEAN /\ In(i) \in BOOLEAN /\ In(i + 1) \in BOOLEAN
    <3>1. st[i] \in Scan
      BY <1>4, <2>1
    <3> QED  BY <2>2, <3>1 DEF Scan
  <2> HIDE DEF In, stated, headers, opened, line, seen, i
  <2>11. st[i].delim = q[i + 1]
    BY <2>3, <2>4, <2>5, <2>6, <2>7
  <2>12. st[i].inTable = In(i + 1)
    BY <2>5, <2>7, <2>8, <2>9, <2>10
  <2>13. /\ st[i].name = IF i \in stated("name") THEN line.value ELSE seen.name
         /\ st[i].version = IF i \in stated("version") THEN line.value ELSE seen.version
    BY <2>4, <2>5, <2>7, <2>8
  <2>14. Latest(lines, stated("name"), k + 1, st[i].name)
    BY <1>1, <1>9, <1>11, <2>7, <2>13, LatestStep DEF i, line
  <2>15. Latest(lines, stated("version"), k + 1, st[i].version)
    BY <1>1, <1>9, <1>11, <2>7, <2>13, LatestStep DEF i, line
  <2> QED  BY <2>11, <2>12, <2>14, <2>15 DEF i
<1>12. Agrees(n)
  <2> HIDE DEF Agrees
  <2>1. 0 \in T
    BY <1>1, <1>10
  <2>2. \A m \in 0..n : m \in T /\ m < n => m + 1 \in T
    <3> TAKE m \in 0..n
    <3> HAVE m \in T /\ m < n
    <3>1. m + 1 \in 0..n
      BY <1>1
    <3> QED  BY <1>11, <3>1
  <2>3. 0..n \subseteq T
    <3> HIDE DEF T
    <3> QED  BY <1>1, <2>1, <2>2, UpTo
  <2>4. n \in 0..n
    BY <1>1
  <2> QED  BY <2>3, <2>4
<1>13. st[n].name = TomlValue(lines, table, "name")
  <2> DEFINE S == stated("name")
             v == st[n].name
  <2>1. n \in Nat /\ S \in SUBSET (1..n) /\ Latest(lines, S, n, v)
    BY <1>1, <1>9, <1>12
  <2>2. TomlValue(lines, table, "name")
          = IF S = {} THEN Absent ELSE lines[CHOOSE i \in S : \A j \in S : j <= i].value
    <3> HIDE DEF stated
    <3> QED  BY <1>5
  <2> HIDE DEF S, v
  <2>3. v = IF S = {} THEN Absent ELSE lines[CHOOSE i \in S : \A j \in S : j <= i].value
    BY <2>1, LatestIs
  <2> QED  BY <2>2, <2>3 DEF v
<1>14. st[n].version = TomlValue(lines, table, "version")
  <2> DEFINE S == stated("version")
             v == st[n].version
  <2>1. n \in Nat /\ S \in SUBSET (1..n) /\ Latest(lines, S, n, v)
    BY <1>1, <1>9, <1>12
  <2>2. TomlValue(lines, table, "version")
          = IF S = {} THEN Absent ELSE lines[CHOOSE i \in S : \A j \in S : j <= i].value
    <3> HIDE DEF stated
    <3> QED  BY <1>5
  <2> HIDE DEF S, v
  <2>3. v = IF S = {} THEN Absent ELSE lines[CHOOSE i \in S : \A j \in S : j <= i].value
    BY <2>1, LatestIs
  <2> QED  BY <2>2, <2>3 DEF v
<1>15. st[n].name \in Written /\ st[n].version \in Written
  <2>1. st[n] \in Scan
    BY <1>1, <1>4
  <2> QED  BY <2>1 DEF Scan
<1> QED  BY <1>4, <1>13, <1>14, <1>15

-----------------------------------------------------------------------------
(* Gemfile.lock. *)

LEMMA LockLines ==
  ASSUME NEW lines, LockDocument(lines)
  PROVE  /\ Len(lines) \in Nat /\ DOMAIN lines = 1 .. Len(lines)
         /\ \A i \in 1 .. Len(lines) : /\ lines[i].name \in Written /\ lines[i].version \in Written
                                       /\ lines[i].indent \in Nat
<1> DEFINE R == [indent : Nat, text : STRING, name : Written, version : Written]
<1>1. lines \in Seq(R)
  BY DEF LockDocument
<1>2. \A l \in R : l.name \in Written /\ l.version \in Written /\ l.indent \in Nat
  OBVIOUS
<1> HIDE DEF R
<1> QED  BY <1>1, <1>2, Elements

LockStates == {"outside", "inPath", "inOurs", "inSpecs", "found"}

Locked == [state : LockStates, name : Written, version : Written]

(* What a line does to a state of the scanner. *)
LEMMA ScanLockLineIs ==
  ASSUME NEW seen \in Locked, NEW line, line.name \in Written, line.version \in Written
  PROVE  LET to == ScanLockLine(seen, line) IN
         /\ to \in Locked
         /\ seen.state = "found" => to = seen
         /\ seen.state # "found" /\ line.indent = 0 =>
              /\ to.state = (IF line.text = "PATH" THEN "inPath" ELSE "outside")
              /\ to.name = seen.name /\ to.version = seen.version
         /\ seen.state # "found" /\ line.indent # 0 =>
              /\ seen.state = "outside" => to = seen
              /\ seen.state = "inPath" =>
                   /\ to.state = (IF line.text = "remote:." THEN "inOurs"
                                  ELSE IF line.text = "specs:" THEN "outside" ELSE "inPath")
                   /\ to.name = seen.name /\ to.version = seen.version
              /\ seen.state = "inOurs" =>
                   /\ to.state = (IF line.text = "specs:" THEN "inSpecs" ELSE "inOurs")
                   /\ to.name = seen.name /\ to.version = seen.version
              /\ seen.state = "inSpecs" =>
                   IF line.indent = 4
                   THEN to.state = "found" /\ to.name = line.name /\ to.version = line.version
                   ELSE to = seen
<1> DEFINE to == ScanLockLine(seen, line)
           step == CASE seen.state = "inPath" /\ line.text = "remote:."  -> [seen EXCEPT !.state = "inOurs"]
                     [] seen.state = "inPath" /\ line.text = "specs:"     -> [seen EXCEPT !.state = "outside"]
                     [] seen.state = "inOurs" /\ line.text = "specs:"     -> [seen EXCEPT !.state = "inSpecs"]
                     [] seen.state = "inSpecs" /\ line.indent = 4 ->
                          [state |-> "found", name |-> line.name, version |-> line.version]
                     [] OTHER -> seen
<1>1. /\ seen = [state |-> seen.state, name |-> seen.name, version |-> seen.version]
      /\ seen.state \in LockStates /\ seen.name \in Written /\ seen.version \in Written
  BY DEF Locked
<1>2. CASE seen.state = "found"
  BY <1>2 DEF ScanLockLine
<1>3. CASE seen.state # "found" /\ line.indent = 0
  <2>1. to = [seen EXCEPT !.state = IF line.text = "PATH" THEN "inPath" ELSE "outside"]
    BY <1>3 DEF ScanLockLine
  <2> HIDE DEF to
  <2>2. /\ to \in Locked /\ to.name = seen.name /\ to.version = seen.version
        /\ to.state = IF line.text = "PATH" THEN "inPath" ELSE "outside"
    BY <1>1, <2>1 DEF Locked, LockStates
  <2> QED  BY <1>3, <2>2 DEF to
<1>4. CASE seen.state # "found" /\ line.indent # 0
  <2>1. to = step
    BY <1>4 DEF ScanLockLine
  <2> HIDE DEF to
  <2>2. CASE seen.state = "outside"
    <3>1. to = seen
      BY <2>1, <2>2
    <3> QED  BY <1>4, <2>2, <3>1 DEF to
  <2>3. CASE seen.state = "inPath"
    <3>1. CASE line.text = "remote:."
      <4>1. to = [seen EXCEPT !.state = "inOurs"]
        BY <2>1, <2>3, <3>1
      <4>2. to \in Locked /\ to.state = "inOurs" /\ to.name = seen.name /\ to.version = seen.version
        BY <1>1, <4>1 DEF Locked, LockStates
      <4> QED  BY <1>4, <2>3, <3>1, <4>2 DEF to
    <3>2. CASE line.text = "specs:"
      <4>1. to = [seen EXCEPT !.state = "outside"]
        BY <2>1, <2>3, <3>2
      <4>2. to \in Locked /\ to.state = "outside" /\ to.name = seen.name /\ to.version = seen.version
        BY <1>1, <4>1 DEF Locked, LockStates
      <4> QED  BY <1>4, <2>3, <3>2, <4>2 DEF to
    <3>3. CASE line.text \notin {"remote:.", "specs:"}
      <4>1. to = seen
        BY <2>1, <2>3, <3>3
      <4> QED  BY <1>4, <2>3, <3>3, <4>1 DEF to
    <3> QED  BY <3>1, <3>2, <3>3
  <2>4. CASE seen.state = "inOurs"
    <3>1. CASE line.text = "specs:"
      <4>1. to = [seen EXCEPT !.state = "inSpecs"]
        BY <2>1, <2>4, <3>1
      <4>2. to \in Locked /\ to.state = "inSpecs" /\ to.name = seen.name /\ to.version = seen.version
        BY <1>1, <4>1 DEF Locked, LockStates
      <4> QED  BY <1>4, <2>4, <3>1, <4>2 DEF to
    <3>2. CASE line.text # "specs:"
      <4>1. to = seen
        BY <2>1, <2>4, <3>2
      <4> QED  BY <1>4, <2>4, <3>2, <4>1 DEF to
    <3> QED  BY <3>1, <3>2
  <2>5. CASE seen.state = "inSpecs"
    <3>1. CASE line.indent = 4
      <4>1. to = [state |-> "found", name |-> line.name, version |-> line.version]
        BY <2>1, <2>5, <3>1
      <4>2. to \in Locked /\ to.state = "found" /\ to.name = line.name /\ to.version = line.version
        BY <1>1, <4>1 DEF Locked, LockStates
      <4> QED  BY <1>4, <2>5, <3>1, <4>2 DEF to
    <3>2. CASE line.indent # 4
      <4>1. to = seen
        BY <2>1, <2>5, <3>2
      <4> QED  BY <1>4, <2>5, <3>2, <4>1 DEF to
    <3> QED  BY <3>1, <3>2
  <2> QED  BY <1>1, <1>4, <2>2, <2>3, <2>4, <2>5 DEF LockStates
<1> QED  BY <1>2, <1>3, <1>4

LockScannedAs(st, lines) ==
  /\ st \in [0 .. Len(lines) -> Locked]
  /\ st[0] = [state |-> "outside", name |-> Absent, version |-> Absent]
  /\ \A i \in 1 .. Len(lines) : st[i] = ScanLockLine(st[i - 1], lines[i])
  /\ ScanLockPathSection(lines) = st[Len(lines)]

LEMMA LockScanning ==
  ASSUME NEW lines, LockDocument(lines)
  PROVE  \E st : LockScannedAs(st, lines)
<1> DEFINE n == Len(lines)
           b == [state |-> "outside", name |-> Absent, version |-> Absent]
           G == [p \in (1..n) \X Locked |-> ScanLockLine(p[2], lines[p[1]])]
           F == CHOOSE f : f = [s \in SUBSET (1..n) |->
                  IF s = {} THEN b ELSE ScanLockLine(f[s \ {Max(s)}], lines[Max(s)])]
           f == [i \in 0..n |-> F[1..i]]
<1>1. n \in Nat /\ DOMAIN lines = 1..n /\ \A i \in 1..n : lines[i].name \in Written /\ lines[i].version \in Written
  BY LockLines
<1>2. ScanLockPathSection(lines) = F[1..n]
  BY <1>1 DEF ScanLockPathSection, FoldLeft, MapThenFoldSet
<1>3. G \in [(1..n) \X Locked -> Locked]
  <2>1. \A i \in 1..n, v \in Locked : ScanLockLine(v, lines[i]) \in Locked
    BY <1>1, ScanLockLineIs
  <2> QED  BY <2>1
<1>4. \A i \in 1..n, v \in Locked : G[<<i, v>>] = ScanLockLine(v, lines[i])
  OBVIOUS
<1>b. b \in Locked
  <2>1. Absent \in Written
    <3>1. <<>> \in Seq(STRING) /\ <<>> # << "${}" >>
      OBVIOUS
    <3> QED  BY <3>1 DEF Absent, Written, Pointer
  <2> QED  BY <2>1 DEF Locked, LockStates
<1> HIDE DEF G, b
<1>5. \E g : g = [s \in SUBSET (1..n) |->
                    IF s = {} THEN b ELSE ScanLockLine(g[s \ {Max(s)}], lines[Max(s)])]
  <2>0. PICK g : Folded(g, Locked, b, G, n)
    <3> HIDE DEF n
    <3> QED  BY <1>1, <1>3, <1>b, Folding
  <2>1. /\ g \in [SUBSET (1..n) -> Locked]
        /\ \A s \in SUBSET (1..n) : g[s] = IF s = {} THEN b ELSE G[<<Max(s), g[s \ {Max(s)}]>>]
    BY <2>0 DEF Folded
  <2>2. \A s \in SUBSET (1..n) :
          g[s] = IF s = {} THEN b ELSE ScanLockLine(g[s \ {Max(s)}], lines[Max(s)])
    <3> TAKE s \in SUBSET (1..n)
    <3>1. CASE s # {}
      <4>1. Max(s) \in 1..n /\ s \ {Max(s)} \in SUBSET (1..n)
        BY <1>1, <3>1, MaxOf
      <4> QED  BY <1>4, <2>1, <3>1, <4>1
    <3> QED  BY <2>1, <3>1
  <2>3. g = [s \in SUBSET (1..n) |->
               IF s = {} THEN b ELSE ScanLockLine(g[s \ {Max(s)}], lines[Max(s)])]
    BY <2>1, <2>2
  <2> QED  BY <2>3
<1>6. F = [s \in SUBSET (1..n) |->
             IF s = {} THEN b ELSE ScanLockLine(F[s \ {Max(s)}], lines[Max(s)])]
  BY <1>5 DEF b
<1> HIDE DEF F
<1>7. F[{}] = b
  BY <1>6
<1>8. ASSUME NEW s \in SUBSET (1..n), s # {}, F[s \ {Max(s)}] \in Locked
      PROVE  F[s] = G[<<Max(s), F[s \ {Max(s)}]>>]
  <2>1. Max(s) \in 1..n
    BY <1>1, <1>8, MaxOf
  <2> QED  BY <1>4, <1>6, <1>8, <2>1
<1>9. Takes(f, Locked, b, G, n)
  <2>1. PartlyFolded(F, Locked, b, G, n)
    BY <1>7, <1>8 DEF PartlyFolded
  <2> HIDE DEF n
  <2> QED  BY <1>1, <1>3, <1>b, <2>1, FoldTakes
<1>10. f \in [0..n -> Locked] /\ f[0] = b /\ \A i \in 1..n : f[i] = G[<<i, f[i - 1]>>]
  BY <1>9 DEF Takes
<1>11. \A i \in 1..n : f[i] = ScanLockLine(f[i - 1], lines[i])
  <2> TAKE i \in 1..n
  <2>1. i - 1 \in 0..n
    OBVIOUS
  <2>2. f[i - 1] \in Locked
    BY <1>10, <2>1
  <2> QED  BY <1>4, <1>10, <2>2
<1>12. f[n] = F[1..n]
  BY <1>1
<1> HIDE DEF f
<1>13. LockScannedAs(f, lines)
  BY <1>2, <1>10, <1>11, <1>12 DEF LockScannedAs, b
<1> QED  BY <1>13

(* The block of a PATH that line k is in, and what of it was read by then. *)
Block(lines, p, k) ==
  /\ p \in 1..k /\ lines[p].indent = 0 /\ lines[p].text = "PATH"
  /\ \A j \in p + 1 .. k : lines[j].indent # 0

Says(lines, p, k, text) == \E j \in p + 1 .. k : lines[j].text = text

LEMMA OneBlock ==
  ASSUME NEW lines, NEW k \in Nat, NEW p, NEW r, Block(lines, p, k), Block(lines, r, k)
  PROVE  p = r
<1>1. p \in 1..k /\ r \in 1..k
  BY DEF Block
<1>2. ~(p < r)
  <2> SUFFICES ASSUME p < r PROVE FALSE
    OBVIOUS
  <2>1. r \in p + 1 .. k
    BY <1>1
  <2> QED  BY <2>1 DEF Block
<1>3. ~(r < p)
  <2> SUFFICES ASSUME r < p PROVE FALSE
    OBVIOUS
  <2>1. p \in r + 1 .. k
    BY <1>1
  <2> QED  BY <2>1 DEF Block
<1> QED  BY <1>1, <1>2, <1>3

(* Blocks and what they say, one line further. *)
LEMMA BlockStep ==
  ASSUME NEW lines, NEW k \in Nat
  PROVE  /\ lines[k + 1].indent = 0 =>
              \A p : Block(lines, p, k + 1) <=> p = k + 1 /\ lines[k + 1].text = "PATH"
         /\ lines[k + 1].indent # 0 =>
              \A p : Block(lines, p, k + 1) <=> Block(lines, p, k)
         /\ \A p \in 1..k : \A text :
              Says(lines, p, k + 1, text) <=> Says(lines, p, k, text) \/ lines[k + 1].text = text
         /\ \A text : ~Says(lines, k + 1, k + 1, text)
<1>1. \A p \in 1..k : (p + 1 .. k + 1) = (p + 1 .. k) \cup {k + 1}
  OBVIOUS
<1>2. (k + 1) + 1 .. k + 1 = {}
  OBVIOUS
<1>3. \A p : p \in 1 .. k + 1 <=> p \in 1..k \/ p = k + 1
  OBVIOUS
<1>4. ASSUME lines[k + 1].indent = 0, NEW p
      PROVE  Block(lines, p, k + 1) <=> p = k + 1 /\ lines[k + 1].text = "PATH"
  <2>1. CASE p = k + 1
    BY <1>2, <1>3, <1>4, <2>1 DEF Block
  <2>2. CASE p # k + 1
    <3>1. p \in 1..k => k + 1 \in p + 1 .. k + 1
      OBVIOUS
    <3> QED  BY <1>3, <1>4, <2>2, <3>1 DEF Block
  <2> QED  BY <2>1, <2>2
<1>5. ASSUME lines[k + 1].indent # 0, NEW p
      PROVE  Block(lines, p, k + 1) <=> Block(lines, p, k)
  <2>1. CASE p \in 1..k
    BY <1>1, <1>3, <1>5, <2>1 DEF Block
  <2>2. CASE p \notin 1..k
    BY <1>3, <1>5, <2>2 DEF Block
  <2> QED  BY <2>1, <2>2
<1>6. ASSUME NEW p \in 1..k, NEW text
      PROVE  Says(lines, p, k + 1, text) <=> Says(lines, p, k, text) \/ lines[k + 1].text = text
  BY <1>1 DEF Says
<1>7. \A text : ~Says(lines, k + 1, k + 1, text)
  BY <1>2 DEF Says
<1> QED  BY <1>4, <1>5, <1>6, <1>7

(* A block that says both, says its remote first. *)
LEMMA RemoteFirst ==
  ASSUME NEW lines, LockDocument(lines), NEW k \in 0 .. Len(lines), NEW p, Block(lines, p, k)
  PROVE  \A r, s \in p + 1 .. k : lines[r].text = "remote:." /\ lines[s].text = "specs:" => r < s
<1>1. Len(lines) \in Nat /\ DOMAIN lines = 1 .. Len(lines)
  BY LockLines
<1> TAKE r, s \in p + 1 .. k
<1> HAVE lines[r].text = "remote:." /\ lines[s].text = "specs:"
<1>0. k \in Nat /\ k <= Len(lines) /\ p \in 1..k
  BY <1>1 DEF Block
<1> DEFINE n == Len(lines)
<1> HIDE DEF n
<1>2. /\ n \in Nat /\ k \in Nat /\ k <= n /\ p \in Nat /\ r \in Nat /\ s \in Nat
      /\ r \in 1..n /\ s \in 1..n /\ DOMAIN lines = 1..n
  BY <1>0, <1>1 DEF n
<1>3. r # s
  OBVIOUS
<1>4. CASE s < r
  <2>1. PICK j \in s..r : lines[j].indent = 0
    <3>1. \A i, j \in DOMAIN lines : i < j /\ lines[i].text = "specs:" /\ lines[j].text = "remote:."
                                        => \E x \in i .. j : lines[x].indent = 0
      BY DEF LockDocument
    <3> QED  BY <1>2, <1>4, <3>1
  <2>2. j \in p + 1 .. k
    <3>1. p + 1 <= s /\ r <= k /\ s <= j /\ j <= r /\ j \in Int
      BY <1>2, <2>1
    <3> QED  BY <1>2, <3>1
  <2> QED  BY <2>1, <2>2 DEF Block
<1> QED  BY <1>2, <1>3, <1>4

(* The entries that are a gem of this directory, by their block. *)
LEMMA LockedGemsAre ==
  ASSUME NEW lines, LockDocument(lines)
  PROVE  /\ LockedGems(lines) \in SUBSET (1 .. Len(lines))
         /\ \A i \in 1 .. Len(lines) :
              i \in LockedGems(lines) <=>
                /\ lines[i].indent = 4
                /\ \E p : /\ Block(lines, p, i - 1)
                          /\ Says(lines, p, i - 1, "remote:.") /\ Says(lines, p, i - 1, "specs:")
<1>1. Len(lines) \in Nat /\ DOMAIN lines = 1 .. Len(lines)
  BY LockLines
<1>2. LockedGems(lines) \in SUBSET (1 .. Len(lines))
  BY <1>1 DEF LockedGems
<1>3. ASSUME NEW i \in 1 .. Len(lines), i \in LockedGems(lines)
      PROVE  /\ lines[i].indent = 4
             /\ \E p : /\ Block(lines, p, i - 1)
                       /\ Says(lines, p, i - 1, "remote:.") /\ Says(lines, p, i - 1, "specs:")
  <2>1. PICK p \in 1 .. i - 1 :
          /\ lines[p].indent = 0 /\ lines[p].text = "PATH"
          /\ \A k \in p + 1 .. i : lines[k].indent # 0
          /\ \E r, s \in p + 1 .. i - 1 : /\ r < s
                                          /\ lines[r].text = "remote:." /\ lines[s].text = "specs:"
          /\ lines[i].indent = 4
    BY <1>3 DEF LockedGems
  <2>2. \A k \in p + 1 .. i - 1 : k \in p + 1 .. i
    OBVIOUS
  <2> QED  BY <2>1, <2>2 DEF Block, Says
<1>4. ASSUME NEW i \in 1 .. Len(lines), lines[i].indent = 4, NEW p, Block(lines, p, i - 1),
             Says(lines, p, i - 1, "remote:."), Says(lines, p, i - 1, "specs:")
      PROVE  i \in LockedGems(lines)
  <2>1. PICK r \in p + 1 .. i - 1 : lines[r].text = "remote:."
    BY <1>4 DEF Says
  <2>2. PICK s \in p + 1 .. i - 1 : lines[s].text = "specs:"
    BY <1>4 DEF Says
  <2>3. i - 1 \in 0 .. Len(lines)
    BY <1>1
  <2>4. r < s
    BY <1>4, <2>1, <2>2, <2>3, RemoteFirst
  <2>5. p \in 1 .. i - 1 /\ lines[p].indent = 0 /\ lines[p].text = "PATH"
    BY <1>4 DEF Block
  <2>6. \A k \in p + 1 .. i : lines[k].indent # 0
    <3> TAKE k \in p + 1 .. i
    <3>1. k = i \/ k \in p + 1 .. i - 1
      BY <2>5
    <3>2. \A x \in p + 1 .. i - 1 : lines[x].indent # 0
      BY <1>4 DEF Block
    <3>3. lines[i].indent # 0
      <4>1. lines[i].indent = 4
        BY <1>4
      <4> QED  BY <4>1
    <3> QED  BY <3>1, <3>2, <3>3
  <2> QED  BY <1>1, <1>4, <2>1, <2>2, <2>4, <2>5, <2>6 DEF LockedGems
<1> QED  BY <1>2, <1>3, <1>4

(* Where the scanner is after line k, before it found the gem. *)
LockPlace(lines, k, state) ==
  \/ state = "outside" /\ \A p : ~Block(lines, p, k)
  \/ \E p : /\ Block(lines, p, k)
            /\ state = IF Says(lines, p, k, "specs:")
                       THEN IF Says(lines, p, k, "remote:.") THEN "inSpecs" ELSE "outside"
                       ELSE IF Says(lines, p, k, "remote:.") THEN "inOurs" ELSE "inPath"

(* The scanner states the first gem of the lock that is this directory's. *)
LEMMA LockIsRead ==
  ASSUME NEW lines, LockDocument(lines)
  PROVE  LET gem == ScanLockPathSection(lines) IN
         /\ gem.name \in Written /\ gem.version \in Written
         /\ IF LockedGems(lines) = {} THEN gem.name = Absent /\ gem.version = Absent
            ELSE LET i == CHOOSE i \in LockedGems(lines) : \A j \in LockedGems(lines) : i <= j
                 IN  gem.name = lines[i].name /\ gem.version = lines[i].version
<1> DEFINE n == Len(lines)
           L == LockedGems(lines)
<1>1. /\ n \in Nat /\ DOMAIN lines = 1..n
      /\ \A i \in 1..n : lines[i].name \in Written /\ lines[i].version \in Written
  BY LockLines
<1>2. PICK st : LockScannedAs(st, lines)
  BY LockScanning
<1>3. /\ st \in [0..n -> Locked]
      /\ st[0] = [state |-> "outside", name |-> Absent, version |-> Absent]
      /\ \A i \in 1..n : st[i] = ScanLockLine(st[i - 1], lines[i])
      /\ ScanLockPathSection(lines) = st[n]
  BY <1>2 DEF LockScannedAs
<1>4. /\ L \in SUBSET (1..n)
      /\ \A i \in 1..n : i \in L <=> /\ lines[i].indent = 4
                                     /\ \E p : /\ Block(lines, p, i - 1)
                                               /\ Says(lines, p, i - 1, "remote:.")
                                               /\ Says(lines, p, i - 1, "specs:")
  BY LockedGemsAre
<1> HIDE DEF L, n
<1>l. \A i \in L : i \in Nat /\ 1 <= i /\ i <= n /\ i \in 1..n
  BY <1>1, <1>4
<1> DEFINE AtGem(k) == \E i \in L : /\ i <= k /\ \A j \in L : i <= j
                                     /\ st[k].name = lines[i].name /\ st[k].version = lines[i].version
           Agrees(k) == IF st[k].state = "found" THEN AtGem(k)
                        ELSE /\ \A i \in L : ~(i <= k)
                             /\ st[k].name = Absent /\ st[k].version = Absent
                             /\ LockPlace(lines, k, st[k].state)
           T == {k \in 0..n : Agrees(k)}
<1>5. Agrees(0)
  <2>1. /\ st[0].state = "outside" /\ st[0].name = Absent /\ st[0].version = Absent
    BY <1>3
  <2>2. \A p : ~Block(lines, p, 0)
    BY DEF Block
  <2>3. \A i \in L : ~(i <= 0)
    BY <1>l
  <2>4. LockPlace(lines, 0, st[0].state)
    BY <2>1, <2>2 DEF LockPlace
  <2> QED  BY <2>1, <2>3, <2>4
<1>6. ASSUME NEW k \in 0..n, Agrees(k), k < n PROVE Agrees(k + 1)
  <2> DEFINE i == k + 1
             line == lines[i]
             seen == st[k]
             to == st[i]
  <2>1. i \in 1..n /\ i - 1 = k /\ k \in Nat
    BY <1>1, <1>6
  <2>2. seen \in Locked /\ to = ScanLockLine(seen, line) /\ to \in Locked
        /\ line.name \in Written /\ line.version \in Written
    <3>1. to \in Locked
      BY <1>1, <1>3, <2>1
    <3> QED  BY <1>1, <1>3, <2>1, <3>1
  <2>3. /\ seen.state = "found" => to = seen
        /\ seen.state # "found" /\ line.indent = 0 =>
             /\ to.state = (IF line.text = "PATH" THEN "inPath" ELSE "outside")
             /\ to.name = seen.name /\ to.version = seen.version
        /\ seen.state # "found" /\ line.indent # 0 =>
             /\ seen.state = "outside" => to = seen
             /\ seen.state = "inPath" =>
                  /\ to.state = (IF line.text = "remote:." THEN "inOurs"
                                 ELSE IF line.text = "specs:" THEN "outside" ELSE "inPath")
                  /\ to.name = seen.name /\ to.version = seen.version
             /\ seen.state = "inOurs" =>
                  /\ to.state = (IF line.text = "specs:" THEN "inSpecs" ELSE "inOurs")
                  /\ to.name = seen.name /\ to.version = seen.version
             /\ seen.state = "inSpecs" =>
                  IF line.indent = 4
                  THEN to.state = "found" /\ to.name = line.name /\ to.version = line.version
                  ELSE to = seen
    <3> HIDE DEF seen, line
    <3>1. to = ScanLockLine(seen, line)
      BY <2>2
    <3> HIDE DEF to
    <3> QED  BY <2>2, <3>1, ScanLockLineIs
  <2>4. /\ i \in L <=> /\ line.indent = 4
                       /\ \E p : /\ Block(lines, p, k)
                                 /\ Says(lines, p, k, "remote:.") /\ Says(lines, p, k, "specs:")
        /\ \A j \in L : j \in 1..n /\ (j <= i <=> j <= k \/ j = i)
    <3>1. \A j \in L : j \in 1..n /\ (j <= i <=> j <= k \/ j = i)
      BY <1>l, <2>1
    <3> QED  BY <1>4, <2>1, <3>1
  <2>5. /\ line.indent = 0 => \A p : Block(lines, p, i) <=> p = i /\ line.text = "PATH"
        /\ line.indent # 0 => \A p : Block(lines, p, i) <=> Block(lines, p, k)
        /\ \A p \in 1..k : \A text : Says(lines, p, i, text) <=> Says(lines, p, k, text) \/ line.text = text
        /\ \A text : ~Says(lines, i, i, text)
    BY <2>1, BlockStep
  <2> HIDE DEF line, to, seen, i
  <2>6. CASE seen.state = "found"
    <3>1. to = seen /\ AtGem(k)
      BY <1>6, <2>3, <2>6 DEF seen
    <3>2. k <= i
      BY <2>1 DEF i
    <3>3. AtGem(i)
      <4>1. PICK x \in L : /\ x <= k /\ \A j \in L : x <= j
                           /\ seen.name = lines[x].name /\ seen.version = lines[x].version
        BY <3>1 DEF seen
      <4>2. x <= i
        BY <2>4, <4>1
      <4> QED  BY <3>1, <4>1, <4>2 DEF to
    <3> QED  BY <2>6, <3>1, <3>3 DEF to, i
  <2>7. ASSUME seen.state # "found" PROVE Agrees(i)
    <3>1. /\ \A j \in L : ~(j <= k)
          /\ seen.name = Absent /\ seen.version = Absent /\ LockPlace(lines, k, seen.state)
      BY <1>6, <2>7 DEF seen
    <3>2. ASSUME i \notin L, to.state # "found", to.name = Absent, to.version = Absent,
                 LockPlace(lines, i, to.state)
          PROVE  Agrees(i)
      <4>1. \A j \in L : ~(j <= i)
        BY <2>4, <3>1, <3>2
      <4> QED  BY <3>2, <4>1 DEF to
    <3> HIDE DEF Agrees
    <3>3. CASE line.indent = 0
      <4>1. i \notin L
        BY <2>4, <3>3
      <4>2. to.state = (IF line.text = "PATH" THEN "inPath" ELSE "outside")
            /\ to.name = Absent /\ to.version = Absent
        BY <2>3, <2>7, <3>1, <3>3
      <4>3. LockPlace(lines, i, to.state)
        BY <2>5, <3>3, <4>2 DEF LockPlace
      <4> QED  BY <3>2, <4>1, <4>2, <4>3
    <3>4. CASE line.indent # 0 /\ \A p : ~Block(lines, p, k)
      <4>1. seen.state = "outside"
        BY <3>1, <3>4 DEF LockPlace
      <4>2. to = seen /\ i \notin L
        BY <2>3, <2>4, <3>4, <4>1
      <4>3. LockPlace(lines, i, "outside")
        BY <2>5, <3>4 DEF LockPlace
      <4> QED  BY <3>1, <3>2, <4>1, <4>2, <4>3
    <3>5. ASSUME line.indent # 0, NEW p, Block(lines, p, k) PROVE Agrees(i)
      <4> DEFINE remote == Says(lines, p, k, "remote:.")
                 specs  == Says(lines, p, k, "specs:")
      <4>1. \A r : Block(lines, r, k) => r = p
        BY <2>1, <3>5, OneBlock
      <4>2. seen.state = IF specs THEN IF remote THEN "inSpecs" ELSE "outside"
                         ELSE IF remote THEN "inOurs" ELSE "inPath"
        BY <3>1, <3>5, <4>1 DEF LockPlace
      <4>3. i \in L <=> line.indent = 4 /\ remote /\ specs
        BY <2>4, <3>5, <4>1
      <4>4. p \in 1..k
        BY <3>5 DEF Block
      <4>5. Block(lines, p, i)
        BY <2>5, <3>5
      <4>6. /\ Says(lines, p, i, "remote:.") <=> remote \/ line.text = "remote:."
            /\ Says(lines, p, i, "specs:") <=> specs \/ line.text = "specs:"
        BY <2>5, <4>4
      <4>7. specs /\ ~remote => line.text # "remote:."
        <5> SUFFICES ASSUME specs, ~remote, line.text = "remote:." PROVE FALSE
          OBVIOUS
        <5>1. PICK s \in p + 1 .. k : lines[s].text = "specs:"
          BY DEF Says
        <5>2. s \in p + 1 .. i /\ i \in p + 1 .. i /\ s < i /\ i \in 0..n /\ s \in Nat /\ i \in Nat
          <6>1. s \in Int /\ p \in Nat /\ p + 1 <= s /\ s <= k /\ k < n
            BY <1>6, <2>1, <4>4, <5>1
          <6>2. i = k + 1 /\ k \in Nat /\ n \in Nat
            BY <1>1, <2>1 DEF i
          <6>3. p <= k /\ 1 <= s
            BY <6>1, <6>2
          <6> QED  BY <6>1, <6>2, <6>3
        <5>3. i < s
          BY <4>5, <5>1, <5>2, RemoteFirst DEF n, line
        <5> QED  BY <5>2, <5>3
      <4> HIDE DEF remote, specs
      <4>8. CASE line.indent = 4 /\ remote /\ specs
        <5>1. to.state = "found" /\ to.name = line.name /\ to.version = line.version /\ i \in L
          BY <2>3, <2>7, <3>5, <4>2, <4>3, <4>8
        <5>2. \A j \in L : i <= j
          <6> TAKE j \in L
          <6>1. j \in 1..n /\ ~(j <= k)
            BY <2>4, <3>1
          <6> QED  BY <2>1, <6>1 DEF i
        <5>3. i <= i
          BY <2>1
        <5>4. AtGem(i)
          BY <5>1, <5>2, <5>3 DEF to, line
        <5> QED  BY <5>1, <5>4 DEF Agrees, to
      <4>9. CASE ~(line.indent = 4 /\ remote /\ specs)
        <5>1. /\ to.name = Absent /\ to.version = Absent
              /\ to.state = IF Says(lines, p, i, "specs:")
                            THEN IF Says(lines, p, i, "remote:.") THEN "inSpecs" ELSE "outside"
                            ELSE IF Says(lines, p, i, "remote:.") THEN "inOurs" ELSE "inPath"
          <6>1. CASE specs /\ remote
            BY <2>3, <2>7, <3>1, <3>5, <4>2, <4>6, <4>9, <6>1
          <6>2. CASE specs /\ ~remote
            BY <2>3, <2>7, <3>1, <3>5, <4>2, <4>6, <4>7, <6>2
          <6>3. CASE ~specs /\ remote
            BY <2>3, <2>7, <3>1, <3>5, <4>2, <4>6, <6>3
          <6>4. CASE ~specs /\ ~remote
            BY <2>3, <2>7, <3>1, <3>5, <4>2, <4>6, <6>4
          <6> QED  BY <6>1, <6>2, <6>3, <6>4
        <5>2. to.state # "found" /\ i \notin L
          BY <4>3, <4>9, <5>1
        <5>3. LockPlace(lines, i, to.state)
          BY <4>5, <5>1 DEF LockPlace
        <5> QED  BY <3>2, <5>1, <5>2, <5>3
      <4> QED  BY <4>8, <4>9
    <3> QED  BY <3>3, <3>4, <3>5
  <2> QED  BY <2>6, <2>7 DEF seen, i
<1>7. Agrees(n)
  <2> HIDE DEF Agrees
  <2>1. 0 \in T
    BY <1>1, <1>5
  <2>2. \A m \in 0..n : m \in T /\ m < n => m + 1 \in T
    <3> TAKE m \in 0..n
    <3> HAVE m \in T /\ m < n
    <3>1. m + 1 \in 0..n
      BY <1>1
    <3> QED  BY <1>6, <3>1
  <2>3. 0..n \subseteq T
    <3> HIDE DEF T
    <3> QED  BY <1>1, <2>1, <2>2, UpTo
  <2>4. n \in 0..n
    BY <1>1
  <2> QED  BY <2>3, <2>4
<1>8. st[n].name \in Written /\ st[n].version \in Written
  <2>1. st[n] \in Locked
    BY <1>1, <1>3
  <2> QED  BY <2>1 DEF Locked
<1>9. CASE L = {}
  BY <1>3, <1>7, <1>8, <1>9 DEF L
<1>10. CASE L # {}
  <2>1. PICK i \in L : /\ \A j \in L : i <= j
                       /\ st[n].name = lines[i].name /\ st[n].version = lines[i].version
    <3>1. \A j \in L : j <= n
      BY <1>l
    <3> QED  BY <1>7, <1>10, <3>1
  <2> DEFINE c == CHOOSE i1 \in L : \A j \in L : i1 <= j
  <2>2. c \in L /\ \A j \in L : c <= j
    BY <2>1
  <2>3. c = i
    <3> HIDE DEF c
    <3>1. c <= i /\ i <= c /\ c \in 1..n /\ i \in 1..n
      BY <1>4, <2>1, <2>2
    <3> QED  BY <3>1
  <2>4. st[n].name = lines[c].name /\ st[n].version = lines[c].version
    <3> HIDE DEF c
    <3> QED  BY <2>1, <2>3
  <2> QED  BY <1>3, <1>8, <1>10, <2>4 DEF L
<1> QED  BY <1>9, <1>10

-----------------------------------------------------------------------------
(* Every resolver. *)

LEMMA Marks == Unknown # Absent /\ Unknown # Pointer /\ Absent # Pointer
<1>1. <<".">> # <<>> /\ <<"${}">> # <<>>
  OBVIOUS
<1>2. <<".">> # <<"${}">>
  <2>1. <<".">>[1] = "." /\ <<"${}">>[1] = "${}"
    OBVIOUS
  <2> QED  BY <2>1, "." # "${}"
<1> QED  BY <1>1, <1>2 DEF Unknown, Absent, Pointer

LEMMA Named ==
  ASSUME NEW n, NEW v, n # Pointer, v # Pointer
  PROVE  LET id == Identity(n, v) IN
         /\ id.name = Or(n, Unknown) /\ id.name \notin {Absent, Pointer}
         /\ id.version = Or(v, Unknown) /\ id.version \notin {Absent, Pointer}
<1>1. Or(n, Unknown) \notin {Absent, Pointer} /\ Or(v, Unknown) \notin {Absent, Pointer}
  BY Marks DEF Or
<1> HIDE DEF Absent, Pointer, Unknown, Or
<1> QED  BY <1>1 DEF Identity

LEMMA StatedIs == \A v : Stated(v) # Pointer /\ (Stated(v) # Absent => Stated(v) = v)
BY Marks DEF Stated

(* The first of several values that states something. *)
LEMMA FirstOfStated ==
  ASSUME NEW R, NEW values \in Seq(R)
  PROVE  LET found == FirstLine(values, LAMBDA v : Stated(v) # Absent) IN
         (IF found = <<>> THEN Absent ELSE Head(found)) # Pointer
<1> DEFINE Test(v) == Stated(v) # Absent
           I == { i \in 1 .. Len(values) : Stated(values[i]) # Absent }
           k == IF I # {} THEN Min(I) ELSE 0
           found == FirstLine(values, LAMBDA v : Stated(v) # Absent)
<1>1. found = IF k = 0 THEN <<>> ELSE << values[k] >>
  BY DEF FirstLine, SelectInSeq
<1>2. CASE k = 0
  BY <1>1, <1>2, Marks
<1>3. CASE k # 0
  <2>1. I # {} /\ k = Min(I) /\ I \in SUBSET Nat
    BY <1>3
  <2>2. k \in I
    <3> HIDE DEF I
    <3>1. PICK x \in I : \A y \in I : ~(y < x)
      BY <2>1, LeastOf
    <3>2. \A y \in I : x <= y
      BY <2>1, <3>1
    <3>3. Min(I) = CHOOSE z \in I : \A y \in I : z <= y
      BY DEF Min
    <3> QED  BY <2>1, <3>2, <3>3
  <2>3. Stated(values[k]) # Absent
    BY <2>2
  <2>4. values[k] # Pointer
    BY <2>3, StatedIs
  <2> HIDE DEF k
  <2>5. found = << values[k] >>
    BY <1>1, <1>3
  <2>6. found # <<>> /\ Head(found) = values[k]
    <3>1. << values[k] >> # <<>> /\ Head(<< values[k] >>) = values[k]
      OBVIOUS
    <3> QED  BY <2>5, <3>1
  <2> QED  BY <2>4, <2>6
<1> QED  BY <1>2, <1>3

Groups == [id : Seq(STRING), assembly : Seq(STRING), version : Seq(STRING), prefix : Seq(STRING)]

LEMMA PropsIs ==
  ASSUME NEW doc, doc.groups \in Seq(Groups)
  PROVE  \E n, v : n # Pointer /\ v # Pointer /\ FromProps(doc) = Identity(n, v)
<1> DEFINE groups == DecodeProps(doc)
           V == Seq(STRING)
           names == [g \in DOMAIN groups |-> << groups[g].id, groups[g].assembly >>]
           versions == [g \in DOMAIN groups |-> << groups[g].version, groups[g].prefix >>]
           n == FirstStated(groups, LAMBDA g : << g.id, g.assembly >>)
           v == FirstStated(groups, LAMBDA g : << g.version, g.prefix >>)
<1>1. groups \in Seq(Groups)
  <2>1. <<>> \in Seq(Groups)
    OBVIOUS
  <2> QED  BY <2>1 DEF DecodeProps
<1> HIDE DEF groups
<1>2. /\ Len(groups) \in Nat /\ DOMAIN groups = 1 .. Len(groups)
      /\ \A g \in 1 .. Len(groups) : groups[g] \in Groups
  <2> HIDE DEF Groups
  <2> QED  BY <1>1, Elements
<1>3. \A g \in DOMAIN groups : /\ groups[g].id \in V /\ groups[g].assembly \in V
                               /\ groups[g].version \in V /\ groups[g].prefix \in V
  BY <1>2 DEF Groups
<1> HIDE DEF V
<1>4. \A x, y \in V : << x, y >> \in Seq(V)
  OBVIOUS
<1>5. names \in Seq(Seq(V)) /\ versions \in Seq(Seq(V))
  <2> DEFINE W == Seq(V)
  <2>1. \A g \in DOMAIN groups : names[g] \in W /\ versions[g] \in W
    BY <1>3, <1>4
  <2>2. DOMAIN names = 1 .. Len(groups) /\ DOMAIN versions = 1 .. Len(groups)
    BY <1>2
  <2> HIDE DEF names, versions, W
  <2>3. names \in [1 .. Len(groups) -> W] /\ versions \in [1 .. Len(groups) -> W]
    <3>1. names = [g \in 1 .. Len(groups) |-> names[g]] /\ versions = [g \in 1 .. Len(groups) |-> versions[g]]
      BY <2>2 DEF names, versions
    <3> QED  BY <1>2, <2>1, <3>1
  <2>4. names \in Seq(W) /\ versions \in Seq(W)
    <3> DEFINE k == Len(groups)
    <3>1. k \in Nat /\ names \in [1..k -> W] /\ versions \in [1..k -> W]
      BY <1>2, <2>3
    <3> HIDE DEF k
    <3>2. ASSUME NEW f \in [1..k -> W] PROVE f \in Seq(W)
      BY <3>1
    <3> QED  BY <3>1, <3>2
  <2> QED  BY <2>4 DEF W
<1>6. FlattenSeq(names) \in Seq(V) /\ FlattenSeq(versions) \in Seq(V)
  <2> HIDE DEF names, versions
  <2> QED  BY <1>5, FlattenType
<1>7. n # Pointer
  <2>1. LET found == FirstLine(FlattenSeq(names), LAMBDA w : Stated(w) # Absent) IN
        (IF found = <<>> THEN Absent ELSE Head(found)) # Pointer
    <3> HIDE DEF names
    <3> QED  BY <1>6, FirstOfStated
  <2> QED  BY <2>1 DEF FirstStated
<1>8. v # Pointer
  <2>1. LET found == FirstLine(FlattenSeq(versions), LAMBDA w : Stated(w) # Absent) IN
        (IF found = <<>> THEN Absent ELSE Head(found)) # Pointer
    <3> HIDE DEF versions
    <3> QED  BY <1>6, FirstOfStated
  <2> QED  BY <2>1 DEF FirstStated
<1>9. FromProps(doc) = Identity(n, v)
  BY DEF FromProps, groups
<1> QED  BY <1>7, <1>8, <1>9

LEMMA PomIs ==
  ASSUME NEW doc, Document("pom.xml", doc)
  PROVE  \E n, v : n # Pointer /\ v # Pointer /\ FromPOM(doc) = Identity(n, v)
<1> DEFINE p == DecodePOM(doc)
           g == Stated(Or(p.group, p.parentGroup))
           a == Stated(p.artifact)
<1>1. doc.pom \in [group : Seq(STRING), artifact : Seq(STRING), version : Seq(STRING),
                   parentGroup : Seq(STRING), parentVersion : Seq(STRING)]
  BY DEF Document
<1>2. p.group \in Seq(STRING) /\ p.artifact \in Seq(STRING) /\ p.parentGroup \in Seq(STRING)
  <2>1. <<>> \in Seq(STRING)
    OBVIOUS
  <2>2. CASE doc.wellFormed
    BY <1>1, <2>2 DEF DecodePOM
  <2>3. CASE ~doc.wellFormed
    BY <2>1, <2>3 DEF DecodePOM, EmptyPOM, Absent
  <2> QED  BY <2>2, <2>3
<1> HIDE DEF p
<1>3. g \in Seq(STRING) /\ a \in Seq(STRING)
  <2>1. Absent \in Seq(STRING)
    BY DEF Absent
  <2> HIDE DEF Absent, Pointer
  <2> QED  BY <1>2, <2>1 DEF Stated, Or
<1> HIDE DEF g, a
<1>4. MavenName(g, a) # Pointer
  <2>1. CASE g = Absent \/ a = Absent
    BY <2>1, Marks DEF MavenName
  <2>2. CASE g # Absent /\ a # Absent
    <3>1. ASSUME NEW x \in Seq(STRING), x # <<>> PROVE Len(x) \in Nat /\ Len(x) >= 1
      BY <3>1
    <3>2. Len(g) \in Nat /\ Len(g) >= 1 /\ Len(a) \in Nat /\ Len(a) >= 1
      BY <1>3, <2>2, <3>1 DEF Absent
    <3>3. ASSUME NEW S, NEW x \in Seq(S), NEW c \in S, NEW y \in Seq(S)
          PROVE  Len(x \o << c >> \o y) = Len(x) + 1 + Len(y)
      OBVIOUS
    <3>4. Len(g \o << ":" >> \o a) = Len(g) + 1 + Len(a)
      <4> DEFINE S == STRING \cup {":"}
      <4>1. ASSUME NEW x \in Seq(STRING) PROVE x \in Seq(S)
        <5>1. ASSUME NEW A, NEW B, A \subseteq B, NEW s \in Seq(A) PROVE s \in Seq(B)
          BY <5>1
        <5>2. STRING \subseteq S
          OBVIOUS
        <5> HIDE DEF S
        <5> QED  BY <4>1, <5>1, <5>2
      <4>2. ":" \in S
        OBVIOUS
      <4> HIDE DEF S
      <4> QED  BY <1>3, <3>3, <4>1, <4>2
    <3>5. Len(Pointer) = 1
      BY DEF Pointer
    <3>6. Len(g \o << ":" >> \o a) # 1
      BY <3>2, <3>4
    <3> QED  BY <2>2, <3>5, <3>6 DEF MavenName
  <2> QED  BY <2>1, <2>2
<1>5. Stated(Or(p.version, p.parentVersion)) # Pointer
  BY StatedIs
<1>6. FromPOM(doc) = Identity(MavenName(g, a), Stated(Or(p.version, p.parentVersion)))
  BY DEF FromPOM, p, g, a
<1> QED  BY <1>4, <1>5, <1>6

LEMMA MajorVersion ==
  ASSUME NEW lines, ~FromGoMod(lines).failed
  PROVE  FromGoMod(lines).version \notin {Absent, Pointer}
<1> DEFINE module == Head(ScanModulePath(lines)).module
           last == << module[Len(module)] >>
           w == IF last \in MajorSuffixes /\ Len(module) > 1 THEN last ELSE Absent
<1>1. FromGoMod(lines) = Identity(module, w)
  BY DEF FromGoMod, Malformed
<1>2. \A x \in MajorSuffixes : x # Pointer
  <2>1. "v2" # "${}" /\ "v3" # "${}"
    OBVIOUS
  <2>2. <<"v2">>[1] = "v2" /\ <<"v3">>[1] = "v3" /\ <<"${}">>[1] = "${}"
    OBVIOUS
  <2> QED  BY <2>1, <2>2 DEF MajorSuffixes, Pointer
<1>3. w # Pointer
  BY <1>2, Marks
<1> HIDE DEF w, module
<1>4. FromGoMod(lines).version = Or(w, Unknown)
  BY <1>1 DEF Identity
<1> QED  BY <1>3, <1>4, Marks DEF Or

(* The identity a manifest gives is determined or marked not to be.         *)
LEMMA Determined ==
  ASSUME NEW m \in Range(Manifests), NEW doc, Document(m, doc), ~From(m, doc).failed
  PROVE  From(m, doc).name \notin {Absent, Pointer} /\ From(m, doc).version \notin {Absent, Pointer}
<1> DEFINE id == From(m, doc)
           Goal == id.name \notin {Absent, Pointer} /\ id.version \notin {Absent, Pointer}
<1> SUFFICES Goal
  OBVIOUS
<1>1. m \in { "CMakeLists.txt", "Cargo.toml", "Directory.Build.props", "Gemfile",
              "Package.swift", "composer.json", "go.mod", "package.json", "pom.xml",
              "pyproject.toml", "settings.gradle.kts" }
  BY Registered DEF Manifests
<1>2. ASSUME \E n, v : n # Pointer /\ v # Pointer /\ id = Identity(n, v) PROVE Goal
  <2> HIDE DEF id
  <2> QED  BY <1>2, Named
<1>3. \A w \in Written : w # Pointer
  BY DEF Written
<1>4. CASE m = "CMakeLists.txt"
  <2>1. id = FromCMake(doc)
    BY <1>4 DEF From
  <2> DEFINE call == ScanProjectCall(doc)
             args == Head(call).args
             versions == { i \in 2 .. Len(args) - 1 : args[i] = Keyword }
             v == IF versions = {} THEN Absent
                  ELSE Stated(args[1 + (CHOOSE i \in versions : \A j \in versions : i <= j)])
  <2>2. CASE call = <<>> \/ args = <<>>
    <3>1. id = Identity(Absent, Absent)
      BY <2>1, <2>2 DEF FromCMake, ProjectIdentity
    <3> HIDE DEF id
    <3> QED  BY <1>2, <3>1, Marks
  <2>3. CASE ~(call = <<>> \/ args = <<>>)
    <3>1. id = Identity(Stated(args[1]), v)
      BY <2>1, <2>3 DEF FromCMake, ProjectIdentity
    <3>2. v # Pointer /\ Stated(args[1]) # Pointer
      BY StatedIs, Marks
    <3> HIDE DEF id, v
    <3> QED  BY <1>2, <3>1, <3>2
  <2> QED  BY <2>2, <2>3
<1>5. CASE m \in {"Cargo.toml", "pyproject.toml"}
  <2>1. TomlDocument(doc)
    BY <1>5 DEF Document
  <2>2. PICK table : LET t == ScanTomlTable(doc, table) IN id = Identity(t.name, t.version)
    BY <1>5 DEF From, FromCargo, FromPyProject, ScanProjectTable
  <2> HIDE DEF id
  <2> QED  BY <1>2, <1>3, <2>1, <2>2, TomlIsRead
<1>6. CASE m = "Directory.Build.props"
  <2>1. id = FromProps(doc) /\ doc.groups \in Seq(Groups)
    BY <1>6 DEF From, Document, Groups
  <2> HIDE DEF id
  <2> QED  BY <1>2, <2>1, PropsIs
<1>7. CASE m = "Gemfile"
  <2>1. LockDocument(doc) /\ id = FromGemfile(doc)
    BY <1>7 DEF From, Document
  <2> HIDE DEF id
  <2> QED  BY <1>2, <1>3, <2>1, LockIsRead DEF FromGemfile
<1>8. CASE m = "Package.swift"
  <2>1. id = Identity(ScanPackageName(doc), Absent)
    BY <1>8 DEF From, FromSwiftPackage
  <2>2. ScanPackageName(doc) # Pointer
    <3>1. \E x : ScanPackageName(doc) = Absent \/ ScanPackageName(doc) = Stated(x)
      BY DEF ScanPackageName
    <3> QED  BY <3>1, StatedIs, Marks
  <2> HIDE DEF id
  <2> QED  BY <1>2, <2>1, <2>2, Marks
<1>9. CASE m = "settings.gradle.kts"
  <2>1. id = Identity(ScanRootProjectName(doc), Absent)
    BY <1>9 DEF From, FromGradleSettings
  <2>2. ScanRootProjectName(doc) # Pointer
    <3>1. \E x : ScanRootProjectName(doc) = Absent \/ ScanRootProjectName(doc) = Stated(x)
      BY DEF ScanRootProjectName
    <3> QED  BY <3>1, StatedIs, Marks
  <2> HIDE DEF id
  <2> QED  BY <1>2, <2>1, <2>2, Marks
<1>10. CASE m \in {"package.json", "composer.json"}
  <2>1. doc.name \in Written /\ doc.version \in Written
    BY <1>10 DEF Document
  <2>2. id = IF doc.wellFormed THEN Identity(doc.name, doc.version) ELSE Malformed
    BY <1>10 DEF From, FromPackageJSON, FromComposer
  <2>3. id = Identity(doc.name, doc.version)
    BY <2>2 DEF Malformed
  <2> HIDE DEF id
  <2> QED  BY <1>2, <1>3, <2>1, <2>3
<1>11. CASE m = "go.mod"
  <2>1. id = FromGoMod(doc) /\ doc \in Seq([directive : STRING, module : Written])
    BY <1>11 DEF From, Document
  <2>2. ~FromGoMod(doc).failed
    BY <2>1
  <2> HIDE DEF id
  <2> QED  BY <1>3, <2>1, <2>2, GoModName, MajorVersion DEF Absent
<1>12. CASE m = "pom.xml"
  <2>1. id = FromPOM(doc) /\ Document("pom.xml", doc)
    BY <1>12 DEF From
  <2> HIDE DEF id
  <2> QED  BY <1>2, <2>1, PomIs
<1> QED  BY <1>1, <1>4, <1>5, <1>6, <1>7, <1>8, <1>9, <1>10, <1>11, <1>12

(* An identity is what its manifest states, for every document: whatever    *)
(* multi-line strings, other tables, other blocks and variable references   *)
(* the scanners pass over.                                                  *)
THEOREM IdentitiesAreStated == Spec => []IdentityIsStated
<1>1. ASSUME IInv PROVE IdentityIsStated
  <2> DEFINE Same(t, m) ==
        LET doc == layout[t][Nearest(t)][m]
            c   == For(set[t], CHOOSE e \in ecosystems[m].exts : TRUE)
        IN
        /\ c.name \notin {Absent, Pointer} /\ c.version \notin {Absent, Pointer}
        /\ m = "Cargo.toml" => /\ c.name = Or(TomlValue(doc, "package", "name"), Unknown)
                               /\ c.version = Or(TomlValue(doc, "package", "version"), Unknown)
        /\ m = "pyproject.toml" => /\ c.name = Or(TomlValue(doc, "project", "name"), Unknown)
                                   /\ c.version = Or(TomlValue(doc, "project", "version"), Unknown)
        /\ m = "Gemfile" => IF LockedGems(doc) = {} THEN c.name = Unknown /\ c.version = Unknown
                            ELSE LET gem == doc[CHOOSE i \in LockedGems(doc) :
                                                  \A j \in LockedGems(doc) : i <= j]
                                 IN  c.name = Or(gem.name, Unknown) /\ c.version = Or(gem.version, Unknown)
  <2>0. (\A t \in Resolved : \A m \in DOMAIN layout[t][Nearest(t)] : Same(t, m)) => IdentityIsStated
    BY Zenon DEF IdentityIsStated
  <2> SUFFICES ASSUME NEW t \in Trees, outcome[t] = "resolved",
                      NEW m \in DOMAIN layout[t][Nearest(t)]
               PROVE  Same(t, m)
    <3> HIDE DEF Same
    <3> QED  BY <2>0, ResolvedIs
  <2> DEFINE doc == layout[t][Nearest(t)][m]
             e   == CHOOSE x \in ecosystems[m].exts : TRUE
             c   == For(set[t], e)
  <2>1. Nearest(t) = cur[t] /\ cur[t] \in Above /\ layout[t] \in Layouts
    BY <1>1, NearestIs DEF IInv, Typed
  <2>2. /\ cur[t] \in DOMAIN layout[t] /\ m \in Range(Manifests) /\ m \in DOMAIN Docs(t)
        /\ doc = Docs(t)[m]
    BY <2>1, Held DEF Docs
  <2>3. e \in Extensions /\ owner[e] = m
    <3>1. e \in ecosystems[m].exts
      BY <2>2, Owners
    <3> HIDE DEF e
    <3> QED  BY <2>2, <3>1, Owners
  <2>4. Document(m, doc)
    BY <2>1, <2>2, DocumentsAssumption DEF Docs
  <2>5. ~From(m, doc).failed
    BY <1>1, <2>2 DEF IInv, Decided
  <2> HIDE DEF doc, e
  <2>6. c.name = From(m, doc).name /\ c.version = From(m, doc).version
    BY <1>1, <2>2, <2>3, Entry
  <2> HIDE DEF c
  <2>7. c.name \notin {Absent, Pointer} /\ c.version \notin {Absent, Pointer}
    BY <2>2, <2>4, <2>5, <2>6, Determined
  <2>8. ASSUME NEW table, TomlDocument(doc),
               LET r == ScanTomlTable(doc, table) IN From(m, doc) = Identity(r.name, r.version)
        PROVE  /\ c.name = Or(TomlValue(doc, table, "name"), Unknown)
               /\ c.version = Or(TomlValue(doc, table, "version"), Unknown)
    <3>1. /\ ScanTomlTable(doc, table).name = TomlValue(doc, table, "name")
          /\ ScanTomlTable(doc, table).version = TomlValue(doc, table, "version")
      BY <2>8, TomlIsRead
    <3>2. /\ From(m, doc).name = Or(ScanTomlTable(doc, table).name, Unknown)
          /\ From(m, doc).version = Or(ScanTomlTable(doc, table).version, Unknown)
      BY <2>8 DEF Identity
    <3> QED  BY <2>6, <3>1, <3>2
  <2>9. m = "Cargo.toml" => /\ c.name = Or(TomlValue(doc, "package", "name"), Unknown)
                            /\ c.version = Or(TomlValue(doc, "package", "version"), Unknown)
    <3> HAVE m = "Cargo.toml"
    <3>1. TomlDocument(doc)
      BY <2>4 DEF Document
    <3>2. LET r == ScanTomlTable(doc, "package") IN From(m, doc) = Identity(r.name, r.version)
      BY DEF From, FromCargo
    <3> QED  BY <2>8, <3>1, <3>2
  <2>10. m = "pyproject.toml" => /\ c.name = Or(TomlValue(doc, "project", "name"), Unknown)
                                 /\ c.version = Or(TomlValue(doc, "project", "version"), Unknown)
    <3> HAVE m = "pyproject.toml"
    <3>1. TomlDocument(doc)
      BY <2>4 DEF Document
    <3>2. LET r == ScanTomlTable(doc, "project") IN From(m, doc) = Identity(r.name, r.version)
      BY DEF From, FromPyProject, ScanProjectTable
    <3> QED  BY <2>8, <3>1, <3>2
  <2>11. m = "Gemfile" =>
           IF LockedGems(doc) = {} THEN c.name = Unknown /\ c.version = Unknown
           ELSE LET gem == doc[CHOOSE i \in LockedGems(doc) : \A j \in LockedGems(doc) : i <= j]
                IN  c.name = Or(gem.name, Unknown) /\ c.version = Or(gem.version, Unknown)
    <3> HAVE m = "Gemfile"
    <3> DEFINE gem == ScanLockPathSection(doc)
    <3>1. LockDocument(doc)
      BY <2>4 DEF Document
    <3>2. From(m, doc) = Identity(gem.name, gem.version)
      BY DEF From, FromGemfile
    <3>3. c.name = Or(gem.name, Unknown) /\ c.version = Or(gem.version, Unknown)
      <4> HIDE DEF gem
      <4> QED  BY <2>6, <3>2 DEF Identity
    <3>4. IF LockedGems(doc) = {} THEN gem.name = Absent /\ gem.version = Absent
          ELSE LET i == CHOOSE i \in LockedGems(doc) : \A j \in LockedGems(doc) : i <= j
               IN  gem.name = doc[i].name /\ gem.version = doc[i].version
      BY <3>1, LockIsRead
    <3> HIDE DEF gem
    <3>5. CASE LockedGems(doc) = {}
      BY <3>3, <3>4, <3>5 DEF Or
    <3>6. CASE LockedGems(doc) # {}
      BY <3>3, <3>4, <3>6
    <3> QED  BY <3>5, <3>6
  <2> QED  BY <2>7, <2>9, <2>10, <2>11 DEF doc, c, e
<1> QED  BY <1>1, CoordsInvariant, PTL
=============================================================================
