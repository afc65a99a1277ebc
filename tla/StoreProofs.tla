---------------------------- MODULE StoreProofs ----------------------------
(***************************************************************************)
(* The loads of single files (Store), for any loaders, any facts and any    *)
(* number of loads. The invariant names the load each committed row came    *)
(* from; a row of one load is told from every other load's by its file or   *)
(* by the number in its ids, so a transaction that deletes what it finds of *)
(* its file deletes the rows of one load exactly.                           *)
(***************************************************************************)
EXTENDS Store, ArtifactStore, TLAPS

\* What a load writes: the tables of flatten.
Base     == {"scope", "occurrence", "defines", "contains_scope", "contains_occurrence",
             "references_local"}
OwnEdges == {"defines", "contains_scope", "contains_occurrence", "references_local"}

\* The rows of a load of the history; the loads of x's path and their rows; x's own.
Rows(h)             == flatten(h.ff, h.load, h.id)
Owner(x, hist)      == { h \in hist : h.ff.path = x.ff.path }
OldRows(x, hist, t) == UNION { Rows(h)[t] : h \in Owner(x, hist) }
NewRows(x, t)       == flatten(x.ff, x.load, x.id)[t]

\* A transaction is open; and past LockFilePath, so it holds its path.
Live(x)    == x.stage # "idle"
Holding(x) == x.stage \in {"locked", "resolved", "delete", "insert", "loaded"}

\* The history names one load per path, each with a file and a number of its own.
Distinct ==
  /\ loads \in Nat /\ loads <= MaxLoads
  /\ \A h \in last : /\ Flattens(h.ff) /\ h.ff.parseError = ""
                     /\ h.load \in Int /\ h.load <= loads
                     /\ h.id.load \in Int /\ h.id.load <= loads /\ h.id = FileId(h.id.load)
  /\ \A g, h \in last : g.ff.path = h.ff.path \/ g.load = h.load \/ g.id = h.id => g = h

\* The number of a load in flight is in no id that is committed, nor in another load.
Fresh ==
  /\ \A l \in Loaders : Live(txn[l]) =>
       /\ txn[l].load \in 1..loads
       /\ \A h \in last : h.load # txn[l].load /\ h.id.load # txn[l].load
  /\ \A k, l \in Loaders : Live(txn[k]) /\ Live(txn[l]) /\ txn[k].load = txn[l].load => k = l

\* Two loads past LockFilePath have two paths.
PathsHeld ==
  \A k, l \in Loaders :
    Holding(txn[k]) /\ Holding(txn[l]) /\ txn[k].ff.path = txn[l].ff.path => k = l

\* The tables are the rows of the history, and derived edges and imports.
Committed ==
  /\ DOMAIN db = Tables
  /\ db.file = { FileRow(h.id, h.ff) : h \in last }
  /\ \A t \in Base : db[t] = UNION { Rows(h)[t] : h \in last }
  /\ \A t \in Edges : \A r \in db[t] : DOMAIN r = {"source", "target"}

\* f is g, or what the artifact made of it.
Same(f, g) == f = g \/ (Encodable(g) /\ f = decode(encode(g)))

Given(x) ==
  /\ x.given.parseError = "" /\ Same(x.ff, x.given)
  /\ DOMAIN x = {"stage", "given", "ff", "load", "id", "step", "dels", "adds", "locks"}
  /\ DOMAIN x.dels = Tables /\ DOMAIN x.adds = Tables

\* The load has its file: the one of its path, or an id no file has. What it has
\* deleted and written outside the tables of Base.
Resolved(x, hist) ==
  /\ \A h \in hist : h.id = x.id <=> h.ff.path = x.ff.path
  /\ Owner(x, hist) = {} => x.id = FileId(x.load)
  /\ x.dels.file = { FileRow(h.id, h.ff) : h \in Owner(x, hist) }
  /\ x.adds.file = { FileRow(x.id, x.ff) }
  /\ \A t \in Tables \ (Base \cup {"file"}) : x.adds[t] = {}
  /\ \A r \in x.dels.imports : r.source = x.id

\* What the step (t, how) of deleteFile leaves behind it: of a table of Base, none
\* of the old rows; of a derived table, no row with this end in an old occurrence.
Gone(x, d, hist, t, how) ==
  /\ t \in Base => OldRows(x, hist, t) \subseteq x.dels[t]
  /\ t \in Range(Derived) /\ how \in {"source", "target"} =>
       \A r \in d[t] \ x.dels[t] : \A q \in OldRows(x, hist, "occurrence") : r[how] # q.id

\* The steps before x.step are done, and the vertices stay until their turn.
Deleting(x, d, hist) ==
  /\ Flattens(x.ff) /\ x.step \in 1..23
  /\ \A t \in Base : x.dels[t] \subseteq OldRows(x, hist, t) /\ x.adds[t] = {}
  /\ \A k \in 1..23 : k < x.step => Gone(x, d, hist, deleteFile[k][1], deleteFile[k][2])
  /\ x.step <= 22 => x.dels["occurrence"] = {}
  /\ x.dels["scope"] = {}

\* The old rows are gone and the first n - 1 tables of insertRows are copied.
Inserting(x, hist, n) ==
  /\ Flattens(x.ff) /\ x.step \in 1..6
  /\ \A t \in Base : x.dels[t] = OldRows(x, hist, t)
  /\ \A k \in 1..6 : x.adds[insertRows[k]] = IF k < n THEN NewRows(x, insertRows[k]) ELSE {}

\* How far the transaction x is, over the tables d and the history hist.
Progress(x, d, hist) ==
  \/ x.stage \in {"begun", "linking", "locked"} /\ x.step = 1 /\ x.dels = Empty /\ x.adds = Empty
  \/ /\ x.stage = "resolved" /\ Resolved(x, hist) /\ x.step = 1
     /\ \A t \in Base : x.dels[t] = {} /\ x.adds[t] = {}
  \/ x.stage = "delete" /\ Resolved(x, hist) /\ Deleting(x, d, hist)
  \/ x.stage = "insert" /\ Resolved(x, hist) /\ Inserting(x, hist, x.step)
  \/ x.stage = "loaded" /\ Resolved(x, hist) /\ Inserting(x, hist, 7)

Sound ==
  /\ DOMAIN txn = Loaders
  /\ \A l \in Loaders : Live(txn[l]) => Given(txn[l]) /\ Progress(txn[l], db, last)

\* No load was refused.
Outcomes ==
  /\ DOMAIN end = Loaders
  /\ \A l \in Loaders : end[l] \in {"none", "committed", "skipped", "invalid"}

Inv == Distinct /\ Fresh /\ PathsHeld /\ Committed /\ Sound /\ Outcomes

(* A load writes the six tables of its own rows.                            *)
LEMMA Columns ==
  ASSUME NEW ff, NEW load, NEW file
  PROVE  DOMAIN flatten(ff, load, file) = Base
BY DEF flatten, Base

(* flatten's vertices carry the file's id, their load and a range the       *)
(* columns hold, and every local id has its vertex.                         *)
LEMMA FlattenVertices ==
  ASSUME NEW ff, NEW load, NEW file, Flattens(ff)
  PROVE  /\ \A r \in flatten(ff, load, file).scope :
              r.file = file /\ r.from <= r.to /\ r.to <= MaxOffset /\ r.id.load = load
         /\ \A r \in flatten(ff, load, file).occurrence :
              r.file = file /\ r.from <= r.to /\ r.to <= MaxOffset /\ r.id.load = load
         /\ \A i \in Ids(ff.scopes) : \E q \in flatten(ff, load, file).scope :
              q.id = UUID(load, "scope", i)
         /\ \A i \in Ids(ff.occurrences) : \E q \in flatten(ff, load, file).occurrence :
              q.id = UUID(load, "occurrence", i)
<1>1. \A s \in Range(ff.scopes) : s.id # NoID /\ s.from <= s.to /\ s.to <= MaxOffset
  BY DEF Flattens, NumberedOnce, Ids, span
<1>2. \A o \in Range(ff.occurrences) : o.from <= o.to /\ o.to <= MaxOffset
  BY DEF Flattens, span
<1>3. ASSUME NEW r \in flatten(ff, load, file).scope
      PROVE r.file = file /\ r.from <= r.to /\ r.to <= MaxOffset /\ r.id.load = load
  BY <1>1, <1>3 DEF flatten, UUID
<1>4. ASSUME NEW r \in flatten(ff, load, file).occurrence
      PROVE r.file = file /\ r.from <= r.to /\ r.to <= MaxOffset /\ r.id.load = load
  BY <1>2, <1>4 DEF flatten, UUID
<1>5. ASSUME NEW s \in Range(ff.scopes)
      PROVE \E q \in flatten(ff, load, file).scope : q.id = UUID(load, "scope", s.id)
  <2> DEFINE row(x) ==
        [id |-> IF x.id = NoID THEN Null ELSE UUID(load, "scope", x.id), file |-> file,
         kind |-> x.kind, from |-> x.from, to |-> x.to,
         parent |-> IF x.parent = NoID THEN Null ELSE UUID(load, "scope", x.parent)]
  <2>1. flatten(ff, load, file).scope = { row(x) : x \in Range(ff.scopes) }
    BY DEF flatten
  <2>2. row(s).id = UUID(load, "scope", s.id)
    BY <1>1
  <2> HIDE DEF row
  <2> QED BY <2>1, <2>2
<1>6. ASSUME NEW o \in Range(ff.occurrences)
      PROVE \E q \in flatten(ff, load, file).occurrence : q.id = UUID(load, "occurrence", o.id)
  <2> DEFINE row(x) ==
        [id |-> UUID(load, "occurrence", x.id), file |-> file, desc |-> x.desc, role |-> x.role,
         from |-> x.from, to |-> x.to,
         scope |-> IF x.scope = NoID THEN Null ELSE UUID(load, "scope", x.scope)]
  <2>1. flatten(ff, load, file).occurrence = { row(x) : x \in Range(ff.occurrences) }
    BY DEF flatten
  <2>2. row(o).id = UUID(load, "occurrence", o.id)
    OBVIOUS
  <2> HIDE DEF row
  <2> QED BY <2>1, <2>2
<1> QED BY <1>3, <1>4, <1>5, <1>6 DEF Ids

(* The ends of flatten's edges are the file or vertices flatten makes of    *)
(* the same facts, so no edge of a file leaves it.                          *)
LEMMA FlattenEnds ==
  ASSUME NEW ff, NEW load, NEW file, Flattens(ff), NEW t \in OwnEdges,
         NEW r \in flatten(ff, load, file)[t]
  PROVE  /\ DOMAIN r = {"source", "target"}
         /\ r.target.load = load
         /\ \A side \in {"source", "target"} :
              /\ Ends(t)[side] = "file" => r[side] = file
              /\ Ends(t)[side] # "file" =>
                   \E q \in flatten(ff, load, file)[Ends(t)[side]] : q.id = r[side]
<1> DEFINE tip(ref) == IF ref.vertex = "file" THEN file ELSE UUID(load, ref.vertex, ref.id)
           rows == flatten(ff, load, file)
<1>1. rows[t] = { [source |-> tip(e.source), target |-> tip(e.target)] :
                       e \in { x \in Range(ff.edges) : TableOf(x) = t } }
  BY DEF flatten, OwnEdges
<1>2. PICK e \in Range(ff.edges) : TableOf(e) = t /\ r = [source |-> tip(e.source), target |-> tip(e.target)]
  BY <1>1
<1>3. endpoints(ff, e)
  BY DEF Flattens
<1>4. /\ \A i \in Ids(ff.scopes) : \E q \in rows.scope : q.id = UUID(load, "scope", i)
      /\ \A i \in Ids(ff.occurrences) : \E q \in rows.occurrence : q.id = UUID(load, "occurrence", i)
  BY FlattenVertices
<1> HIDE DEF rows
<1>5. DOMAIN r = {"source", "target"} /\ r.source = tip(e.source) /\ r.target = tip(e.target)
  BY <1>2
<1>6. CASE t = "defines"
  <2>1. e.source.vertex = "file" /\ e.target.vertex = "occurrence" /\ e.target.id \in Ids(ff.occurrences)
    BY <1>2, <1>3, <1>6 DEF endpoints, TableOf, resolveRef
  <2>2. r.target = UUID(load, e.target.vertex, e.target.id)
    BY <1>5, <2>1
  <2>3. r.source = IF t = "defines" THEN file ELSE UUID(load, e.source.vertex, e.source.id)
    BY <1>5, <1>6, <2>1
  <2>4. r.target.load = load
    BY <2>2 DEF UUID
  <2>5. ASSUME NEW side \in {"source", "target"}
        PROVE  /\ Ends(t)[side] = "file" => r[side] = file
               /\ Ends(t)[side] # "file" => \E q \in rows[Ends(t)[side]] : q.id = r[side]
    <3>1. CASE side = "source"
      BY <1>4, <1>6, <2>1, <2>3, <3>1 DEF Ends
    <3>2. CASE side = "target"
      BY <1>4, <1>6, <2>1, <2>2, <3>2 DEF Ends
    <3> QED BY <3>1, <3>2
  <2> QED BY <1>5, <2>4, <2>5 DEF rows
<1>7. CASE t = "references_local"
  <2>1. /\ e.source.vertex = "occurrence" /\ e.source.id \in Ids(ff.occurrences)
        /\ e.target.vertex = "occurrence" /\ e.target.id \in Ids(ff.occurrences)
    BY <1>2, <1>3, <1>7 DEF endpoints, TableOf, resolveRef
  <2>2. r.target = UUID(load, e.target.vertex, e.target.id)
    BY <1>5, <2>1
  <2>3. r.source = IF t = "defines" THEN file ELSE UUID(load, e.source.vertex, e.source.id)
    BY <1>5, <1>7, <2>1
  <2>4. r.target.load = load
    BY <2>2 DEF UUID
  <2>5. ASSUME NEW side \in {"source", "target"}
        PROVE  /\ Ends(t)[side] = "file" => r[side] = file
               /\ Ends(t)[side] # "file" => \E q \in rows[Ends(t)[side]] : q.id = r[side]
    <3>1. CASE side = "source"
      BY <1>4, <1>7, <2>1, <2>3, <3>1 DEF Ends
    <3>2. CASE side = "target"
      BY <1>4, <1>7, <2>1, <2>2, <3>2 DEF Ends
    <3> QED BY <3>1, <3>2
  <2> QED BY <1>5, <2>4, <2>5 DEF rows
<1>8. CASE t = "contains_scope"
  <2>1. /\ e.source.vertex = "scope" /\ e.source.id \in Ids(ff.scopes)
        /\ e.target.vertex = "scope" /\ e.target.id \in Ids(ff.scopes)
    BY <1>2, <1>3, <1>8 DEF endpoints, TableOf, resolveRef
  <2>2. r.target = UUID(load, e.target.vertex, e.target.id)
    BY <1>5, <2>1
  <2>3. r.source = IF t = "defines" THEN file ELSE UUID(load, e.source.vertex, e.source.id)
    BY <1>5, <1>8, <2>1
  <2>4. r.target.load = load
    BY <2>2 DEF UUID
  <2>5. ASSUME NEW side \in {"source", "target"}
        PROVE  /\ Ends(t)[side] = "file" => r[side] = file
               /\ Ends(t)[side] # "file" => \E q \in rows[Ends(t)[side]] : q.id = r[side]
    <3>1. CASE side = "source"
      BY <1>4, <1>8, <2>1, <2>3, <3>1 DEF Ends
    <3>2. CASE side = "target"
      BY <1>4, <1>8, <2>1, <2>2, <3>2 DEF Ends
    <3> QED BY <3>1, <3>2
  <2> QED BY <1>5, <2>4, <2>5 DEF rows
<1>9. CASE t = "contains_occurrence"
  <2>1. /\ e.source.vertex = "scope" /\ e.source.id \in Ids(ff.scopes)
        /\ e.target.vertex = "occurrence" /\ e.target.id \in Ids(ff.occurrences)
    BY <1>2, <1>3, <1>9 DEF endpoints, TableOf, resolveRef
  <2>2. r.target = UUID(load, e.target.vertex, e.target.id)
    BY <1>5, <2>1
  <2>3. r.source = IF t = "defines" THEN file ELSE UUID(load, e.source.vertex, e.source.id)
    BY <1>5, <1>9, <2>1
  <2>4. r.target.load = load
    BY <2>2 DEF UUID
  <2>5. ASSUME NEW side \in {"source", "target"}
        PROVE  /\ Ends(t)[side] = "file" => r[side] = file
               /\ Ends(t)[side] # "file" => \E q \in rows[Ends(t)[side]] : q.id = r[side]
    <3>1. CASE side = "source"
      BY <1>4, <1>9, <2>1, <2>3, <3>1 DEF Ends
    <3>2. CASE side = "target"
      BY <1>4, <1>9, <2>1, <2>2, <3>2 DEF Ends
    <3> QED BY <3>1, <3>2
  <2> QED BY <1>5, <2>4, <2>5 DEF rows
<1> QED BY <1>6, <1>7, <1>8, <1>9 DEF OwnEdges

(* The codec's references survive the artifact.                             *)
LEMMA DecodeRef ==
  ASSUME NEW r, r.vertex \in DOMAIN vertexKinds
  PROVE  decodeRef(encodeRef(r)) = [vertex |-> r.vertex, id |-> r.id]
BY DEF decodeRef, encodeRef, Key, vertexKinds

(* The codec's edge kinds survive the artifact.                             *)
LEMMA DecodeKind ==
  ASSUME NEW k \in DOMAIN edgeKinds
  PROVE  Key(edgeKinds, edgeKinds[k]) = k
BY DEF Key, edgeKinds

-----------------------------------------------------------------------------
(* The artifact loses nothing the store reads.                              *)

(* Facts that differ in nothing the store reads.                            *)
Alike(f, g) ==
  /\ f.path = g.path /\ f.lang = g.lang /\ f.coord = g.coord /\ f.parseError = g.parseError
  /\ DOMAIN f.scopes = DOMAIN g.scopes
  /\ DOMAIN f.occurrences = DOMAIN g.occurrences
  /\ DOMAIN f.edges = DOMAIN g.edges
  /\ \A i \in DOMAIN g.scopes :
       /\ f.scopes[i].id = g.scopes[i].id /\ f.scopes[i].kind = g.scopes[i].kind
       /\ f.scopes[i].from = g.scopes[i].from /\ f.scopes[i].to = g.scopes[i].to
       /\ f.scopes[i].parent = g.scopes[i].parent
  /\ \A i \in DOMAIN g.occurrences :
       /\ f.occurrences[i].id = g.occurrences[i].id /\ f.occurrences[i].desc = g.occurrences[i].desc
       /\ f.occurrences[i].role = g.occurrences[i].role
       /\ f.occurrences[i].from = g.occurrences[i].from /\ f.occurrences[i].to = g.occurrences[i].to
       /\ f.occurrences[i].scope = g.occurrences[i].scope
  /\ \A i \in DOMAIN g.edges :
       /\ f.edges[i].kind = g.edges[i].kind
       /\ f.edges[i].source.vertex = g.edges[i].source.vertex
       /\ f.edges[i].source.id = g.edges[i].source.id
       /\ f.edges[i].target.vertex = g.edges[i].target.vertex
       /\ f.edges[i].target.id = g.edges[i].target.id

(* What decode makes of an encoded artifact differs from the facts in       *)
(* nothing the store reads.                                                 *)
LEMMA RoundTrip ==
  ASSUME NEW g, Encodable(g)
  PROVE  Alike(decode(encode(g)), g)
<1> DEFINE f == decode(encode(g))
<1>1. ASSUME NEW e \in Range(g.edges)
      PROVE  /\ Key(edgeKinds, edgeKinds[e.kind]) = e.kind
             /\ decodeRef(encodeRef(e.source)) = [vertex |-> e.source.vertex, id |-> e.source.id]
             /\ decodeRef(encodeRef(e.target)) = [vertex |-> e.target.vertex, id |-> e.target.id]
  BY DecodeRef, DecodeKind, <1>1 DEF Encodable
<1>2. ASSUME NEW i \in DOMAIN g.edges PROVE g.edges[i] \in Range(g.edges)
  BY <1>2 DEF Range
<1>3. /\ f.path = g.path /\ f.lang = g.lang /\ f.coord = g.coord /\ f.parseError = g.parseError
      /\ DOMAIN f.scopes = DOMAIN g.scopes
      /\ DOMAIN f.occurrences = DOMAIN g.occurrences
      /\ DOMAIN f.edges = DOMAIN g.edges
  BY DEF decode, encode
<1>4. ASSUME NEW i \in DOMAIN g.scopes
      PROVE  /\ f.scopes[i].id = g.scopes[i].id /\ f.scopes[i].kind = g.scopes[i].kind
             /\ f.scopes[i].from = g.scopes[i].from /\ f.scopes[i].to = g.scopes[i].to
             /\ f.scopes[i].parent = g.scopes[i].parent
  BY <1>4 DEF decode, encode
<1>5. ASSUME NEW i \in DOMAIN g.occurrences
      PROVE  /\ f.occurrences[i].id = g.occurrences[i].id /\ f.occurrences[i].desc = g.occurrences[i].desc
             /\ f.occurrences[i].role = g.occurrences[i].role
             /\ f.occurrences[i].from = g.occurrences[i].from /\ f.occurrences[i].to = g.occurrences[i].to
             /\ f.occurrences[i].scope = g.occurrences[i].scope
  BY <1>5 DEF decode, encode
<1>6. ASSUME NEW i \in DOMAIN g.edges
      PROVE  /\ f.edges[i].kind = Key(edgeKinds, edgeKinds[g.edges[i].kind])
             /\ f.edges[i].source = decodeRef(encodeRef(g.edges[i].source))
             /\ f.edges[i].target = decodeRef(encodeRef(g.edges[i].target))
  BY <1>6 DEF decode, encode
<1>7. ASSUME NEW i \in DOMAIN g.edges
      PROVE  /\ f.edges[i].kind = g.edges[i].kind
             /\ f.edges[i].source.vertex = g.edges[i].source.vertex
             /\ f.edges[i].source.id = g.edges[i].source.id
             /\ f.edges[i].target.vertex = g.edges[i].target.vertex
             /\ f.edges[i].target.id = g.edges[i].target.id
  <2> DEFINE e == g.edges[i]
  <2>1. e \in Range(g.edges)
    BY <1>2, <1>7
  <2>2. /\ Key(edgeKinds, edgeKinds[e.kind]) = e.kind
        /\ decodeRef(encodeRef(e.source)) = [vertex |-> e.source.vertex, id |-> e.source.id]
        /\ decodeRef(encodeRef(e.target)) = [vertex |-> e.target.vertex, id |-> e.target.id]
    BY <1>1, <2>1
  <2> HIDE DEF f
  <2> QED BY <1>6, <1>7, <2>2
<1> HIDE DEF f
<1>8. Alike(f, g)
  BY <1>3, <1>4, <1>5, <1>7 DEF Alike
<1> QED BY <1>8 DEF f

(* Alike facts declare the same local ids.                                  *)
LEMMA AlikeIds ==
  ASSUME NEW f, NEW g, Alike(f, g)
  PROVE  Ids(f.scopes) = Ids(g.scopes) /\ Ids(f.occurrences) = Ids(g.occurrences)
<1>1. Ids(f.scopes) = { f.scopes[i].id : i \in DOMAIN f.scopes }
  BY DEF Ids, Range
<1>2. Ids(g.scopes) = { g.scopes[i].id : i \in DOMAIN g.scopes }
  BY DEF Ids, Range
<1>3. Ids(f.occurrences) = { f.occurrences[i].id : i \in DOMAIN f.occurrences }
  BY DEF Ids, Range
<1>4. Ids(g.occurrences) = { g.occurrences[i].id : i \in DOMAIN g.occurrences }
  BY DEF Ids, Range
<1> QED BY <1>1, <1>2, <1>3, <1>4 DEF Alike

(* flatten's checks accept alike facts alike.                               *)
LEMMA AlikeFlattens ==
  ASSUME NEW f, NEW g, Alike(f, g), Flattens(f)
  PROVE  Flattens(g)
<1> DEFINE sc == Ids(g.scopes)
           oc == Ids(g.occurrences)
<1>1. sc = Ids(f.scopes) /\ oc = Ids(f.occurrences)
  BY AlikeIds
<1>2. NumberedOnce(g.scopes) /\ NumberedOnce(g.occurrences)
  <2>1. NumberedOnce(f.scopes) /\ NumberedOnce(f.occurrences)
    BY DEF Flattens
  <2>2. \A i, j \in DOMAIN g.scopes : g.scopes[i].id = g.scopes[j].id => i = j
    <3> TAKE i, j \in DOMAIN g.scopes
    <3>1. f.scopes[i].id = g.scopes[i].id /\ f.scopes[j].id = g.scopes[j].id
      BY DEF Alike
    <3>2. i \in DOMAIN f.scopes /\ j \in DOMAIN f.scopes
      BY DEF Alike
    <3> QED BY <2>1, <3>1, <3>2 DEF NumberedOnce
  <2>3. \A i, j \in DOMAIN g.occurrences : g.occurrences[i].id = g.occurrences[j].id => i = j
    <3> TAKE i, j \in DOMAIN g.occurrences
    <3>1. f.occurrences[i].id = g.occurrences[i].id /\ f.occurrences[j].id = g.occurrences[j].id
      BY DEF Alike
    <3>2. i \in DOMAIN f.occurrences /\ j \in DOMAIN f.occurrences
      BY DEF Alike
    <3> QED BY <2>1, <3>1, <3>2 DEF NumberedOnce
  <2> QED BY AlikeIds, <2>1, <2>2, <2>3 DEF NumberedOnce
<1>3. ASSUME NEW i \in DOMAIN g.scopes
      PROVE  span(g.scopes[i]) /\ optional(sc, g.scopes[i].parent)
  <2>1. f.scopes[i] \in Range(f.scopes)
    BY <1>3 DEF Alike, Range
  <2>2. span(f.scopes[i]) /\ optional(sc, f.scopes[i].parent)
    BY <1>1, <2>1 DEF Flattens
  <2> HIDE DEF sc
  <2> QED BY <1>3, <2>2 DEF Alike, span, optional
<1>4. ASSUME NEW i \in DOMAIN g.occurrences
      PROVE  span(g.occurrences[i]) /\ optional(sc, g.occurrences[i].scope)
  <2>1. f.occurrences[i] \in Range(f.occurrences)
    BY <1>4 DEF Alike, Range
  <2>2. span(f.occurrences[i]) /\ optional(sc, f.occurrences[i].scope)
    BY <1>1, <2>1 DEF Flattens
  <2> HIDE DEF sc
  <2> QED BY <1>4, <2>2 DEF Alike, span, optional
<1>5. ASSUME NEW i \in DOMAIN g.edges
      PROVE  endpoints(g, g.edges[i]) /\ TableOf(g.edges[i]) # "none"
  <2>1. f.edges[i] \in Range(f.edges)
    BY <1>5 DEF Alike, Range
  <2>2. endpoints(f, f.edges[i]) /\ TableOf(f.edges[i]) # "none"
    BY <2>1 DEF Flattens
  <2>3. TableOf(g.edges[i]) # "none"
    BY <1>5, <2>2 DEF Alike, TableOf
  <2>4. /\ f.edges[i].kind = g.edges[i].kind
        /\ f.edges[i].source.vertex = g.edges[i].source.vertex
        /\ f.edges[i].source.id = g.edges[i].source.id
        /\ f.edges[i].target.vertex = g.edges[i].target.vertex
        /\ f.edges[i].target.id = g.edges[i].target.id
    BY <1>5 DEF Alike
  <2>5. endpoints(g, g.edges[i])
    <3> HIDE DEF sc, oc
    <3> DEFINE a == f.edges[i]
               b == g.edges[i]
    <3>1. endpoints(f, a) /\ a.kind = b.kind /\ a.source.vertex = b.source.vertex
          /\ a.source.id = b.source.id /\ a.target.vertex = b.target.vertex
          /\ a.target.id = b.target.id
      BY <2>2, <2>4
    <3>2. Ids(f.scopes) = Ids(g.scopes) /\ Ids(f.occurrences) = Ids(g.occurrences)
      BY AlikeIds
    <3> HIDE DEF a, b
    <3>3. ASSUME NEW w PROVE /\ resolveRef(f, a.source, w) = resolveRef(g, b.source, w)
                             /\ resolveRef(f, a.target, w) = resolveRef(g, b.target, w)
      BY <3>1, <3>2 DEF resolveRef
    <3>4. endpoints(g, b)
      BY <3>1, <3>3 DEF endpoints
    <3> QED BY <3>4 DEF b
  <2> QED BY <2>3, <2>5
<1>6. \A s \in Range(g.scopes) : span(s) /\ optional(sc, s.parent)
  BY <1>3 DEF Range
<1>7. \A o \in Range(g.occurrences) : span(o) /\ optional(sc, o.scope)
  BY <1>4 DEF Range
<1>8. \A e \in Range(g.edges) : endpoints(g, e) /\ TableOf(e) # "none"
  BY <1>5 DEF Range
<1> QED BY <1>2, <1>6, <1>7, <1>8 DEF Flattens

(* flatten makes the same rows of alike facts.                              *)
LEMMA AlikeRows ==
  ASSUME NEW f, NEW g, NEW load, NEW file, Alike(f, g)
  PROVE  flatten(f, load, file) = flatten(g, load, file)
<1> DEFINE scope(id) == IF id = NoID THEN Null ELSE UUID(load, "scope", id)
           tip(ref)  == IF ref.vertex = "file" THEN file ELSE UUID(load, ref.vertex, ref.id)
           edges(h, t) == { [source |-> tip(e.source), target |-> tip(e.target)] :
                               e \in { x \in Range(h.edges) : TableOf(x) = t } }
           edge(e) == [source |-> tip(e.source), target |-> tip(e.target)]
           srow(s) == [id |-> scope(s.id), file |-> file, kind |-> s.kind, from |-> s.from,
                       to |-> s.to, parent |-> scope(s.parent)]
           orow(o) == [id |-> UUID(load, "occurrence", o.id), file |-> file, desc |-> o.desc,
                       role |-> o.role, from |-> o.from, to |-> o.to, scope |-> scope(o.scope)]
<1>1. \A h : flatten(h, load, file) =
        [scope |-> { srow(s) : s \in Range(h.scopes) },
         occurrence |-> { orow(o) : o \in Range(h.occurrences) },
         defines |-> edges(h, "defines"),
         contains_scope |-> edges(h, "contains_scope"),
         contains_occurrence |-> edges(h, "contains_occurrence"),
         references_local |-> edges(h, "references_local")]
  BY DEF flatten
<1>2. \A h : { srow(s) : s \in Range(h.scopes) } = { srow(h.scopes[i]) : i \in DOMAIN h.scopes }
  <2> HIDE DEF srow
  <2> QED BY DEF Range
<1>3. \A i \in DOMAIN g.scopes : srow(f.scopes[i]) = srow(g.scopes[i])
  BY DEF Alike
<1>4. { srow(s) : s \in Range(f.scopes) } = { srow(s) : s \in Range(g.scopes) }
  <2>1. DOMAIN f.scopes = DOMAIN g.scopes
    BY DEF Alike
  <2> HIDE DEF srow
  <2> QED BY <1>2, <1>3, <2>1
<1>5. \A h : { orow(s) : s \in Range(h.occurrences) } = { orow(h.occurrences[i]) : i \in DOMAIN h.occurrences }
  <2> HIDE DEF orow
  <2> QED BY DEF Range
<1>6. \A i \in DOMAIN g.occurrences : orow(f.occurrences[i]) = orow(g.occurrences[i])
  BY DEF Alike
<1>7. { orow(s) : s \in Range(f.occurrences) } = { orow(s) : s \in Range(g.occurrences) }
  <2>1. DOMAIN f.occurrences = DOMAIN g.occurrences
    BY DEF Alike
  <2> HIDE DEF orow
  <2> QED BY <1>5, <1>6, <2>1
<1>8. \A i \in DOMAIN g.edges : /\ edge(f.edges[i]) = edge(g.edges[i])
                                /\ TableOf(f.edges[i]) = TableOf(g.edges[i])
  BY DEF Alike, TableOf
<1>9. ASSUME NEW t PROVE edges(f, t) = edges(g, t)
  <2>1. DOMAIN f.edges = DOMAIN g.edges
    BY DEF Alike
  <2>2. \A h : edges(h, t) = { edge(h.edges[i]) : i \in { j \in DOMAIN h.edges : TableOf(h.edges[j]) = t } }
    <3>1. \A h : edges(h, t) = { edge(e) : e \in { x \in Range(h.edges) : TableOf(x) = t } }
      OBVIOUS
    <3> HIDE DEF edge, edges
    <3> QED BY <3>1 DEF Range
  <2> HIDE DEF edge, edges
  <2> QED BY <1>8, <2>1, <2>2
<1> HIDE DEF edges, srow, orow
<1>10. /\ edges(f, "defines") = edges(g, "defines")
       /\ edges(f, "contains_scope") = edges(g, "contains_scope")
       /\ edges(f, "contains_occurrence") = edges(g, "contains_occurrence")
       /\ edges(f, "references_local") = edges(g, "references_local")
  BY <1>9
<1> QED BY <1>1, <1>4, <1>7, <1>10, Zenon

-----------------------------------------------------------------------------
(* Whose rows are whose.                                                    *)

(* A load of an artifact writes what a load of the facts themselves would.  *)
LEMMA SameFacts ==
  ASSUME NEW f, NEW g, Same(f, g)
  PROVE  /\ f.path = g.path /\ f.lang = g.lang /\ f.coord = g.coord /\ f.parseError = g.parseError
         /\ Flattens(f) => Flattens(g)
         /\ \A load, file : flatten(f, load, file) = flatten(g, load, file)
<1>1. CASE f = g
  BY <1>1
<1>2. CASE Encodable(g) /\ f = decode(encode(g))
  <2>1. Alike(f, g)
    BY <1>2, RoundTrip
  <2>2. Flattens(f) => Flattens(g)
    BY <2>1, AlikeFlattens
  <2>3. \A load, file : flatten(f, load, file) = flatten(g, load, file)
    BY <2>1, AlikeRows
  <2> QED BY <2>1, <2>2, <2>3 DEF Alike
<1> QED BY <1>1, <1>2 DEF Same

(* The rows of a load name it: its file's id in the vertices, its number in *)
(* the vertices' ids and in the targets of the edges.                       *)
LEMMA RowsOf ==
  ASSUME NEW h, Flattens(h.ff)
  PROVE  /\ \A t \in {"scope", "occurrence"} : \A r \in Rows(h)[t] :
              r.file = h.id /\ r.from <= r.to /\ r.to <= MaxOffset /\ r.id.load = h.load
         /\ \A t \in OwnEdges : \A r \in Rows(h)[t] :
              /\ DOMAIN r = {"source", "target"}
              /\ r.target.load = h.load
              /\ \A side \in {"source", "target"} :
                   /\ Ends(t)[side] = "file" => r[side] = h.id
                   /\ Ends(t)[side] # "file" => \E q \in Rows(h)[Ends(t)[side]] : q.id = r[side]
<1>1. ASSUME NEW t \in {"scope", "occurrence"}, NEW r \in Rows(h)[t]
      PROVE r.file = h.id /\ r.from <= r.to /\ r.to <= MaxOffset /\ r.id.load = h.load
  BY <1>1, FlattenVertices DEF Rows
<1>2. ASSUME NEW t \in OwnEdges, NEW r \in Rows(h)[t]
      PROVE /\ DOMAIN r = {"source", "target"}
            /\ r.target.load = h.load
            /\ \A side \in {"source", "target"} :
                   /\ Ends(t)[side] = "file" => r[side] = h.id
                   /\ Ends(t)[side] # "file" => \E q \in Rows(h)[Ends(t)[side]] : q.id = r[side]
  BY <1>2, FlattenEnds DEF Rows
<1> QED BY <1>1, <1>2

(* No row is a row of two loads.                                            *)
LEMMA OneOwner ==
  ASSUME Distinct, NEW g \in last, NEW h \in last, NEW t \in Base,
         NEW r \in Rows(g)[t], r \in Rows(h)[t]
  PROVE  g = h
<1>1. Flattens(g.ff) /\ Flattens(h.ff)
  BY DEF Distinct
<1>2. CASE t \in {"scope", "occurrence"}
  <2>1. r.id.load = g.load /\ r.id.load = h.load
    BY <1>1, <1>2, RowsOf
  <2> QED BY <2>1 DEF Distinct
<1>3. CASE t \in OwnEdges
  <2>1. r.target.load = g.load /\ r.target.load = h.load
    BY <1>1, <1>3, RowsOf
  <2> QED BY <2>1 DEF Distinct
<1> QED BY <1>2, <1>3 DEF Base, OwnEdges

(* The vertices the Delete...ByFile queries find are those of the file's    *)
(* last load.                                                               *)
LEMMA OwnVertices ==
  ASSUME Distinct, Committed, NEW x, \A h \in last : h.id = x.id <=> h.ff.path = x.ff.path,
         NEW t \in {"scope", "occurrence"}
  PROVE  { q \in db[t] : q.file = x.id } = OldRows(x, last, t)
<1>1. db[t] = UNION { Rows(h)[t] : h \in last }
  BY DEF Committed, Base
<1>2. \A h \in last : \A q \in Rows(h)[t] : q.file = h.id
  BY RowsOf DEF Distinct
<1> QED BY <1>1, <1>2 DEF OldRows, Owner

(* id is the file of x or a vertex of the load x replaces.                  *)
EndOf(x, t, side, id) ==
  \/ Ends(t)[side] = "file" /\ id = x.id
  \/ Ends(t)[side] # "file" /\ \E q \in OldRows(x, last, Ends(t)[side]) : q.id = id

(* Where the ends of a file's own edges lie.                                *)
LEMMA EndTables ==
  ASSUME NEW t \in OwnEdges, NEW side \in {"source", "target"}
  PROVE  Ends(t)[side] \in {"file", "scope", "occurrence"}
BY DEF Ends, OwnEdges

(* The edges the Delete...BySourceFile and ...ByTargetFile queries find,    *)
(* from either side, are those of the file's last load: no edge of another  *)
(* file has an end here.                                                    *)
LEMMA OwnEnds ==
  ASSUME Distinct, Committed, NEW x, \A h \in last : h.id = x.id <=> h.ff.path = x.ff.path,
         NEW t \in OwnEdges, NEW side \in {"source", "target"}, NEW r \in db[t]
  PROVE  r \in OldRows(x, last, t) <=> EndOf(x, t, side, r[side])
<1>1. t \in Base /\ db[t] = UNION { Rows(h)[t] : h \in last }
  BY DEF Committed, Base, OwnEdges
<1>2. PICK h \in last : r \in Rows(h)[t]
  BY <1>1
<1>3. /\ Ends(t)[side] = "file" => r[side] = h.id
      /\ Ends(t)[side] # "file" => \E q \in Rows(h)[Ends(t)[side]] : q.id = r[side]
  <2>1. Flattens(h.ff)
    BY DEF Distinct
  <2> QED BY <1>2, <2>1, RowsOf
<1>4. r \in OldRows(x, last, t) <=> h \in Owner(x, last)
  <2>1. \A g \in Owner(x, last) : r \in Rows(g)[t] => g = h
    BY <1>1, <1>2, OneOwner DEF Owner
  <2> QED BY <1>2, <2>1 DEF OldRows
<1>5. CASE Ends(t)[side] = "file"
  BY <1>3, <1>4, <1>5 DEF EndOf, Owner
<1>6. CASE Ends(t)[side] # "file"
  <2>1. Ends(t)[side] \in {"scope", "occurrence"}
    BY <1>6, EndTables
  <2>2. PICK q \in Rows(h)[Ends(t)[side]] : q.id = r[side]
    BY <1>3, <1>6
  <2>3. h \in Owner(x, last) => EndOf(x, t, side, r[side])
    BY <1>6, <2>2 DEF EndOf, OldRows
  <2>4. ASSUME NEW p \in OldRows(x, last, Ends(t)[side]), p.id = r[side]
        PROVE  h \in Owner(x, last)
    <3>1. PICK g \in Owner(x, last) : p \in Rows(g)[Ends(t)[side]]
      BY <2>4 DEF OldRows
    <3>2. g \in last /\ p.id.load = g.load
      BY <2>1, <3>1, RowsOf DEF Distinct, Owner
    <3>3. q.id.load = h.load
      BY <2>1, <2>2, RowsOf DEF Distinct
    <3>4. g.load = h.load
      BY <2>2, <2>4, <3>2, <3>3
    <3>5. g = h
      BY <3>2, <3>4 DEF Distinct
    <3> QED BY <3>1, <3>5
  <2> QED BY <1>4, <1>6, <2>3, <2>4 DEF EndOf
<1> QED BY <1>5, <1>6

-----------------------------------------------------------------------------
(* The order of deleteFile, and what a statement changes.                   *)

(* The four derived tables.                                                 *)
LEMMA DerivedTables ==
  Range(Derived) = {"resolves_to", "calls", "implements", "type_defines"}
<1>1. DOMAIN Derived = 1..4
  BY DEF Derived
<1>2. \A i \in 1..4 : i = 1 \/ i = 2 \/ i = 3 \/ i = 4
  OBVIOUS
<1> QED BY <1>1, <1>2 DEF Derived, Range

(* How the tables divide: the vertices and edges a load writes, the derived *)
(* edges a load only deletes, and imports.                                  *)
LEMMA AllTables ==
  /\ Edges = OwnEdges \cup Range(Derived) \cup {"imports"}
  /\ Tables = {"file"} \cup Base \cup Range(Derived) \cup {"imports"}
  /\ Base = OwnEdges \cup {"scope", "occurrence"}
  /\ OwnEdges \cap Range(Derived) = {}
  /\ Base \cap Range(Derived) = {}
  /\ "imports" \notin Base \cup Range(Derived)
  /\ "file" \notin Edges \cup Base
BY DerivedTables DEF Edges, Tables, Vertices, Base, OwnEdges

(* deleteFile, step by step: the two vertex tables come last.               *)
LEMMA Steps ==
  ASSUME NEW k \in 1..23
  PROVE  /\ deleteFile[k][2] \in {"lock", "source", "target", "rows"}
         /\ deleteFile[k][2] = "rows" <=> k \in {22, 23}
         /\ k = 22 => deleteFile[k][1] = "occurrence"
         /\ k = 23 => deleteFile[k][1] = "scope"
         /\ deleteFile[k][2] = "lock" => deleteFile[k][1] \in Range(Derived)
         /\ deleteFile[k][2] \in {"source", "target"} =>
              \/ deleteFile[k][1] \in OwnEdges \cup Range(Derived)
              \/ deleteFile[k][1] = "imports" /\ deleteFile[k][2] = "source"
BY DerivedTables DEF deleteFile, OwnEdges

(* deleteFile reaches every table of a file's own edges and both sides of   *)
(* every derived table before it reaches a vertex.                          *)
LEMMA EveryEdge ==
  /\ Len(deleteFile) = 23
  /\ \A t \in OwnEdges : \E k \in 1..21 : deleteFile[k][1] = t
  /\ \A t \in Range(Derived) : \A how \in {"source", "target"} :
       \E k \in 1..21 : deleteFile[k][1] = t /\ deleteFile[k][2] = how
<1>1. Len(deleteFile) = 23
  BY DEF deleteFile
<1>2. ASSUME NEW t \in OwnEdges PROVE \E k \in 1..21 : deleteFile[k][1] = t
  <2>1. /\ deleteFile[13][1] = "references_local" /\ deleteFile[15][1] = "contains_occurrence"
        /\ deleteFile[17][1] = "contains_scope" /\ deleteFile[19][1] = "defines"
    BY DEF deleteFile
  <2> HIDE DEF deleteFile
  <2> QED BY <1>2, <2>1 DEF OwnEdges
<1>3. ASSUME NEW t \in Range(Derived), NEW how \in {"source", "target"}
      PROVE  \E k \in 1..21 : deleteFile[k][1] = t /\ deleteFile[k][2] = how
  <2>1. /\ deleteFile[2] = <<"resolves_to", "source">> /\ deleteFile[3] = <<"resolves_to", "target">>
        /\ deleteFile[5] = <<"calls", "source">> /\ deleteFile[6] = <<"calls", "target">>
        /\ deleteFile[8] = <<"implements", "source">> /\ deleteFile[9] = <<"implements", "target">>
        /\ deleteFile[11] = <<"type_defines", "source">> /\ deleteFile[12] = <<"type_defines", "target">>
    BY DEF deleteFile
  <2> HIDE DEF deleteFile
  <2> QED BY <1>3, <2>1, DerivedTables
<1> QED BY <1>1, <1>2, <1>3

(* Derived edges join occurrences, imports join files.                      *)
LEMMA OtherEnds ==
  ASSUME NEW side \in {"source", "target"}
  PROVE  /\ \A t \in Range(Derived) : Ends(t)[side] = "occurrence"
         /\ Ends("imports")[side] = "file"
BY DerivedTables DEF Ends

(* What deleteFile has cleared stays cleared while it deletes more.         *)
LEMMA GoneGrows ==
  ASSUME NEW x, NEW y, NEW d, NEW hist, NEW t, NEW how, Gone(x, d, hist, t, how),
         y.ff = x.ff, \A s \in Tables : x.dels[s] \subseteq y.dels[s]
  PROVE  Gone(y, d, hist, t, how)
<1>1. \A s : OldRows(y, hist, s) = OldRows(x, hist, s)
  BY DEF OldRows, Owner
<1>2. t \in Base \cup Range(Derived) => x.dels[t] \subseteq y.dels[t]
  BY AllTables
<1>3. t \in Base => OldRows(y, hist, t) \subseteq y.dels[t]
  BY <1>1, <1>2 DEF Gone
<1>4. ASSUME t \in Range(Derived), how \in {"source", "target"},
             NEW r \in d[t] \ y.dels[t], NEW q \in OldRows(y, hist, "occurrence")
      PROVE  r[how] # q.id
  <2>1. r \in d[t] \ x.dels[t] /\ q \in OldRows(x, hist, "occurrence")
    BY <1>1, <1>2, <1>4
  <2> QED BY <1>4, <2>1 DEF Gone
<1> QED BY <1>3, <1>4 DEF Gone

(* What one more step of the deletion must do for Deleting to hold after it. *)
LEMMA DeleteStep ==
  ASSUME NEW x, NEW y, NEW d, NEW hist, Resolved(x, hist), Deleting(x, d, hist), x.step \in 1..22,
         y.ff = x.ff, y.load = x.load, y.id = x.id, y.step = x.step + 1,
         \A t \in Tables : y.adds[t] = x.adds[t],
         \A t \in Tables : x.dels[t] \subseteq y.dels[t],
         y.dels.file = x.dels.file,
         \A t \in Base : y.dels[t] \subseteq OldRows(x, hist, t),
         \A r \in y.dels.imports : r.source = x.id,
         Gone(y, d, hist, deleteFile[x.step][1], deleteFile[x.step][2]),
         x.step <= 21 => y.dels["occurrence"] = {},
         y.dels["scope"] = {}
  PROVE  Resolved(y, hist) /\ Deleting(y, d, hist)
<1> HIDE DEF deleteFile
<1>1. \A t : OldRows(y, hist, t) = OldRows(x, hist, t) /\ Owner(y, hist) = Owner(x, hist)
  BY DEF OldRows, Owner
<1>2. Resolved(y, hist)
  BY <1>1, AllTables DEF Resolved
<1>3. ASSUME NEW k \in 1..23, k < y.step
      PROVE  Gone(y, d, hist, deleteFile[k][1], deleteFile[k][2])
  <2>1. CASE k = x.step
    BY <2>1
  <2>2. CASE k < x.step
    <3>1. Gone(x, d, hist, deleteFile[k][1], deleteFile[k][2])
      BY <2>2 DEF Deleting
    <3> QED BY <3>1, GoneGrows
  <2> QED BY <1>3, <2>1, <2>2 DEF Deleting
<1>4. Flattens(y.ff) /\ y.step \in 1..23
  BY DEF Deleting
<1>5. \A t \in Base : y.dels[t] \subseteq OldRows(y, hist, t) /\ y.adds[t] = {}
  BY <1>1, AllTables DEF Deleting
<1> QED BY <1>2, <1>3, <1>4, <1>5 DEF Deleting

(* The other fields of a transaction are those of the statement's result.   *)
LEMMA Advance ==
  ASSUME NEW x, NEW steps, NEW next,
         DOMAIN x = {"stage", "given", "ff", "load", "id", "step", "dels", "adds", "locks"}
  PROVE  LET y == Next1(x, steps, next)
         IN /\ DOMAIN y = DOMAIN x
            /\ y.given = x.given /\ y.ff = x.ff /\ y.load = x.load /\ y.id = x.id
            /\ y.dels = x.dels /\ y.adds = x.adds
            /\ x.step = Len(steps) => y.stage = next /\ y.step = 1
            /\ x.step # Len(steps) => y.stage = x.stage /\ y.step = x.step + 1
BY DEF Next1

(* What Delete changes of a transaction.                                    *)
LEMMA Deleted ==
  ASSUME NEW x, NEW t \in Tables, NEW rows,
         DOMAIN x = {"stage", "given", "ff", "load", "id", "step", "dels", "adds", "locks"},
         DOMAIN x.dels = Tables, DOMAIN x.adds = Tables
  PROVE  LET y == Delete(x, t, rows)
         IN /\ DOMAIN y = DOMAIN x /\ DOMAIN y.dels = Tables /\ DOMAIN y.adds = Tables
            /\ y.stage = x.stage /\ y.given = x.given /\ y.ff = x.ff /\ y.load = x.load
            /\ y.id = x.id /\ y.step = x.step
            /\ y.dels[t] = x.dels[t] \cup (rows \cap db[t]) /\ y.adds[t] = x.adds[t] \ rows
            /\ \A s \in Tables \ {t} : y.dels[s] = x.dels[s] /\ y.adds[s] = x.adds[s]
BY DEF Delete

(* What Insert changes of a transaction.                                    *)
LEMMA Inserted ==
  ASSUME NEW x, NEW t \in Tables, NEW rows,
         DOMAIN x = {"stage", "given", "ff", "load", "id", "step", "dels", "adds", "locks"},
         DOMAIN x.dels = Tables, DOMAIN x.adds = Tables
  PROVE  LET y == Insert(x, t, rows)
         IN /\ DOMAIN y = DOMAIN x /\ DOMAIN y.dels = Tables /\ DOMAIN y.adds = Tables
            /\ y.stage = x.stage /\ y.given = x.given /\ y.ff = x.ff /\ y.load = x.load
            /\ y.id = x.id /\ y.step = x.step /\ y.dels = x.dels
            /\ y.adds[t] = x.adds[t] \cup rows
            /\ \A s \in Tables \ {t} : y.adds[s] = x.adds[s]
BY DEF Insert

(* What a transaction sees of a table.                                      *)
LEMMA Viewed ==
  ASSUME NEW x, NEW t \in Tables
  PROVE  View(x)[t] = (db[t] \ x.dels[t]) \cup x.adds[t]
BY DEF View

-----------------------------------------------------------------------------
(* The steps of a transaction.                                              *)

\* What is left of an action once its effect on the transaction is known.
Advances(l) ==
  \/ \E how \in {"none", "invalid"} : Rollback(l, how)
  \/ \E y : /\ To(l, y) /\ Live(y) /\ Given(y) /\ Progress(y, db, last)
            /\ y.load = txn[l].load /\ y.ff = txn[l].ff
            /\ Holding(y) => \/ Holding(txn[l])
                             \/ \A k \in Loaders \ {l} :
                                  Holding(txn[k]) => txn[k].ff.path # y.ff.path

(* What the invariant says of a transaction, stage by stage.                *)
LEMMA Stage ==
  ASSUME Inv, NEW l \in Loaders, Live(txn[l])
  PROVE  /\ Given(txn[l]) /\ Progress(txn[l], db, last)
         /\ txn[l].stage \in {"begun", "linking", "locked"} =>
              txn[l].step = 1 /\ txn[l].dels = Empty /\ txn[l].adds = Empty
         /\ txn[l].stage = "resolved" =>
              /\ Resolved(txn[l], last) /\ txn[l].step = 1
              /\ \A t \in Base : txn[l].dels[t] = {} /\ txn[l].adds[t] = {}
         /\ txn[l].stage = "delete" => Resolved(txn[l], last) /\ Deleting(txn[l], db, last)
         /\ txn[l].stage = "insert" =>
              Resolved(txn[l], last) /\ Inserting(txn[l], last, txn[l].step)
         /\ txn[l].stage = "loaded" => Resolved(txn[l], last) /\ Inserting(txn[l], last, 7)
         /\ txn[l].stage \in {"begun", "linking", "locked", "resolved", "delete", "insert", "loaded"}
BY DEF Inv, Sound, Progress

(* A change of stage changes nothing else.                                  *)
LEMMA StageChange ==
  ASSUME NEW x, NEW stage,
         DOMAIN x = {"stage", "given", "ff", "load", "id", "step", "dels", "adds", "locks"}
  PROVE  LET y == [x EXCEPT !.stage = stage]
         IN /\ DOMAIN y = DOMAIN x /\ y.stage = stage
            /\ y.given = x.given /\ y.ff = x.ff /\ y.load = x.load /\ y.id = x.id
            /\ y.step = x.step /\ y.dels = x.dels /\ y.adds = x.adds
OBVIOUS

(* LockLinkShared keeps the invariant of its transaction.                   *)
LEMMA LockLinkSharedAdvances ==
  ASSUME Inv, NEW l \in Loaders, LockLinkShared(l)
  PROVE  Advances(l)
<1> DEFINE x == txn[l]
           y == [x EXCEPT !.stage = "linking"]
<1>1. x.stage = "begun" /\ To(l, y)
  BY DEF LockLinkShared, At
<1>2. Given(x) /\ x.step = 1 /\ x.dels = Empty /\ x.adds = Empty
  BY <1>1, Stage DEF Live
<1>3. /\ DOMAIN y = DOMAIN x /\ y.stage = "linking" /\ y.given = x.given /\ y.ff = x.ff
      /\ y.load = x.load /\ y.step = x.step /\ y.dels = x.dels /\ y.adds = x.adds
  BY <1>2, StageChange DEF Given
<1> HIDE DEF y
<1>4. Given(y) /\ Progress(y, db, last)
  BY <1>2, <1>3 DEF Given, Progress
<1> QED BY <1>1, <1>3, <1>4 DEF Advances, Live, Holding

(* LockFilePath hands a path to one load at a time.                         *)
LEMMA LockFilePathAdvances ==
  ASSUME Inv, NEW l \in Loaders, LockFilePath(l)
  PROVE  Advances(l)
<1> DEFINE x == txn[l]
           y == [x EXCEPT !.stage = "locked"]
<1>1. x.stage = "linking" /\ To(l, y)
  BY DEF LockFilePath, At
<1>2. Given(x) /\ x.step = 1 /\ x.dels = Empty /\ x.adds = Empty
  BY <1>1, Stage DEF Live
<1>3. /\ DOMAIN y = DOMAIN x /\ y.stage = "locked" /\ y.given = x.given /\ y.ff = x.ff
      /\ y.load = x.load /\ y.step = x.step /\ y.dels = x.dels /\ y.adds = x.adds
  BY <1>2, StageChange DEF Given
<1> HIDE DEF y
<1>4. Given(y) /\ Progress(y, db, last)
  BY <1>2, <1>3 DEF Given, Progress
<1>5. ASSUME NEW k \in Loaders \ {l}, Holding(txn[k]) PROVE txn[k].ff.path # y.ff.path
  <2>1. Open(k) /\ ~At(k, "linking")
    BY <1>5 DEF Open, At, Holding
  <2> QED BY <1>3, <2>1 DEF LockFilePath
<1> QED BY <1>1, <1>3, <1>4, <1>5 DEF Advances, Live

(* resolveFile finds the file of its path or mints an id no file has.       *)
LEMMA resolveFileAdvances ==
  ASSUME Inv, NEW l \in Loaders, resolveFile(l)
  PROVE  Advances(l)
<1> DEFINE x == txn[l]
           v == View(x)
           found == FileIDByPath(v, x.ff.path)
<1>1. x.stage = "locked"
  BY DEF resolveFile, At
<1>2. Given(x) /\ Live(x) /\ x.step = 1 /\ x.dels = Empty /\ x.adds = Empty
  BY <1>1, Stage DEF Live
<1>3. \A t \in Tables : x.dels[t] = {} /\ x.adds[t] = {} /\ v[t] = db[t]
  <2> TAKE t \in Tables
  <2>1. v[t] = (db[t] \ x.dels[t]) \cup x.adds[t]
    BY Viewed
  <2>2. x.dels[t] = {} /\ x.adds[t] = {}
    BY <1>2 DEF Empty
  <2> QED BY <2>1, <2>2
<1>4. v.file = { FileRow(h.id, h.ff) : h \in last }
  BY <1>3, AllTables DEF Inv, Committed
<1>5. found = { h.id : h \in Owner(x, last) }
  <2>1. \A h : FileRow(h.id, h.ff).id = h.id /\ FileRow(h.id, h.ff).path = h.ff.path
    BY DEF FileRow
  <2> HIDE DEF v
  <2> QED BY <1>4, <2>1 DEF FileIDByPath, Owner
<1> DEFINE old(id) == { r \in v.file : r.id = id }
           one(id) == Delete(x, "file", old(id))
           two(id) == Insert(one(id), "file", { FileRow(id, x.ff) })
           res(id) == [two(id) EXCEPT !.id = id, !.stage = "resolved"]
<1>6. PICK id \in IF found = {} THEN { FileId(x.load) } ELSE found : To(l, res(id))
  <2>1. /\ x = txn[l] /\ v = View(x) /\ found = FileIDByPath(v, x.ff.path)
    OBVIOUS
  <2> QED BY DEF resolveFile
<1>7. \A h \in last : h.id = id <=> h.ff.path = x.ff.path
  <2>1. ASSUME NEW h \in last PROVE h.id # FileId(x.load)
    BY <1>2 DEF Inv, Fresh, FileId, UUID
  <2>2. \A g, h \in last : g.ff.path = h.ff.path \/ g.id = h.id => g = h
    BY DEF Inv, Distinct
  <2> HIDE DEF found
  <2> QED BY <1>5, <1>6, <2>1, <2>2 DEF Owner
<1>8. Owner(x, last) = {} => id = FileId(x.load)
  <2> HIDE DEF found
  <2> QED BY <1>5, <1>6
<1>9. old(id) = { FileRow(h.id, h.ff) : h \in Owner(x, last) }
  <2>1. \A h : FileRow(h.id, h.ff).id = h.id
    BY DEF FileRow
  <2> HIDE DEF v
  <2> QED BY <1>4, <1>7, <2>1 DEF Owner
<1>10. old(id) \subseteq db["file"] /\ "file" \in Tables
  BY <1>3, AllTables
<1> DEFINE a == one(id)
           b == two(id)
           y == res(id)
           dom == {"stage", "given", "ff", "load", "id", "step", "dels", "adds", "locks"}
<1>11. /\ DOMAIN a = dom /\ DOMAIN a.dels = Tables /\ DOMAIN a.adds = Tables
       /\ a.stage = x.stage /\ a.given = x.given /\ a.ff = x.ff /\ a.load = x.load
       /\ a.step = x.step
       /\ a.dels["file"] = old(id) /\ a.adds["file"] = {}
       /\ \A s \in Tables \ {"file"} : a.dels[s] = {} /\ a.adds[s] = {}
  <2>1. DOMAIN x = dom /\ DOMAIN x.dels = Tables /\ DOMAIN x.adds = Tables
    BY <1>2 DEF Given
  <2> DEFINE o == old(id)
             xx == txn[l]
  <2>2. x.dels["file"] \cup (o \cap db["file"]) = o /\ x.adds["file"] \ o = {}
    BY <1>3, <1>10
  <2> HIDE DEF x, o
  <2> QED BY <1>3, <1>10, <2>1, <2>2, Deleted
<1>12. /\ DOMAIN b = dom /\ DOMAIN b.dels = Tables /\ DOMAIN b.adds = Tables
       /\ b.stage = x.stage /\ b.given = x.given /\ b.ff = x.ff /\ b.load = x.load
       /\ b.step = x.step /\ b.dels = a.dels /\ b.adds["file"] = { FileRow(id, x.ff) }
       /\ \A s \in Tables \ {"file"} : b.adds[s] = {}
  <2> HIDE DEF x, a
  <2>1. b = Insert(a, "file", { FileRow(id, x.ff) })
    BY DEF a
  <2> HIDE DEF b
  <2> QED BY <1>10, <1>11, <2>1, Inserted
<1>13. /\ DOMAIN y = dom /\ y.stage = "resolved" /\ y.id = id
       /\ y.given = b.given /\ y.ff = b.ff /\ y.load = b.load /\ y.step = b.step
       /\ y.dels = b.dels /\ y.adds = b.adds
  <2>1. y = [b EXCEPT !.id = id, !.stage = "resolved"]
    OBVIOUS
  <2> HIDE DEF b, y
  <2> QED BY <1>12, <2>1
<1>14. To(l, y)
  BY <1>6
<1> HIDE DEF x, a, b, y, v, found, one, two, res
<1>15. Given(y)
  BY <1>2, <1>11, <1>12, <1>13 DEF Given
<1>16. Owner(y, last) = Owner(x, last)
  BY <1>12, <1>13 DEF Owner
<1>17. y.dels.file = { FileRow(h.id, h.ff) : h \in Owner(x, last) }
  BY <1>9, <1>11, <1>12, <1>13
<1>18. \A t \in Tables \ {"file"} : y.dels[t] = {} /\ y.adds[t] = {}
  BY <1>11, <1>12, <1>13
<1>19. Resolved(y, last)
  <2>1. \A h \in last : h.id = y.id <=> h.ff.path = y.ff.path
    BY <1>7, <1>12, <1>13
  <2>2. Owner(y, last) = {} => y.id = FileId(y.load)
    BY <1>8, <1>12, <1>13, <1>16
  <2>3. y.adds.file = { FileRow(y.id, y.ff) }
    BY <1>12, <1>13
  <2>4. y.dels.imports = {} /\ \A t \in Tables \ (Base \cup {"file"}) : y.adds[t] = {}
    BY <1>18, AllTables
  <2> QED BY <1>16, <1>17, <2>1, <2>2, <2>3, <2>4 DEF Resolved
<1>20. \A t \in Base : y.dels[t] = {} /\ y.adds[t] = {}
  BY <1>18, AllTables
<1>21. Progress(y, db, last)
  BY <1>2, <1>12, <1>13, <1>19, <1>20 DEF Progress
<1>22. y.load = txn[l].load /\ y.ff = txn[l].ff /\ Holding(txn[l]) /\ Live(y)
  BY <1>1, <1>12, <1>13 DEF Holding, Live, x
<1> QED BY <1>14, <1>15, <1>21, <1>22 DEF Advances

(* Facts that pass flatten's checks reach the deletion.                     *)
LEMMA FlattenAdvances ==
  ASSUME Inv, NEW l \in Loaders, Flatten(l)
  PROVE  Advances(l)
<1> DEFINE x == txn[l]
           y == [x EXCEPT !.stage = "delete"]
<1>1. x.stage = "resolved" /\ (Rollback(l, "invalid") \/ (Flattens(x.ff) /\ To(l, y)))
  BY DEF Flatten, At
<1>2. /\ Given(x) /\ Resolved(x, last) /\ x.step = 1
      /\ \A t \in Base : x.dels[t] = {} /\ x.adds[t] = {}
  BY <1>1, Stage DEF Live
<1>3. /\ DOMAIN y = DOMAIN x /\ y.stage = "delete" /\ y.given = x.given /\ y.ff = x.ff
      /\ y.id = x.id
      /\ y.load = x.load /\ y.step = x.step /\ y.dels = x.dels /\ y.adds = x.adds
  BY <1>2, StageChange DEF Given
<1>4. CASE Rollback(l, "invalid")
  BY <1>4 DEF Advances
<1>5. CASE Flattens(x.ff) /\ To(l, y)
  <2> HIDE DEF x, y
  <2>1. Given(y)
    BY <1>2, <1>3 DEF Given
  <2>2. Resolved(y, last)
    BY <1>2, <1>3 DEF Resolved, Owner
  <2>3. Deleting(y, db, last)
    BY <1>2, <1>3, <1>5, AllTables DEF Deleting
  <2> QED BY <1>1, <1>3, <1>5, <2>1, <2>2, <2>3 DEF Advances, Progress, Live, Holding, x
<1> QED BY <1>1, <1>4, <1>5

(* What a transaction that deletes sees of the vertices of its file.        *)
LEMMA DeletingView ==
  ASSUME Inv, NEW l \in Loaders, txn[l].stage = "delete"
  PROVE  LET x == txn[l]
         IN /\ Given(x) /\ Resolved(x, last) /\ Deleting(x, db, last)
            /\ \A t \in Edges \cup {"scope", "occurrence"} : View(x)[t] = db[t] \ x.dels[t]
            /\ \A t \in {"scope", "occurrence"} : x.dels[t] = {} =>
                 { q \in View(x)[t] : q.file = x.id } = OldRows(x, last, t)
<1> DEFINE x == txn[l]
<1>1. Given(x) /\ Resolved(x, last) /\ Deleting(x, db, last)
  BY Stage DEF Live
<1>2. \A t \in Edges \cup {"scope", "occurrence"} : View(x)[t] = db[t] \ x.dels[t]
  <2> TAKE t \in Edges \cup {"scope", "occurrence"}
  <2>1. t \in Tables /\ (t \in Base \/ t \in Tables \ (Base \cup {"file"}))
    BY AllTables
  <2>2. x.adds[t] = {}
    BY <1>1, <2>1 DEF Deleting, Resolved
  <2>3. View(x)[t] = (db[t] \ x.dels[t]) \cup x.adds[t]
    BY <2>1, Viewed
  <2> QED BY <2>2, <2>3
<1>3. ASSUME NEW t \in {"scope", "occurrence"}, x.dels[t] = {}
      PROVE  { q \in View(x)[t] : q.file = x.id } = OldRows(x, last, t)
  <2>1. View(x)[t] = db[t]
    BY <1>2, <1>3
  <2>2. \A h \in last : h.id = x.id <=> h.ff.path = x.ff.path
    BY <1>1 DEF Resolved
  <2>3. { q \in db[t] : q.file = x.id } = OldRows(x, last, t)
    BY <1>3, <2>2, OwnVertices DEF Inv
  <2> QED BY <2>1, <2>3
<1> QED BY <1>1, <1>2, <1>3

(* The lock steps of deleteFile change no row.                              *)
LEMMA LockRowsAdvances ==
  ASSUME Inv, NEW l \in Loaders, LockRows(l)
  PROVE  Advances(l)
<1> DEFINE x == txn[l]
           t == deleteFile[x.step][1]
           rows == Side(View(x), t, "source", x.id) \cup Side(View(x), t, "target", x.id)
           z == [x EXCEPT !.locks[t] = rows]
           y == Next1(z, deleteFile, "insert")
           dom == {"stage", "given", "ff", "load", "id", "step", "dels", "adds", "locks"}
<1>1. x.stage = "delete" /\ deleteFile[x.step][2] = "lock" /\ To(l, y)
  BY DEF LockRows, At
<1>2. Given(x) /\ Resolved(x, last) /\ Deleting(x, db, last)
  BY <1>1, DeletingView
<1>3. x.step \in 1..22 /\ x.step # 22 /\ t \in Range(Derived)
  <2> HIDE DEF deleteFile
  <2>1. x.step \in 1..23
    BY <1>2 DEF Deleting
  <2> QED BY <1>1, <2>1, Steps
<1>4. /\ DOMAIN z = dom /\ z.stage = x.stage /\ z.given = x.given /\ z.ff = x.ff /\ z.load = x.load
      /\ z.id = x.id /\ z.step = x.step /\ z.dels = x.dels /\ z.adds = x.adds
  <2>1. DOMAIN x = dom
    BY <1>2 DEF Given
  <2> HIDE DEF x, t, rows
  <2> QED BY <2>1
<1> HIDE DEF z
<1>5. /\ DOMAIN y = dom /\ y.stage = x.stage /\ y.given = x.given /\ y.ff = x.ff /\ y.load = x.load
      /\ y.id = x.id /\ y.step = x.step + 1 /\ y.dels = x.dels /\ y.adds = x.adds
  <2>1. DOMAIN z = dom /\ z.step # Len(deleteFile) /\ z.step = x.step
    BY <1>3, <1>4, EveryEdge
  <2>2. LET w == Next1(z, deleteFile, "insert")
        IN /\ DOMAIN w = DOMAIN z
           /\ w.given = z.given /\ w.ff = z.ff /\ w.load = z.load /\ w.id = z.id
           /\ w.dels = z.dels /\ w.adds = z.adds
           /\ w.stage = z.stage /\ w.step = z.step + 1
    BY <2>1, Advance
  <2> HIDE DEF x
  <2> QED BY <1>4, <2>1, <2>2
<1> HIDE DEF x, t, y, deleteFile
<1>6. Gone(y, db, last, t, deleteFile[x.step][2])
  BY <1>1, <1>3, AllTables DEF Gone
<1>7. Resolved(y, last) /\ Deleting(y, db, last)
  <2>1. \A s \in Base : y.dels[s] \subseteq OldRows(x, last, s)
    BY <1>2, <1>5 DEF Deleting
  <2>2. \A r \in y.dels.imports : r.source = x.id
    BY <1>2, <1>5 DEF Resolved
  <2>3. y.dels["occurrence"] = {} /\ y.dels["scope"] = {}
    BY <1>2, <1>3, <1>5 DEF Deleting
  <2> QED BY <1>2, <1>3, <1>5, <1>6, <2>1, <2>2, <2>3, DeleteStep DEF t
<1>8. Given(y)
  BY <1>2, <1>5 DEF Given
<1> QED BY <1>1, <1>5, <1>7, <1>8 DEF Advances, Progress, Live, Holding, x

(* An edge step of deleteFile clears one side of one table of what refers   *)
(* to the file, and nothing of another file's.                              *)
LEMMA DeleteEdgesAdvances ==
  ASSUME Inv, NEW l \in Loaders, DeleteEdges(l)
  PROVE  Advances(l)
<1> DEFINE x == txn[l]
           v == View(x)
           t == deleteFile[x.step][1]
           how == deleteFile[x.step][2]
           rows == Side(v, t, how, x.id)
           z == Delete(x, t, rows)
           y == Next1(z, deleteFile, "insert")
           dom == {"stage", "given", "ff", "load", "id", "step", "dels", "adds", "locks"}
<1>1. x.stage = "delete" /\ how \in {"source", "target"} /\ To(l, y)
  BY DEF DeleteEdges, At
<1>2. Given(x) /\ Resolved(x, last) /\ Deleting(x, db, last)
  BY <1>1, DeletingView
<1>3. /\ x.step \in 1..22 /\ x.step # 22
      /\ t \in OwnEdges \cup Range(Derived) \/ (t = "imports" /\ how = "source")
      /\ t \in Edges /\ t \in Tables
  <2>1. x.step \in 1..23
    BY <1>2 DEF Deleting
  <2> HIDE DEF deleteFile
  <2> QED BY <1>1, <2>1, Steps, AllTables
<1>4. x.dels["scope"] = {} /\ x.dels["occurrence"] = {}
  BY <1>2, <1>3 DEF Deleting
<1>5. /\ v[t] = db[t] \ x.dels[t]
      /\ \A s \in {"scope", "occurrence"} : { q \in v[s] : q.file = x.id } = OldRows(x, last, s)
  <2> HIDE DEF deleteFile
  <2> QED BY <1>1, <1>3, <1>4, DeletingView
<1>6. /\ Ends(t)[how] = "file" => Of(v, Ends(t)[how], x.id) = {x.id}
      /\ Ends(t)[how] \in {"scope", "occurrence"} =>
           Of(v, Ends(t)[how], x.id) = { q.id : q \in OldRows(x, last, Ends(t)[how]) }
  <2> HIDE DEF t, how, v
  <2> QED BY <1>5 DEF Of
<1>7. \A r : r \in rows <=> r \in v[t] /\ r[how] \in Of(v, Ends(t)[how], x.id)
  BY DEF Side
<1> HIDE DEF rows
<1>8. /\ DOMAIN z = dom /\ DOMAIN z.dels = Tables /\ DOMAIN z.adds = Tables
      /\ z.stage = x.stage /\ z.given = x.given /\ z.ff = x.ff /\ z.load = x.load
      /\ z.id = x.id /\ z.step = x.step
      /\ z.dels[t] = x.dels[t] \cup (rows \cap db[t]) /\ z.adds[t] = x.adds[t] \ rows
      /\ \A s \in Tables \ {t} : z.dels[s] = x.dels[s] /\ z.adds[s] = x.adds[s]
  <2>1. DOMAIN x = dom /\ DOMAIN x.dels = Tables /\ DOMAIN x.adds = Tables
    BY <1>2 DEF Given
  <2>2. t \in Tables
    BY <1>3
  <2> HIDE DEF x, t
  <2> QED BY <2>1, <2>2, Deleted
<1> HIDE DEF z
<1>9. /\ DOMAIN y = dom /\ y.stage = x.stage /\ y.given = x.given /\ y.ff = x.ff /\ y.load = x.load
      /\ y.id = x.id /\ y.step = x.step + 1 /\ y.dels = z.dels /\ y.adds = z.adds
  <2>1. DOMAIN z = dom /\ z.step # Len(deleteFile) /\ z.step = x.step
    BY <1>3, <1>8, EveryEdge
  <2>2. LET w == Next1(z, deleteFile, "insert")
        IN /\ DOMAIN w = DOMAIN z
           /\ w.given = z.given /\ w.ff = z.ff /\ w.load = z.load /\ w.id = z.id
           /\ w.dels = z.dels /\ w.adds = z.adds
           /\ w.stage = z.stage /\ w.step = z.step + 1
    BY <2>1, Advance
  <2> HIDE DEF x
  <2> QED BY <1>8, <2>1, <2>2
<1>10. t = deleteFile[x.step][1] /\ how = deleteFile[x.step][2]
  OBVIOUS
<1> HIDE DEF x, t, y, v, how, deleteFile
<1>11. \A s \in Tables : y.adds[s] = x.adds[s] /\ x.dels[s] \subseteq y.dels[s]
  <2>1. x.adds[t] = {}
    BY <1>2, <1>3, AllTables DEF Deleting, Resolved
  <2> QED BY <1>8, <1>9, <2>1
<1>12. t \in OwnEdges => rows \subseteq OldRows(x, last, t) /\ OldRows(x, last, t) \subseteq y.dels[t]
  <2> SUFFICES ASSUME t \in OwnEdges
               PROVE  rows \subseteq OldRows(x, last, t) /\ OldRows(x, last, t) \subseteq y.dels[t]
    OBVIOUS
  <2>1. Ends(t)[how] \in {"file", "scope", "occurrence"}
    BY <1>1, EndTables
  <2>2. \A r : EndOf(x, t, how, r[how]) <=> r[how] \in Of(v, Ends(t)[how], x.id)
    BY <1>6, <2>1 DEF EndOf
  <2>3. \A h \in last : h.id = x.id <=> h.ff.path = x.ff.path
    BY <1>2 DEF Resolved
  <2>4. \A r \in db[t] : r \in OldRows(x, last, t) <=> EndOf(x, t, how, r[how])
    BY <1>1, <2>3, OwnEnds DEF Inv
  <2>5. OldRows(x, last, t) \subseteq db[t]
    BY AllTables DEF Inv, Committed, OldRows, Owner
  <2>6. rows \subseteq OldRows(x, last, t)
    BY <1>5, <1>7, <2>2, <2>4
  <2>7. \A r \in OldRows(x, last, t) : r \in x.dels[t] \/ r \in rows
    BY <1>5, <1>7, <2>2, <2>4, <2>5
  <2> QED BY <1>8, <1>9, <2>5, <2>6, <2>7
<1>13. ASSUME t \in Range(Derived), NEW r \in db[t] \ y.dels[t],
              NEW q \in OldRows(x, last, "occurrence")
       PROVE  r[how] # q.id
  <2>1. r \in v[t] /\ r \notin rows
    BY <1>5, <1>8, <1>9, <1>13
  <2>2. Ends(t)[how] = "occurrence"
    BY <1>1, <1>13, OtherEnds
  <2> QED BY <1>6, <1>7, <1>13, <2>1, <2>2
<1>14. \A s : OldRows(y, last, s) = OldRows(x, last, s)
  BY <1>9 DEF OldRows, Owner
<1>15. Gone(y, db, last, t, how)
  BY <1>3, <1>12, <1>13, <1>14, AllTables DEF Gone
<1>16. Resolved(y, last) /\ Deleting(y, db, last)
  <2>1. \A s \in Base : y.dels[s] \subseteq OldRows(x, last, s)
    <3> TAKE s \in Base
    <3>1. x.dels[s] \subseteq OldRows(x, last, s)
      BY <1>2 DEF Deleting
    <3>2. CASE s = t
      <4>1. t \in OwnEdges
        BY <1>3, <3>2, AllTables
      <4> QED BY <1>8, <1>9, <1>12, <3>1, <3>2, <4>1
    <3>3. CASE s # t
      BY <1>8, <1>9, <3>1, <3>3, AllTables
    <3> QED BY <3>2, <3>3
  <2>2. \A r \in y.dels.imports : r.source = x.id
    <3>1. \A r \in x.dels.imports : r.source = x.id
      BY <1>2 DEF Resolved
    <3>2. CASE t = "imports"
      <4>1. how = "source" /\ Ends(t)[how] = "file"
        BY <1>3, <3>2, AllTables, OtherEnds
      <4>2. \A r \in rows : r.source = x.id
        BY <1>6, <1>7, <4>1
      <4> QED BY <1>8, <1>9, <3>1, <3>2, <4>2
    <3>3. CASE t # "imports"
      BY <1>8, <1>9, <3>1, <3>3, AllTables
    <3> QED BY <3>2, <3>3
  <2>3. t \notin {"file", "scope", "occurrence"}
    BY <1>3, AllTables DEF OwnEdges
  <2>4. y.dels["occurrence"] = {} /\ y.dels["scope"] = {} /\ y.dels.file = x.dels.file
    BY <1>4, <1>8, <1>9, <2>3, AllTables
  <2> QED BY <1>2, <1>3, <1>9, <1>10, <1>11, <1>15, <2>1, <2>2, <2>4, DeleteStep
<1>17. Given(y)
  BY <1>2, <1>8, <1>9 DEF Given
<1> QED BY <1>1, <1>9, <1>16, <1>17 DEF Advances, Progress, Live, Holding, x

(* When the vertices' turn comes nothing refers to them.                    *)
LEMMA NothingRefers ==
  ASSUME Inv, NEW l \in Loaders, txn[l].stage = "delete", txn[l].step \in {22, 23},
         NEW t \in {"scope", "occurrence"}, txn[l].dels[t] = {}
  PROVE  ~Refers(View(txn[l]), t, Of(View(txn[l]), t, txn[l].id))
<1> DEFINE x == txn[l]
           v == View(x)
           ids == Of(v, t, x.id)
<1>1. Given(x) /\ Resolved(x, last) /\ Deleting(x, db, last)
  BY DeletingView
<1>2. \A e \in Edges : v[e] = db[e] \ x.dels[e]
  BY DeletingView
<1>3. ids = { q.id : q \in OldRows(x, last, t) }
  <2>1. { q \in v[t] : q.file = x.id } = OldRows(x, last, t)
    BY DeletingView
  <2> HIDE DEF v, x
  <2> QED BY <2>1 DEF Of
<1>4. \A h \in last : h.id = x.id <=> h.ff.path = x.ff.path
  BY <1>1 DEF Resolved
<1>5. x.step \in {22, 23}
  OBVIOUS
<1> HIDE DEF x, v, ids
<1>6. ASSUME NEW e \in Edges, NEW side \in {"source", "target"}, Ends(e)[side] = t,
             NEW r \in v[e], r[side] \in ids
      PROVE  FALSE
  <2>1. r \in db[e] /\ r \notin x.dels[e]
    BY <1>2, <1>6
  <2>2. CASE e \in OwnEdges
    <3>1. EndOf(x, e, side, r[side])
      BY <1>3, <1>6 DEF EndOf
    <3>2. r \in OldRows(x, last, e)
      BY <1>4, <2>1, <2>2, <3>1, OwnEnds DEF Inv
    <3>3. PICK k \in 1..21 : deleteFile[k][1] = e
      BY <2>2, EveryEdge
    <3>4. Gone(x, db, last, e, deleteFile[k][2])
      BY <1>1, <1>5, <3>3 DEF Deleting
    <3> QED BY <2>1, <2>2, <3>2, <3>4, AllTables DEF Gone
  <2>3. CASE e \in Range(Derived)
    <3>1. t = "occurrence"
      BY <1>6, <2>3, OtherEnds
    <3>2. PICK k \in 1..21 : deleteFile[k][1] = e /\ deleteFile[k][2] = side
      BY <2>3, EveryEdge
    <3>3. Gone(x, db, last, e, side)
      BY <1>1, <1>5, <3>2 DEF Deleting
    <3> QED BY <1>3, <1>6, <2>1, <2>3, <3>1, <3>3 DEF Gone
  <2>4. CASE e = "imports"
    BY <1>6, <2>4, OtherEnds
  <2> QED BY <2>2, <2>3, <2>4, AllTables
<1> QED BY <1>6 DEF Refers, x, v, ids

(* insertRows copies each table once, vertices before edges.                *)
LEMMA CopySteps ==
  /\ Len(insertRows) = 6
  /\ \A k \in 1..6 : insertRows[k] \in Base
  /\ \A t \in Base : \E k \in 1..6 : insertRows[k] = t
  /\ \A j, k \in 1..6 : insertRows[j] = insertRows[k] => j = k
  /\ \A k \in 1..6 : insertRows[k] \in Edges <=> k > 2
  /\ insertRows[1] = "scope" /\ insertRows[2] = "occurrence"
<1>1. \A k \in 1..6 : k = 1 \/ k = 2 \/ k = 3 \/ k = 4 \/ k = 5 \/ k = 6
  OBVIOUS
<1>2. /\ Len(insertRows) = 6
      /\ insertRows[1] = "scope" /\ insertRows[2] = "occurrence" /\ insertRows[3] = "defines"
      /\ insertRows[4] = "contains_scope" /\ insertRows[5] = "contains_occurrence"
      /\ insertRows[6] = "references_local"
  BY DEF insertRows
<1>3. \A t \in Base : \E k \in 1..6 : insertRows[k] = t
  BY <1>2 DEF Base
<1>4. \A k \in 1..6 : insertRows[k] \in Base
  BY <1>1, <1>2 DEF Base
<1>5. \A j, k \in 1..6 : insertRows[j] = insertRows[k] => j = k
  BY <1>1, <1>2
<1>6. \A k \in 1..6 : insertRows[k] \in Edges <=> k > 2
  BY <1>1, <1>2, AllTables, DerivedTables DEF OwnEdges
<1> QED BY <1>2, <1>3, <1>4, <1>5, <1>6

(* The vertex steps of deleteFile are never refused and leave nothing of    *)
(* the old load.                                                            *)
LEMMA DeleteVerticesAdvances ==
  ASSUME Inv, NEW l \in Loaders, DeleteVertices(l)
  PROVE  Advances(l)
<1> DEFINE x == txn[l]
           v == View(x)
           t == deleteFile[x.step][1]
           rows == { r \in v[t] : r.file = x.id }
           z == Delete(x, t, rows)
           y == Next1(z, deleteFile, "insert")
           dom == {"stage", "given", "ff", "load", "id", "step", "dels", "adds", "locks"}
<1>1. x.stage = "delete" /\ deleteFile[x.step][2] = "rows"
  BY DEF DeleteVertices, At
<1>2. Given(x) /\ Resolved(x, last) /\ Deleting(x, db, last)
  BY <1>1, DeletingView
<1>3. /\ x.step \in {22, 23} /\ (x.step = 22 => t = "occurrence") /\ (x.step = 23 => t = "scope")
  <2>1. x.step \in 1..23
    BY <1>2 DEF Deleting
  <2> QED BY <1>1, <2>1, Steps
<1>4. x.dels[t] = {} /\ t \in {"scope", "occurrence"} /\ t \in Tables /\ t \in Base
  BY <1>2, <1>3, AllTables DEF Deleting
<1>5. ~Refers(v, t, Of(v, t, x.id))
  BY <1>1, <1>3, <1>4, NothingRefers
<1>6. To(l, y)
  <2>1. IF Refers(v, t, Of(v, t, x.id)) THEN Rollback(l, "refused") ELSE To(l, y)
    BY DEF DeleteVertices
  <2> HIDE DEF y, v, t
  <2> QED BY <1>5, <2>1
<1>7. rows = OldRows(x, last, t)
  BY <1>1, <1>4, DeletingView
<1>8. rows \subseteq db[t]
  <2>1. v[t] = db[t] \ x.dels[t]
    BY <1>1, <1>4, DeletingView
  <2> HIDE DEF v, t
  <2> QED BY <2>1
<1> HIDE DEF rows
<1>9. /\ DOMAIN z = dom /\ DOMAIN z.dels = Tables /\ DOMAIN z.adds = Tables
      /\ z.stage = x.stage /\ z.given = x.given /\ z.ff = x.ff /\ z.load = x.load
      /\ z.id = x.id /\ z.step = x.step
      /\ z.dels[t] = x.dels[t] \cup (rows \cap db[t]) /\ z.adds[t] = x.adds[t] \ rows
      /\ \A s \in Tables \ {t} : z.dels[s] = x.dels[s] /\ z.adds[s] = x.adds[s]
  <2>1. DOMAIN x = dom /\ DOMAIN x.dels = Tables /\ DOMAIN x.adds = Tables
    BY <1>2 DEF Given
  <2>2. t \in Tables
    BY <1>4
  <2> HIDE DEF x, t
  <2> QED BY <2>1, <2>2, Deleted
<1> HIDE DEF z
<1>10. LET w == Next1(z, deleteFile, "insert")
       IN /\ DOMAIN w = DOMAIN z
          /\ w.given = z.given /\ w.ff = z.ff /\ w.load = z.load /\ w.id = z.id
          /\ w.dels = z.dels /\ w.adds = z.adds
          /\ z.step = Len(deleteFile) => w.stage = "insert" /\ w.step = 1
          /\ z.step # Len(deleteFile) => w.stage = z.stage /\ w.step = z.step + 1
  <2>1. DOMAIN z = dom
    BY <1>9
  <2> QED BY <2>1, Advance
<1>11. /\ DOMAIN y = dom /\ y.given = x.given /\ y.ff = x.ff /\ y.load = x.load
       /\ y.id = x.id /\ y.dels = z.dels /\ y.adds = z.adds
       /\ x.step = 23 => y.stage = "insert" /\ y.step = 1
       /\ x.step = 22 => y.stage = "delete" /\ y.step = x.step + 1
  <2> HIDE DEF x
  <2> QED BY <1>1, <1>3, <1>9, <1>10, EveryEdge DEF x
<1>12. t = deleteFile[x.step][1]
  OBVIOUS
<1> HIDE DEF x, v, t, y
<1>13. y.dels[t] = OldRows(x, last, t) /\ \A s \in Tables \ {t} : y.dels[s] = x.dels[s]
  BY <1>4, <1>7, <1>8, <1>9, <1>11
<1>14. \A s \in Tables : y.adds[s] = x.adds[s] /\ x.dels[s] \subseteq y.dels[s]
  <2>1. x.adds[t] = {}
    BY <1>2, <1>4 DEF Deleting
  <2> QED BY <1>4, <1>9, <1>11, <1>13, <2>1
<1>15. \A s : OldRows(y, last, s) = OldRows(x, last, s) /\ Owner(y, last) = Owner(x, last)
  BY <1>11 DEF OldRows, Owner
<1>16. Given(y)
  BY <1>2, <1>9, <1>11 DEF Given
<1>17. t \notin {"file", "imports"} /\ "file" \in Tables /\ "imports" \in Tables
  BY <1>4, AllTables
<1>18. \A s \in Base : y.dels[s] \subseteq OldRows(x, last, s)
  <2> TAKE s \in Base
  <2>1. x.dels[s] \subseteq OldRows(x, last, s) /\ s \in Tables
    BY <1>2, AllTables DEF Deleting
  <2> QED BY <1>13, <2>1
<1>19. CASE x.step = 22
  <2>1. t = "occurrence"
    BY <1>3, <1>19
  <2>2. Gone(y, db, last, t, deleteFile[x.step][2])
    BY <1>4, <1>13, <1>15, AllTables DEF Gone
  <2>3. y.dels["scope"] = {}
    BY <1>2, <1>13, <2>1, AllTables DEF Deleting
  <2>4. y.dels.file = x.dels.file /\ \A r \in y.dels.imports : r.source = x.id
    BY <1>2, <1>13, <1>17 DEF Resolved
  <2>5. Resolved(y, last) /\ Deleting(y, db, last)
    BY <1>2, <1>11, <1>12, <1>14, <1>18, <1>19, <2>2, <2>3, <2>4, DeleteStep
  <2> QED BY <1>1, <1>6, <1>11, <1>16, <1>19, <2>5 DEF Advances, Progress, Live, Holding, x
<1>20. CASE x.step = 23
  <2>1. t = "scope"
    BY <1>3, <1>20
  <2>2. \A s \in Base : y.dels[s] = OldRows(y, last, s)
    <3> TAKE s \in Base
    <3>1. CASE s = "scope"
      BY <1>13, <1>15, <2>1, <3>1
    <3>2. CASE s # "scope"
      <4>1. PICK k \in 1..22 : deleteFile[k][1] = s
        BY <3>2, AllTables, EveryEdge, Steps
      <4>2. Gone(x, db, last, s, deleteFile[k][2])
        BY <1>2, <1>20, <4>1 DEF Deleting
      <4>3. OldRows(x, last, s) \subseteq x.dels[s]
        BY <4>2 DEF Gone
      <4> QED BY <1>14, <1>15, <1>18, <4>3, AllTables
    <3> QED BY <3>1, <3>2
  <2>3. Resolved(y, last)
    BY <1>2, <1>11, <1>13, <1>14, <1>15, <1>17, AllTables DEF Resolved
  <2>4. \A k \in 1..6 : y.adds[insertRows[k]] = {}
    BY <1>2, <1>14, CopySteps, AllTables DEF Deleting
  <2>5. Inserting(y, last, y.step)
    <3>1. Flattens(y.ff) /\ y.step = 1 /\ y.step \in 1..6 /\ \A k \in 1..6 : ~(k < y.step)
      BY <1>2, <1>11, <1>20 DEF Deleting
    <3> QED BY <2>2, <2>4, <3>1 DEF Inserting
  <2> QED BY <1>1, <1>6, <1>11, <1>16, <1>20, <2>3, <2>5 DEF Advances, Progress, Live, Holding, x
<1> QED BY <1>3, <1>19, <1>20

(* No COPY is refused: the ends of the edges were copied before them.       *)
LEMMA CopyAdvances ==
  ASSUME Inv, NEW l \in Loaders, Copy(l)
  PROVE  Advances(l)
<1> DEFINE x == txn[l]
           v == View(x)
           t == insertRows[x.step]
           rows == flatten(x.ff, x.load, x.id)[t]
           z == Insert(x, t, rows)
           y == Next1(z, insertRows, "loaded")
           there == t \in Edges =>
             \A r \in rows : \A side \in {"source", "target"} :
               r[side] \in { q.id : q \in v[Ends(t)[side]] }
           dom == {"stage", "given", "ff", "load", "id", "step", "dels", "adds", "locks"}
<1>1. x.stage = "insert"
  BY DEF Copy, At
<1>2. Given(x) /\ Resolved(x, last) /\ Inserting(x, last, x.step)
  BY <1>1, Stage DEF Live
<1>3. x.step \in 1..6 /\ t \in Base /\ t \in Tables /\ Flattens(x.ff)
  BY <1>2, CopySteps, AllTables DEF Inserting
<1>4. \A s \in {"scope", "occurrence", "file"} : x.adds[s] \subseteq v[s]
  BY Viewed, AllTables
<1>5. there
  <2> SUFFICES ASSUME t \in Edges, NEW r \in rows, NEW side \in {"source", "target"}
               PROVE  r[side] \in { q.id : q \in v[Ends(t)[side]] }
    OBVIOUS
  <2>1. t \in OwnEdges /\ x.step > 2
    BY <1>3, CopySteps, AllTables
  <2>2. /\ x.adds["scope"] = NewRows(x, "scope")
        /\ x.adds["occurrence"] = NewRows(x, "occurrence")
    BY <1>2, <1>3, <2>1, CopySteps DEF Inserting
  <2>3. x.adds["file"] = {FileRow(x.id, x.ff)}
    BY <1>2 DEF Resolved
  <2>4. Ends(t)[side] \in {"file", "scope", "occurrence"}
    BY <2>1, EndTables
  <2>5. /\ Ends(t)[side] = "file" => r[side] = x.id
        /\ Ends(t)[side] # "file" => \E q \in NewRows(x, Ends(t)[side]) : q.id = r[side]
    BY <1>3, <2>1, FlattenEnds DEF NewRows
  <2>6. FileRow(x.id, x.ff).id = x.id
    BY DEF FileRow
  <2> HIDE DEF x, v, t, rows
  <2>7. \E q \in x.adds[Ends(t)[side]] : q.id = r[side]
    BY <2>2, <2>3, <2>4, <2>5, <2>6
  <2> QED BY <1>4, <2>4, <2>7
<1>6. To(l, y)
  <2>1. IF there THEN To(l, y) ELSE Rollback(l, "refused")
    BY DEF Copy
  <2> HIDE DEF there, y
  <2> QED BY <1>5, <2>1
<1>7. rows = NewRows(x, t)
  BY DEF NewRows
<1> HIDE DEF rows, there
<1>8. /\ DOMAIN z = dom /\ DOMAIN z.dels = Tables /\ DOMAIN z.adds = Tables
      /\ z.stage = x.stage /\ z.given = x.given /\ z.ff = x.ff /\ z.load = x.load
      /\ z.id = x.id /\ z.step = x.step /\ z.dels = x.dels
      /\ z.adds[t] = x.adds[t] \cup rows
      /\ \A s \in Tables \ {t} : z.adds[s] = x.adds[s]
  <2>1. DOMAIN x = dom /\ DOMAIN x.dels = Tables /\ DOMAIN x.adds = Tables
    BY <1>2 DEF Given
  <2>2. t \in Tables
    BY <1>3
  <2> HIDE DEF x, t
  <2> QED BY <2>1, <2>2, Inserted
<1> HIDE DEF z
<1>9. LET w == Next1(z, insertRows, "loaded")
      IN /\ DOMAIN w = DOMAIN z
         /\ w.given = z.given /\ w.ff = z.ff /\ w.load = z.load /\ w.id = z.id
         /\ w.dels = z.dels /\ w.adds = z.adds
         /\ z.step = Len(insertRows) => w.stage = "loaded" /\ w.step = 1
         /\ z.step # Len(insertRows) => w.stage = z.stage /\ w.step = z.step + 1
  <2>1. DOMAIN z = dom
    BY <1>8
  <2> QED BY <2>1, Advance
<1>10. /\ DOMAIN y = dom /\ y.given = x.given /\ y.ff = x.ff /\ y.load = x.load
       /\ y.id = x.id /\ y.dels = x.dels /\ y.adds = z.adds
       /\ x.step = 6 => y.stage = "loaded" /\ y.step = 1
       /\ x.step # 6 => y.stage = "insert" /\ y.step = x.step + 1
  <2> HIDE DEF x
  <2> QED BY <1>1, <1>8, <1>9, CopySteps DEF x
<1>11. t = insertRows[x.step]
  OBVIOUS
<1> HIDE DEF x, v, t, y
<1>12. x.adds[t] = {}
  BY <1>2, <1>3, <1>11 DEF Inserting
<1>13. \A s : OldRows(y, last, s) = OldRows(x, last, s) /\ NewRows(y, s) = NewRows(x, s)
  BY <1>10 DEF OldRows, NewRows, Owner
<1>14. Given(y)
  BY <1>2, <1>8, <1>10 DEF Given
<1>15. Resolved(y, last)
  <2>1. \A s \in Tables \ Base : y.adds[s] = x.adds[s]
    BY <1>3, <1>8, <1>10
  <2>2. Owner(y, last) = Owner(x, last)
    BY <1>10 DEF Owner
  <2> QED BY <1>2, <1>10, <2>1, <2>2, AllTables DEF Resolved
<1>16. \A k \in 1..6 : y.adds[insertRows[k]] =
                         IF k < x.step + 1 THEN NewRows(y, insertRows[k]) ELSE {}
  <2> TAKE k \in 1..6
  <2>1. insertRows[k] \in Tables
    BY CopySteps, AllTables
  <2>2. CASE k = x.step
    BY <1>3, <1>7, <1>8, <1>10, <1>11, <1>12, <1>13, <2>2
  <2>3. CASE k # x.step
    <3>1. insertRows[k] # t
      BY <1>3, <1>11, <2>3, CopySteps
    <3>2. y.adds[insertRows[k]] = x.adds[insertRows[k]]
      BY <1>8, <1>10, <2>1, <3>1
    <3>3. x.adds[insertRows[k]] = IF k < x.step THEN NewRows(x, insertRows[k]) ELSE {}
      BY <1>2 DEF Inserting
    <3> QED BY <1>3, <1>13, <2>3, <3>2, <3>3
  <2> QED BY <2>2, <2>3
<1>17. Flattens(y.ff) /\ \A s \in Base : y.dels[s] = OldRows(y, last, s)
  BY <1>2, <1>10, <1>13 DEF Inserting
<1>18. CASE x.step = 6
  <2>1. Inserting(y, last, 7)
    BY <1>10, <1>16, <1>17, <1>18 DEF Inserting
  <2> QED BY <1>1, <1>6, <1>10, <1>14, <1>15, <1>18, <2>1 DEF Advances, Progress, Live, Holding, x
<1>19. CASE x.step # 6
  <2>1. Inserting(y, last, y.step)
    BY <1>3, <1>10, <1>16, <1>17, <1>19 DEF Inserting
  <2> QED BY <1>1, <1>6, <1>10, <1>14, <1>15, <1>19, <2>1 DEF Advances, Progress, Live, Holding, x
<1> QED BY <1>18, <1>19

-----------------------------------------------------------------------------
(* The steps of the system.                                                 *)

(* A step of a transaction keeps the invariant of the whole.                *)
LEMMA AdvancesKeeps ==
  ASSUME Inv, NEW l \in Loaders, Live(txn[l]), Advances(l)
  PROVE  Inv'
<1>1. ASSUME NEW how \in {"none", "invalid"}, Rollback(l, how) PROVE Inv'
  <2>1. /\ txn' = [txn EXCEPT ![l] = None] /\ end' = [end EXCEPT ![l] = how]
        /\ UNCHANGED <<db, loads, last>>
    BY <1>1 DEF Rollback, Finish
  <2>2. /\ DOMAIN txn = Loaders /\ DOMAIN end = Loaders
        /\ DOMAIN txn' = Loaders /\ DOMAIN end' = Loaders
        /\ txn'[l] = None /\ end'[l] = how
        /\ \A k \in Loaders \ {l} : txn'[k] = txn[k] /\ end'[k] = end[k]
    BY <2>1 DEF Inv, Sound, Outcomes
  <2>3. ~Live(None) /\ ~Holding(None)
    BY DEF Live, Holding, None
  <2>4. Distinct' /\ Committed'
    BY <2>1 DEF Inv, Distinct, Committed
  <2>5. Fresh' /\ PathsHeld'
    BY <2>1, <2>2, <2>3 DEF Inv, Fresh, PathsHeld
  <2>6. Sound'
    BY <2>1, <2>2, <2>3 DEF Inv, Sound
  <2>7. Outcomes'
    BY <2>2 DEF Inv, Outcomes
  <2> QED BY <2>4, <2>5, <2>6, <2>7 DEF Inv
<1>2. ASSUME NEW y, To(l, y), Live(y), Given(y), Progress(y, db, last),
             y.load = txn[l].load, y.ff = txn[l].ff,
             Holding(y) => \/ Holding(txn[l])
                           \/ \A k \in Loaders \ {l} :
                                Holding(txn[k]) => txn[k].ff.path # y.ff.path
      PROVE  Inv'
  <2>1. txn' = [txn EXCEPT ![l] = y] /\ UNCHANGED <<db, loads, last, end>>
    BY <1>2 DEF To
  <2>2. /\ DOMAIN txn = Loaders /\ DOMAIN txn' = Loaders /\ txn'[l] = y
        /\ \A k \in Loaders \ {l} : txn'[k] = txn[k]
    BY <2>1 DEF Inv, Sound
  <2>3. Distinct' /\ Committed' /\ Outcomes'
    BY <2>1 DEF Inv, Distinct, Committed, Outcomes
  <2>4. Fresh'
    BY <1>2, <2>1, <2>2 DEF Inv, Fresh
  <2>5. PathsHeld'
    <3>1. \A k \in Loaders \ {l} : Holding(y) /\ Holding(txn[k]) => txn[k].ff.path # y.ff.path
      BY <1>2 DEF Inv, PathsHeld
    <3> QED BY <2>2, <3>1 DEF Inv, PathsHeld
  <2>6. Sound'
    BY <1>2, <2>1, <2>2 DEF Inv, Sound
  <2> QED BY <2>3, <2>4, <2>5, <2>6 DEF Inv
<1> QED BY <1>1, <1>2 DEF Advances

(* A load that begins takes a number nobody has.                            *)
LEMMA BeginKeeps ==
  ASSUME Inv, NEW l \in Loaders, NEW ff \in Offered, NEW artifact \in BOOLEAN,
         Begin(l, ff, artifact)
  PROVE  Inv'
<1>1. /\ txn[l].stage = "idle" /\ loads < MaxLoads /\ loads' = loads + 1
      /\ artifact => Encodable(ff)
      /\ UNCHANGED <<db, last>>
  BY DEF Begin, At
<1>2. DOMAIN txn = Loaders /\ DOMAIN end = Loaders /\ loads \in Nat /\ MaxLoads \in Nat
  BY BoundsAssumption DEF Inv, Sound, Outcomes, Distinct
<1>3. Distinct'
  <2>1. loads' \in Nat /\ loads' <= MaxLoads /\ \A i \in Int : i <= loads => i <= loads'
    BY <1>1, <1>2
  <2>2. last' = last
    BY <1>1
  <2> QED BY <2>1, <2>2 DEF Inv, Distinct
<1>4. Committed'
  BY <1>1 DEF Inv, Committed
<1>5. ASSUME NEW k \in Loaders, Live(txn[k])
      PROVE  txn[k].load \in 1..loads' /\ txn[k].load # loads'
  BY <1>1, <1>2, <1>5 DEF Inv, Fresh
<1>6. CASE ff.parseError # ""
  <2>1. txn' = txn /\ end' = [end EXCEPT ![l] = "skipped"]
    BY <1>6 DEF Begin
  <2>2. Fresh' /\ PathsHeld' /\ Sound'
    BY <1>1, <1>5, <2>1 DEF Inv, Fresh, PathsHeld, Sound
  <2>3. Outcomes'
    BY <1>2, <2>1 DEF Inv, Outcomes
  <2> QED BY <1>3, <1>4, <2>2, <2>3 DEF Inv
<1>7. CASE ff.parseError = ""
  <2> DEFINE y == [stage |-> "begun", given |-> ff,
                   ff |-> IF artifact THEN decode(encode(ff)) ELSE ff,
                   load |-> loads', id |-> NoID, step |-> 1,
                   dels |-> Empty, adds |-> Empty, locks |-> Empty]
  <2>1. txn' = [txn EXCEPT ![l] = y] /\ end' = [end EXCEPT ![l] = "none"]
    BY <1>7 DEF Begin
  <2>2. Same(y.ff, y.given)
    BY <1>1 DEF Same
  <2>3. Given(y)
    BY <1>7, <2>2 DEF Given, Empty
  <2>4. Progress(y, db, last) /\ Live(y) /\ ~Holding(y) /\ y.load = loads'
    BY DEF Progress, Live, Holding
  <2> HIDE DEF y
  <2>5. /\ DOMAIN txn' = Loaders /\ txn'[l] = y
        /\ \A k \in Loaders \ {l} : txn'[k] = txn[k]
    BY <1>2, <2>1
  <2>6. \A h \in last : h.load # loads' /\ h.id.load # loads'
    <3> TAKE h \in last
    <3>1. h.load \in Int /\ h.load <= loads /\ h.id.load \in Int /\ h.id.load <= loads
      BY DEF Inv, Distinct
    <3> QED BY <1>1, <1>2, <3>1
  <2>7. Fresh'
    <3>1. loads' \in 1..loads'
      BY <1>1, <1>2
    <3> QED BY <1>1, <1>5, <2>4, <2>5, <2>6, <3>1 DEF Inv, Fresh
  <2>8. PathsHeld'
    BY <2>4, <2>5 DEF Inv, PathsHeld
  <2>9. Sound'
    BY <1>1, <2>3, <2>4, <2>5 DEF Inv, Sound
  <2>10. Outcomes'
    BY <1>2, <2>1 DEF Inv, Outcomes
  <2> QED BY <1>3, <1>4, <2>7, <2>8, <2>9, <2>10 DEF Inv
<1> QED BY <1>6, <1>7

(* A rebuild rewrites derived edges and imports, and meets no load that has *)
(* looked anything up.                                                      *)
LEMMA RebuildKeeps ==
  ASSUME Inv, RebuildAll
  PROVE  Inv'
<1>1. db' = Relinked(db) /\ UNCHANGED <<txn, loads, last, end>>
  BY DEF RebuildAll
<1>2. /\ DOMAIN db' = Tables
      /\ \A t \in Base \cup {"file"} : db'[t] = db[t]
      /\ \A t \in Range(Derived) \cup {"imports"} : \A r \in db'[t] : DOMAIN r = {"source", "target"}
  <2>1. DOMAIN db' = Tables
    BY <1>1 DEF Relinked
  <2>2. ASSUME NEW t \in Base \cup {"file"} PROVE db'[t] = db[t]
    BY <1>1, <2>2, AllTables DEF Relinked
  <2>3. ASSUME NEW t \in Range(Derived) PROVE \A r \in db'[t] : DOMAIN r = {"source", "target"}
    BY <1>1, <2>3, AllTables DEF Relinked
  <2>4. \A r \in db'["imports"] : DOMAIN r = {"source", "target"}
    BY <1>1, AllTables DEF Relinked
  <2> QED BY <2>1, <2>2, <2>3, <2>4
<1>3. Committed'
  BY <1>1, <1>2, AllTables DEF Inv, Committed
<1>4. Distinct' /\ Fresh' /\ PathsHeld' /\ Outcomes'
  BY <1>1 DEF Inv, Distinct, Fresh, PathsHeld, Outcomes
<1>5. Sound'
  <2>1. ASSUME NEW l \in Loaders, Live(txn[l]) PROVE Progress(txn[l], db', last)
    <3>1. txn[l].stage = "begun"
      BY <2>1 DEF RebuildAll, Open, Live
    <3> QED BY <2>1, <3>1, Stage DEF Progress
  <2> QED BY <1>1, <2>1 DEF Inv, Sound
<1> QED BY <1>3, <1>4, <1>5 DEF Inv

(* What a committed load leaves: its row and its rows in place of the old ones. *)
LEMMA Committing ==
  ASSUME Inv, NEW l \in Loaders, Commit(l)
  PROVE  LET x == txn[l]
             n == [ff |-> x.given, load |-> x.load, id |-> x.id]
         IN /\ last' = (last \ Owner(x, last)) \cup {n}
            /\ db' = View(x) /\ loads' = loads
            /\ txn' = [txn EXCEPT ![l] = None] /\ end' = [end EXCEPT ![l] = "committed"]
            /\ Given(x) /\ Resolved(x, last) /\ Inserting(x, last, 7)
            /\ x.stage = "loaded"
            /\ Flattens(n.ff) /\ n.ff.parseError = "" /\ n.ff.path = x.ff.path
            /\ FileRow(n.id, n.ff) = FileRow(x.id, x.ff)
            /\ \A t : Rows(n)[t] = NewRows(x, t)
<1> DEFINE x == txn[l]
           n == [ff |-> x.given, load |-> x.load, id |-> x.id]
<1>1. x.stage = "loaded" /\ Live(x)
  BY DEF Commit, At, Live
<1>2. /\ db' = View(x) /\ loads' = loads
      /\ txn' = [txn EXCEPT ![l] = None] /\ end' = [end EXCEPT ![l] = "committed"]
      /\ last' = { h \in last : h.ff.path # x.ff.path } \cup {n}
  BY DEF Commit, Finish
<1>3. Given(x) /\ Resolved(x, last) /\ Inserting(x, last, 7)
  BY <1>1, Stage
<1>4. /\ x.ff.path = x.given.path /\ x.ff.lang = x.given.lang /\ x.ff.coord = x.given.coord
      /\ Flattens(x.ff) => Flattens(x.given)
      /\ \A load, file : flatten(x.ff, load, file) = flatten(x.given, load, file)
      /\ x.given.parseError = ""
  BY <1>3, SameFacts DEF Given
<1>5. n.ff = x.given /\ n.load = x.load /\ n.id = x.id
  OBVIOUS
<1>6. last' = (last \ Owner(x, last)) \cup {n}
  <2> HIDE DEF x, n
  <2> QED BY <1>2 DEF Owner
<1>7. FileRow(n.id, n.ff) = FileRow(x.id, x.ff)
  BY <1>4, <1>5 DEF FileRow
<1>8. \A t : Rows(n)[t] = NewRows(x, t)
  BY <1>4, <1>5 DEF Rows, NewRows
<1>9. Flattens(x.ff)
  BY <1>3 DEF Inserting
<1> HIDE DEF x, n
<1>10. Flattens(n.ff) /\ n.ff.parseError = "" /\ n.ff.path = x.ff.path
  BY <1>4, <1>5, <1>9
<1> QED BY <1>1, <1>2, <1>3, <1>6, <1>7, <1>8, <1>10 DEF x, n

(* Two transactions past the lookup have two files. *)
LEMMA TwoFiles ==
  ASSUME Inv, NEW k \in Loaders, NEW l \in Loaders, k # l, Live(txn[k]), Live(txn[l]),
         Holding(txn[k]), Holding(txn[l]), Resolved(txn[k], last), Resolved(txn[l], last)
  PROVE  txn[k].id # txn[l].id /\ txn[k].ff.path # txn[l].ff.path
<1>1. txn[k].ff.path # txn[l].ff.path
  BY DEF Inv, PathsHeld
<1>2. SUFFICES ASSUME txn[k].id = txn[l].id PROVE FALSE
  BY <1>1
<1>3. ASSUME NEW h \in last, h.id = txn[k].id PROVE FALSE
  BY <1>1, <1>2, <1>3 DEF Resolved
<1>4. Owner(txn[k], last) = {} /\ Owner(txn[l], last) = {}
  BY <1>2, <1>3 DEF Resolved, Owner
<1>5. FileId(txn[k].load) = FileId(txn[l].load)
  BY <1>2, <1>4 DEF Resolved
<1>6. txn[k].load = txn[l].load
  BY <1>5 DEF FileId, UUID
<1> QED BY <1>6 DEF Inv, Fresh

(* A commit leaves one load per path, with an id and a number of its own.   *)
LEMMA CommitDistinct ==
  ASSUME Inv, NEW l \in Loaders, Commit(l)
  PROVE  Distinct' /\ Fresh' /\ PathsHeld' /\ Outcomes'
<1> DEFINE x == txn[l]
           n == [ff |-> x.given, load |-> x.load, id |-> x.id]
<1>1. /\ last' = (last \ Owner(x, last)) \cup {n}
      /\ loads' = loads
      /\ txn' = [txn EXCEPT ![l] = None] /\ end' = [end EXCEPT ![l] = "committed"]
      /\ Resolved(x, last) /\ x.stage = "loaded"
      /\ Flattens(n.ff) /\ n.ff.parseError = "" /\ n.ff.path = x.ff.path
  BY Committing
<1>2. n.load = x.load /\ n.id = x.id
  OBVIOUS
<1>3. /\ DOMAIN txn' = Loaders /\ txn'[l] = None
      /\ \A k \in Loaders \ {l} : txn'[k] = txn[k]
  BY <1>1 DEF Inv, Sound
<1>4. ~Live(None) /\ ~Holding(None) /\ Live(x)
  BY <1>1 DEF Live, Holding, None
<1>5. x.load \in 1..loads /\ loads \in Nat
  BY <1>4 DEF Inv, Fresh, Distinct
<1>6. x.id.load \in Int /\ x.id.load <= loads /\ x.id = FileId(x.id.load)
  <2>1. CASE Owner(x, last) = {}
    <3>1. x.id = FileId(x.load)
      BY <1>1, <2>1 DEF Resolved
    <3>2. x.id.load = x.load
      BY <3>1 DEF FileId, UUID
    <3> HIDE DEF x
    <3> QED BY <1>5, <3>1, <3>2
  <2>2. CASE Owner(x, last) # {}
    <3>1. PICK h \in last : h.ff.path = x.ff.path
      BY <2>2 DEF Owner
    <3>2. h.id = x.id
      BY <1>1, <3>1 DEF Resolved
    <3> HIDE DEF x
    <3> QED BY <3>2 DEF Inv, Distinct
  <2> QED BY <2>1, <2>2
<1>7. \A h \in last \ Owner(x, last) :
        h.ff.path # x.ff.path /\ h.id # x.id /\ h.load # x.load
  BY <1>1, <1>4 DEF Resolved, Owner, Inv, Fresh
<1>8. Distinct'
  <2> HIDE DEF x, n
  <2>1. loads' \in Nat /\ loads' <= MaxLoads
    BY <1>1 DEF Inv, Distinct
  <2>2. ASSUME NEW h \in last'
        PROVE  /\ Flattens(h.ff) /\ h.ff.parseError = ""
               /\ h.load \in Int /\ h.load <= loads
               /\ h.id.load \in Int /\ h.id.load <= loads /\ h.id = FileId(h.id.load)
    <3>1. CASE h = n
      <4>1. x.load \in Int /\ x.load <= loads
        BY <1>5
      <4>2. n.load \in Int /\ n.load <= loads
        BY <1>2, <4>1
      <4>3. n.id.load \in Int /\ n.id.load <= loads /\ n.id = FileId(n.id.load)
        BY <1>2, <1>6
      <4> QED BY <1>1, <3>1, <4>2, <4>3
    <3>2. CASE h \in last
      BY <3>2 DEF Inv, Distinct
    <3> QED BY <1>1, <2>2, <3>1, <3>2
  <2>3. ASSUME NEW g \in last', NEW h \in last',
               g.ff.path = h.ff.path \/ g.load = h.load \/ g.id = h.id
        PROVE  g = h
    <3>1. CASE g \in last /\ h \in last
      BY <2>3, <3>1 DEF Inv, Distinct
    <3>2. CASE g = n /\ h # n
      BY <1>1, <1>2, <1>7, <2>3, <3>2
    <3>3. CASE h = n /\ g # n
      BY <1>1, <1>2, <1>7, <2>3, <3>3
    <3> QED BY <1>1, <2>3, <3>1, <3>2, <3>3
  <2> QED BY <1>1, <2>1, <2>2, <2>3 DEF Distinct
<1>9. ASSUME NEW k \in Loaders \ {l}, Live(txn[k])
      PROVE  txn[k].load # x.load /\ x.id.load # txn[k].load
  <2>1. txn[k].load # x.load
    BY <1>4, <1>9 DEF Inv, Fresh
  <2>2. CASE Owner(x, last) = {}
    <3>1. x.id = FileId(x.load)
      BY <1>1, <2>2 DEF Resolved
    <3>2. x.id.load = x.load
      BY <3>1 DEF FileId, UUID
    <3> QED BY <2>1, <3>2
  <2>3. CASE Owner(x, last) # {}
    <3>1. PICK h \in last : h.ff.path = x.ff.path
      BY <2>3 DEF Owner
    <3>2. h.id = x.id
      BY <1>1, <3>1 DEF Resolved
    <3> QED BY <1>9, <2>1, <3>2 DEF Inv, Fresh
  <2> QED BY <2>1, <2>2, <2>3
<1>10. Fresh'
  <2> HIDE DEF x, n
  <2>1. ASSUME NEW k \in Loaders, Live(txn'[k])
        PROVE  /\ txn'[k] = txn[k] /\ k # l
               /\ txn[k].load \in 1..loads
               /\ \A h \in last' : h.load # txn[k].load /\ h.id.load # txn[k].load
    <3>1. k # l /\ txn'[k] = txn[k]
      BY <1>3, <1>4, <2>1
    <3>2. /\ txn[k].load \in 1..loads
          /\ \A h \in last : h.load # txn[k].load /\ h.id.load # txn[k].load
      BY <2>1, <3>1 DEF Inv, Fresh
    <3>3. n.load # txn[k].load /\ n.id.load # txn[k].load
      BY <1>2, <1>9, <2>1, <3>1
    <3> QED BY <1>1, <3>1, <3>2, <3>3
  <2>2. ASSUME NEW j \in Loaders, NEW k \in Loaders, Live(txn'[j]), Live(txn'[k]),
               txn'[j].load = txn'[k].load
        PROVE  j = k
    BY <2>1, <2>2 DEF Inv, Fresh
  <2> QED BY <1>1, <2>1, <2>2 DEF Fresh
<1>11. PathsHeld'
  BY <1>3, <1>4 DEF Inv, PathsHeld
<1>12. Outcomes'
  BY <1>1 DEF Inv, Outcomes
<1> QED BY <1>8, <1>10, <1>11, <1>12

(* A commit leaves the tables the union of the rows of each path's last     *)
(* load.                                                                    *)
LEMMA CommitTables ==
  ASSUME Inv, NEW l \in Loaders, Commit(l)
  PROVE  Committed'
<1> DEFINE x == txn[l]
           n == [ff |-> x.given, load |-> x.load, id |-> x.id]
           old == Owner(x, last)
<1>1. /\ last' = (last \ old) \cup {n}
      /\ db' = View(x)
      /\ Given(x) /\ Resolved(x, last) /\ Inserting(x, last, 7)
      /\ Flattens(n.ff)
      /\ FileRow(n.id, n.ff) = FileRow(x.id, x.ff)
      /\ \A t : Rows(n)[t] = NewRows(x, t)
  BY Committing
<1>2. \A t \in Tables : db'[t] = (db[t] \ x.dels[t]) \cup x.adds[t]
  BY <1>1, Viewed
<1>3. DOMAIN db' = Tables
  BY <1>1 DEF View
<1>4. old \subseteq last
  BY DEF Owner
<1> HIDE DEF x, n, old
<1>5. db'.file = { FileRow(h.id, h.ff) : h \in last' }
  <2>1. db.file = { FileRow(h.id, h.ff) : h \in last }
    BY DEF Inv, Committed
  <2>2. x.dels.file = { FileRow(h.id, h.ff) : h \in old } /\ x.adds.file = { FileRow(x.id, x.ff) }
    BY <1>1 DEF Resolved, old
  <2>3. db'["file"] = (db["file"] \ x.dels["file"]) \cup x.adds["file"]
    BY <1>2, AllTables
  <2>4. \A g, h \in last : FileRow(g.id, g.ff) = FileRow(h.id, h.ff) => g = h
    <3>1. \A h : FileRow(h.id, h.ff).id = h.id
      BY DEF FileRow
    <3>2. \A g, h \in last : g.id = h.id => g = h
      BY DEF Inv, Distinct
    <3> QED BY <3>1, <3>2
  <2>5. db["file"] \ x.dels["file"] = { FileRow(h.id, h.ff) : h \in last \ old }
    BY <1>4, <2>1, <2>2, <2>4
  <2> QED BY <1>1, <2>2, <2>3, <2>5
<1>6. ASSUME NEW t \in Base
      PROVE  db'[t] = UNION { Rows(h)[t] : h \in last' }
  <2>1. db[t] = UNION { Rows(h)[t] : h \in last }
    BY DEF Inv, Committed
  <2>2. x.dels[t] = UNION { Rows(h)[t] : h \in old }
    BY <1>1 DEF Inserting, OldRows, old
  <2>3. x.adds[t] = Rows(n)[t]
    <3>1. PICK k \in 1..6 : insertRows[k] = t
      BY CopySteps
    <3>2. k < 7
      OBVIOUS
    <3>3. x.adds[t] = NewRows(x, t)
      BY <1>1, <3>1, <3>2 DEF Inserting
    <3> QED BY <1>1, <3>3
  <2>4. \A g, h \in last : \A r \in Rows(g)[t] : r \in Rows(h)[t] => g = h
    BY OneOwner DEF Inv
  <2>5. db[t] \ x.dels[t] = UNION { Rows(h)[t] : h \in last \ old }
    BY <1>4, <2>1, <2>2, <2>4
  <2>6. db'[t] = (db[t] \ x.dels[t]) \cup x.adds[t]
    BY <1>2, AllTables
  <2> QED BY <1>1, <2>3, <2>5, <2>6
<1>7. ASSUME NEW t \in Edges, NEW r \in db'[t] PROVE DOMAIN r = {"source", "target"}
  <2>1. CASE t \in OwnEdges
    <3>1. PICK h \in last' : r \in Rows(h)[t]
      BY <1>6, <1>7, <2>1, AllTables
    <3>2. Flattens(h.ff)
      BY <1>1, <3>1 DEF Inv, Distinct
    <3> QED BY <2>1, <3>1, <3>2, RowsOf
  <2>2. CASE t \notin OwnEdges
    <3>1. t \in Tables /\ x.adds[t] = {}
      BY <1>1, <2>2, AllTables DEF Resolved
    <3> QED BY <1>2, <1>7, <3>1 DEF Inv, Committed
  <2> QED BY <2>1, <2>2
<1> QED BY <1>3, <1>5, <1>6, <1>7 DEF Committed

(* A commit does not disturb the other transactions. *)
LEMMA CommitSound ==
  ASSUME Inv, NEW l \in Loaders, Commit(l)
  PROVE  Sound'
<1> DEFINE x == txn[l]
           n == [ff |-> x.given, load |-> x.load, id |-> x.id]
<1>1. /\ last' = (last \ Owner(x, last)) \cup {n}
      /\ db' = View(x)
      /\ txn' = [txn EXCEPT ![l] = None]
      /\ Resolved(x, last) /\ x.stage = "loaded"
      /\ n.ff.path = x.ff.path
  BY Committing
<1>2. /\ DOMAIN txn' = Loaders /\ txn'[l] = None
      /\ \A k \in Loaders \ {l} : txn'[k] = txn[k]
  BY <1>1 DEF Inv, Sound
<1>3. ~Live(None) /\ Live(x) /\ Holding(x)
  BY <1>1 DEF Live, Holding, None
<1>4. \A t \in Range(Derived) : db'[t] \subseteq db[t]
  <2> TAKE t \in Range(Derived)
  <2>1. t \in Tables /\ x.adds[t] = {}
    BY <1>1, AllTables DEF Resolved
  <2>2. db'[t] = (db[t] \ x.dels[t]) \cup x.adds[t]
    BY <1>1, <2>1, Viewed
  <2> HIDE DEF x
  <2> QED BY <2>1, <2>2
<1>5. ASSUME NEW k \in Loaders \ {l}, Live(txn[k])
      PROVE  Given(txn[k]) /\ Progress(txn[k], db', last')
  <2> DEFINE y == txn[k]
  <2>1. Given(y) /\ Progress(y, db, last)
    BY <1>5, Stage
  <2>2. CASE y.stage \in {"begun", "linking", "locked"}
    BY <2>1, <2>2 DEF Progress
  <2>3. CASE y.stage \in {"resolved", "delete", "insert", "loaded"}
    <3>1. Resolved(y, last) /\ Holding(y)
      BY <1>5, <2>3, Stage DEF Holding
    <3>2. y.id # x.id /\ y.ff.path # x.ff.path
      BY <1>1, <1>3, <1>5, <3>1, TwoFiles
    <3>3. n.id = x.id
      OBVIOUS
    <3> HIDE DEF x, n, y
    <3>4. Owner(y, last') = Owner(y, last)
      BY <1>1, <3>2 DEF Owner
    <3>5. \A t : OldRows(y, last', t) = OldRows(y, last, t)
      BY <3>4 DEF OldRows
    <3>6. Resolved(y, last')
      <4>1. \A h \in last' : h.id = y.id <=> h.ff.path = y.ff.path
        BY <1>1, <3>1, <3>2, <3>3 DEF Resolved
      <4> QED BY <3>1, <3>4, <4>1 DEF Resolved
    <3>7. \A t, how : Gone(y, db, last, t, how) => Gone(y, db', last', t, how)
      BY <1>4, <3>5 DEF Gone
    <3>8. Deleting(y, db, last) => Deleting(y, db', last')
      BY <3>5, <3>7 DEF Deleting
    <3>9. \A i : Inserting(y, last, i) => Inserting(y, last', i)
      BY <3>5 DEF Inserting
    <3> QED BY <2>1, <3>6, <3>8, <3>9 DEF Progress, y
  <2> QED BY <1>5, <2>1, <2>2, <2>3, Stage
<1> QED BY <1>2, <1>3, <1>5 DEF Sound

(* The graphs loaded before the loaders start are such a union.             *)
LEMMA InitInv == Init => Inv
<1> SUFFICES ASSUME Init PROVE Inv
  OBVIOUS
<1>1. PICK S \in Starts :
        /\ db = Relinked(Loaded(S))
        /\ last = { [ff |-> S[n], load |-> -n, id |-> FileId(-n)] : n \in DOMAIN S }
  BY DEF Init
<1>2. /\ txn = [l \in Loaders |-> None] /\ loads = 0 /\ end = [l \in Loaders |-> "none"]
  BY DEF Init
<1>3. /\ DOMAIN S \subseteq Nat \ {0}
      /\ \A i, j \in DOMAIN S : S[i].path = S[j].path => i = j
      /\ \A i \in DOMAIN S : Flattens(S[i]) /\ S[i].parseError = ""
  <2>1. /\ S \in Seq(Offered)
        /\ \A i, j \in DOMAIN S : S[i].path = S[j].path => i = j
        /\ \A i \in DOMAIN S : Flattens(S[i]) /\ S[i].parseError = ""
    BY StartsAssumption
  <2>2. DOMAIN S \subseteq Nat \ {0}
    <3>1. S \in Seq(Offered)
      BY <2>1
    <3>2. DOMAIN S = 1..Len(S)
      BY <3>1
    <3> QED BY <3>2
  <2> QED BY <2>1, <2>2
<1> DEFINE load(n) == [ff |-> S[n], load |-> -n, id |-> FileId(-n)]
<1>4. \A n : load(n).ff = S[n] /\ load(n).load = -n /\ load(n).id = FileId(-n)
  OBVIOUS
<1>5. last = { load(n) : n \in DOMAIN S }
  BY <1>1
<1> HIDE DEF load
<1>6. \A n : FileId(-n).load = -n
  BY DEF FileId, UUID
<1>7. Distinct
  <2>1. ASSUME NEW h \in last
        PROVE  /\ Flattens(h.ff) /\ h.ff.parseError = ""
               /\ h.load \in Int /\ h.load <= loads
               /\ h.id.load \in Int /\ h.id.load <= loads /\ h.id = FileId(h.id.load)
    <3>1. PICK n \in DOMAIN S : h = load(n)
      BY <1>5
    <3> n \in Nat
      BY <1>3
    <3>2. -n \in Int /\ -n <= 0
      OBVIOUS
    <3>3. h.id.load = -n
      BY <1>4, <1>6, <3>1
    <3> QED BY <1>2, <1>3, <1>4, <3>1, <3>2, <3>3
  <2>2. ASSUME NEW g \in last, NEW h \in last,
               g.ff.path = h.ff.path \/ g.load = h.load \/ g.id = h.id
        PROVE  g = h
    <3>1. PICK m \in DOMAIN S, n \in DOMAIN S : g = load(m) /\ h = load(n)
      BY <1>5
    <3>2. m \in Nat /\ n \in Nat
      BY <1>3
    <3>3. S[m].path = S[n].path \/ -m = -n
      BY <1>4, <1>6, <2>2, <3>1
    <3>4. CASE S[m].path = S[n].path
      BY <1>3, <3>1, <3>4
    <3>5. CASE -m = -n
      <4>1. m = n
        BY <3>2, <3>5
      <4> QED BY <3>1, <4>1
    <3> QED BY <3>3, <3>4, <3>5
  <2>3. loads \in Nat /\ loads <= MaxLoads
    BY <1>2, BoundsAssumption
  <2> QED BY <2>1, <2>2, <2>3 DEF Distinct
<1>8. Fresh /\ PathsHeld /\ Sound /\ Outcomes
  BY <1>2 DEF Fresh, PathsHeld, Sound, Outcomes, Live, Holding, None
<1>9. \A t \in Base \cup {"file"} : db[t] = Loaded(S)[t]
  BY <1>1, AllTables DEF Relinked
<1>10. DOMAIN db = Tables
  BY <1>1 DEF Relinked
<1>11. db.file = { FileRow(h.id, h.ff) : h \in last }
  <2>1. Loaded(S)["file"] = UNION { { FileRow(FileId(-n), S[n]) } : n \in DOMAIN S }
    <3>1. "file" \in Tables
      BY AllTables
    <3> SUFFICES ASSUME NEW t \in Tables, t = "file"
                 PROVE  Loaded(S)[t] = UNION { { FileRow(FileId(-n), S[n]) } : n \in DOMAIN S }
      BY <3>1
    <3> DEFINE part(n) ==
          LET rows == flatten(S[n], -n, FileId(-n)) IN
          CASE t = "file"        -> { FileRow(FileId(-n), S[n]) }
            [] t \in DOMAIN rows -> rows[t]
            [] OTHER             -> {}
    <3>2. Loaded(S)[t] = UNION { part(n) : n \in DOMAIN S }
      BY DEF Loaded
    <3>3. t # "file" \/ \A n : part(n) = { FileRow(FileId(-n), S[n]) }
      BY AllTables, Columns
    <3> HIDE DEF part
    <3> QED BY <3>2, <3>3
  <2>2. { FileRow(h.id, h.ff) : h \in last } = { FileRow(load(n).id, load(n).ff) : n \in DOMAIN S }
    BY <1>5
  <2>3. \A n : FileRow(FileId(-n), S[n]) = FileRow(load(n).id, load(n).ff)
    BY <1>4
  <2>4. Loaded(S)["file"] = { FileRow(FileId(-n), S[n]) : n \in DOMAIN S }
    BY <2>1
  <2> QED BY <1>9, <2>2, <2>3, <2>4
<1>12. ASSUME NEW t \in Base
       PROVE  db[t] = UNION { Rows(h)[t] : h \in last }
  <2>1. \A n : t \in DOMAIN flatten(S[n], -n, FileId(-n))
    BY Columns
  <2>2. Loaded(S)[t] = UNION { flatten(S[n], -n, FileId(-n))[t] : n \in DOMAIN S }
    BY <2>1, AllTables DEF Loaded
  <2>3. \A n : flatten(S[n], -n, FileId(-n)) = Rows(load(n))
    BY <1>4 DEF Rows
  <2> QED BY <1>5, <1>9, <2>2, <2>3
<1>13. ASSUME NEW t \in Edges, NEW r \in db[t] PROVE DOMAIN r = {"source", "target"}
  <2>1. CASE t \in OwnEdges
    <3>1. PICK h \in last : r \in Rows(h)[t]
      BY <1>12, <1>13, <2>1, AllTables
    <3>2. Flattens(h.ff)
      BY <1>7 DEF Distinct
    <3> QED BY <2>1, <3>1, <3>2, RowsOf
  <2>2. CASE t \in Range(Derived) \cup {"imports"}
    <3>1. db[t] = Relinked(Loaded(S))[t] /\ t \in Tables
      BY <1>1, <2>2, AllTables
    <3> QED BY <1>13, <2>2, <3>1, AllTables DEF Relinked
  <2> QED BY <2>1, <2>2, AllTables
<1>14. Committed
  BY <1>10, <1>11, <1>12, <1>13 DEF Committed
<1> QED BY <1>7, <1>8, <1>14 DEF Inv

(* The invariant is inductive.                                              *)
LEMMA NextInv == Inv /\ [Next]_vars => Inv'
<1> SUFFICES ASSUME Inv, [Next]_vars PROVE Inv'
  OBVIOUS
<1>1. CASE RebuildAll
  BY <1>1, RebuildKeeps
<1>2. ASSUME NEW l \in Loaders, NEW ff \in Offered, NEW artifact \in BOOLEAN,
             Begin(l, ff, artifact)
      PROVE  Inv'
  BY <1>2, BeginKeeps
<1>3. ASSUME NEW l \in Loaders, Advances(l), Live(txn[l]) PROVE Inv'
  BY <1>3, AdvancesKeeps
<1>4. ASSUME NEW l \in Loaders, LockLinkShared(l) PROVE Inv'
  BY <1>3, <1>4, LockLinkSharedAdvances DEF LockLinkShared, At, Live
<1>5. ASSUME NEW l \in Loaders, LockFilePath(l) PROVE Inv'
  BY <1>3, <1>5, LockFilePathAdvances DEF LockFilePath, At, Live
<1>6. ASSUME NEW l \in Loaders, resolveFile(l) PROVE Inv'
  BY <1>3, <1>6, resolveFileAdvances DEF resolveFile, At, Live
<1>7. ASSUME NEW l \in Loaders, Flatten(l) PROVE Inv'
  BY <1>3, <1>7, FlattenAdvances DEF Flatten, At, Live
<1>8. ASSUME NEW l \in Loaders, LockRows(l) PROVE Inv'
  BY <1>3, <1>8, LockRowsAdvances DEF LockRows, At, Live
<1>9. ASSUME NEW l \in Loaders, DeleteEdges(l) PROVE Inv'
  BY <1>3, <1>9, DeleteEdgesAdvances DEF DeleteEdges, At, Live
<1>10. ASSUME NEW l \in Loaders, DeleteVertices(l) PROVE Inv'
  BY <1>3, <1>10, DeleteVerticesAdvances DEF DeleteVertices, At, Live
<1>11. ASSUME NEW l \in Loaders, Copy(l) PROVE Inv'
  BY <1>3, <1>11, CopyAdvances DEF Copy, At, Live
<1>12. ASSUME NEW l \in Loaders, Commit(l) PROVE Inv'
  BY <1>12, CommitDistinct, CommitTables, CommitSound DEF Inv
<1>13. ASSUME NEW l \in Loaders, Disconnect(l) PROVE Inv'
  BY <1>3, <1>13 DEF Disconnect, Advances, At, Live
<1>14. CASE UNCHANGED vars
  BY <1>14 DEF vars, Inv, Distinct, Fresh, PathsHeld, Committed, Sound, Outcomes
<1> QED BY <1>1, <1>2, <1>4, <1>5, <1>6, <1>7, <1>8, <1>9, <1>10, <1>11, <1>12, <1>13, <1>14 DEF Next

(* The committed tables are at all times the union of the rows of one load  *)
(* per path, and every open transaction knows which of them it replaces,    *)
(* how much of that it has deleted and how much of its own it has written   *)
(* (ReplaceFile).                                                           *)
THEOREM StoreInvariant == Spec => []Inv
BY InitInv, NextInv, PTL DEF Spec

(* Every row fits the columns of its table and names a file there is.       *)
THEOREM StoreTypeCorrect == Spec => []TypeOK
<1>1. Inv => TypeOK
  <2> SUFFICES ASSUME Inv PROVE TypeOK
    OBVIOUS
  <2>1. ASSUME NEW t \in {"scope", "occurrence"}, NEW r \in db[t]
        PROVE  r.file \in { f.id : f \in db.file } /\ r.from <= r.to /\ r.to <= MaxOffset
    <3>1. PICK h \in last : r \in Rows(h)[t]
      BY <2>1, AllTables DEF Inv, Committed
    <3>2. r.file = h.id /\ r.from <= r.to /\ r.to <= MaxOffset
      BY <2>1, <3>1, RowsOf DEF Inv, Distinct
    <3>3. FileRow(h.id, h.ff) \in db.file /\ FileRow(h.id, h.ff).id = h.id
      BY DEF Inv, Committed, FileRow
    <3> QED BY <3>2, <3>3
  <2>2. loads \in 0..MaxLoads
    <3>1. loads \in Nat /\ loads <= MaxLoads
      BY DEF Inv, Distinct
    <3> QED BY <3>1, BoundsAssumption
  <2>3. ASSUME NEW l \in Loaders
        PROVE  /\ txn[l].stage \in Stages
               /\ end[l] \in {"none", "committed", "skipped", "invalid", "refused"}
               /\ txn[l].stage # "idle" =>
                    txn[l].load \in 1..loads /\ DOMAIN View(txn[l]) = Tables
    <3>1. txn[l].stage \in Stages
      BY Stage DEF Live, Stages
    <3>2. end[l] \in {"none", "committed", "skipped", "invalid", "refused"}
      BY DEF Inv, Outcomes
    <3>3. txn[l].stage # "idle" => txn[l].load \in 1..loads
      BY DEF Inv, Fresh, Live
    <3>4. DOMAIN View(txn[l]) = Tables
      BY DEF View
    <3> QED BY <3>1, <3>2, <3>3, <3>4
  <2>4. DOMAIN db = Tables /\ \A t \in Edges : \A r \in db[t] : DOMAIN r = {"source", "target"}
    BY DEF Inv, Committed
  <2> QED BY <2>1, <2>2, <2>3, <2>4 DEF TypeOK
<1> QED BY <1>1, StoreInvariant, PTL

(* However the loads interleave, no path has two file rows, though no       *)
(* constraint of the schema says so (LockFilePath, resolveFile).            *)
THEOREM OneFilePerPath == Spec => []OneRowPerPath
<1>1. Inv => OneRowPerPath
  <2> SUFFICES ASSUME Inv, NEW f \in db.file, NEW g \in db.file, f.path = g.path PROVE f = g
    BY DEF OneRowPerPath
  <2>1. PICK h \in last, i \in last : f = FileRow(h.id, h.ff) /\ g = FileRow(i.id, i.ff)
    BY DEF Inv, Committed
  <2>2. h.ff.path = i.ff.path
    BY <2>1 DEF FileRow
  <2>3. h = i
    BY <2>2 DEF Inv, Distinct
  <2> QED BY <2>1, <2>3
<1> QED BY <1>1, StoreInvariant, PTL

(* No statement of a load is refused by a foreign key: the order of         *)
(* deleteFile and insertRows is right whatever other files, other loads and *)
(* rebuilds point at the file.                                              *)
THEOREM NoForeignKeyRefuses == Spec => []NoLoadRefused
<1>1. Inv => NoLoadRefused
  BY DEF Inv, Outcomes, NoLoadRefused
<1> QED BY <1>1, StoreInvariant, PTL

(* What is committed for a file is what its last load was given and nothing *)
(* else, whether it came from the extractor or through an artifact.         *)
THEOREM RowsAreOneLoad == Spec => []FileRowsAreOneLoad
<1>1. ASSUME Inv PROVE FileRowsAreOneLoad
  <2>1. db.file = { FileRow(h.id, h.ff) : h \in last }
    BY <1>1 DEF Inv, Committed
  <2>2. \A h : FileRow(h.id, h.ff).path = h.ff.path /\ FileRow(h.id, h.ff).id = h.id
    BY DEF FileRow
  <2>3. { f.path : f \in db.file } = { h.ff.path : h \in last }
    BY <2>1, <2>2
  <2>4. ASSUME NEW f \in db.file, NEW h \in last, h.ff.path = f.path
        PROVE  f = FileRow(h.id, h.ff) /\ f.id = h.id
    <3>1. PICK g \in last : f = FileRow(g.id, g.ff)
      BY <2>1
    <3>2. g = h
      BY <1>1, <2>2, <2>4, <3>1 DEF Inv, Distinct
    <3> QED BY <2>2, <3>1, <3>2
  <2>5. ASSUME NEW h \in last
        PROVE  /\ \A g \in last : g.id = h.id <=> g.ff.path = h.ff.path
               /\ \A t : OldRows(h, last, t) = Rows(h)[t]
    <3>1. \A g \in last : g.id = h.id \/ g.ff.path = h.ff.path => g = h
      BY <1>1 DEF Inv, Distinct
    <3>2. Owner(h, last) = {h}
      BY <3>1 DEF Owner
    <3> QED BY <3>1, <3>2 DEF OldRows
  <2>6. ASSUME NEW h \in last, NEW t \in {"scope", "occurrence"}
        PROVE  { r \in db[t] : r.file = h.id } = Rows(h)[t]
    BY <1>1, <2>5, OwnVertices DEF Inv
  <2>7. ASSUME NEW h \in last, NEW t \in OwnEdges, NEW side \in {"source", "target"}
        PROVE  Side(db, t, side, h.id) = Rows(h)[t]
    <3>1. \A r \in db[t] : r \in Rows(h)[t] <=> EndOf(h, t, side, r[side])
      BY <1>1, <2>5, OwnEnds DEF Inv
    <3>2. Rows(h)[t] \subseteq db[t]
      BY <1>1, AllTables DEF Inv, Committed
    <3>3. Ends(t)[side] \in {"file", "scope", "occurrence"}
      BY EndTables
    <3>4. \A i : i \in Of(db, Ends(t)[side], h.id) <=> EndOf(h, t, side, i)
      BY <2>5, <2>6, <3>3 DEF Of, EndOf
    <3> QED BY <3>1, <3>2, <3>4 DEF Side
  <2>8. ASSUME NEW f \in db.file, NEW h \in last, h.ff.path = f.path
        PROVE  LET rows == flatten(h.ff, h.load, f.id)
                   mine(t) == Side(db, t, "source", f.id) \cup Side(db, t, "target", f.id)
               IN /\ h.ff.parseError = ""
                  /\ f = FileRow(f.id, h.ff)
                  /\ \A t \in DOMAIN rows :
                       rows[t] = IF t \in Vertices THEN { r \in db[t] : r.file = f.id } ELSE mine(t)
    <3>1. f.id = h.id /\ f = FileRow(f.id, h.ff) /\ h.ff.parseError = ""
      <4>1. f.id = h.id /\ f = FileRow(h.id, h.ff)
        BY <2>4, <2>8
      <4>2. h.ff.parseError = ""
        BY <1>1 DEF Inv, Distinct
      <4>3. f = FileRow(f.id, h.ff)
        BY <4>1, Zenon
      <4> QED BY <4>1, <4>2, <4>3
    <3>2. flatten(h.ff, h.load, f.id) = Rows(h) /\ DOMAIN Rows(h) = Base
      BY <3>1, Columns DEF Rows
    <3>3. ASSUME NEW t \in Base
          PROVE  Rows(h)[t] = IF t \in Vertices THEN { r \in db[t] : r.file = h.id }
                              ELSE Side(db, t, "source", h.id) \cup Side(db, t, "target", h.id)
      <4>1. CASE t \in {"scope", "occurrence"}
        BY <2>6, <4>1 DEF Vertices
      <4>2. CASE t \in OwnEdges
        BY <2>7, <4>2 DEF Vertices, OwnEdges
      <4> QED BY <4>1, <4>2, AllTables
    <3> QED BY <3>1, <3>2, <3>3
  <2> QED BY <2>3, <2>8 DEF FileRowsAreOneLoad
<1> QED BY <1>1, StoreInvariant, PTL

(* A commit keeps every file's id and changes no base row and no import of  *)
(* another file.                                                            *)
THEOREM CommitsDisturbNoOther == Spec => OthersUntouched
<1>1. ASSUME Inv, [Next]_vars, NEW l \in Loaders,
             txn[l].stage = "loaded", end'[l] = "committed", txn'[l].stage = "idle"
      PROVE  LET mine == txn[l].id IN
         /\ { f.id : f \in db.file } \subseteq { f.id : f \in db'.file }
         /\ { f \in db.file : f.id # mine } \subseteq db'.file
         /\ \A t \in {"scope", "occurrence"} :
              { r \in db[t] : r.file # mine } = { r \in db'[t] : r.file # mine }
         /\ { r \in db.imports : r.source # mine } = { r \in db'.imports : r.source # mine }
  <2> DEFINE x == txn[l]
             n == [ff |-> x.given, load |-> x.load, id |-> x.id]
             old == Owner(x, last)
  <2>1. Commit(l)
    <3>1. DOMAIN txn = Loaders /\ DOMAIN end = Loaders
      BY <1>1 DEF Inv, Sound, Outcomes
    <3>2. txn' # txn /\ txn'[l] # txn[l]
      BY <1>1
    <3>3. ASSUME NEW k \in Loaders, Advances(k), txn[k].stage # "loaded" PROVE FALSE
      BY <1>1, <3>1, <3>2, <3>3 DEF Advances, Rollback, Finish, To
    <3>4. ASSUME NEW k \in Loaders, NEW ff \in Offered, NEW artifact \in BOOLEAN,
                 Begin(k, ff, artifact)
          PROVE  FALSE
      BY <1>1, <3>1, <3>2, <3>4 DEF Begin, At
    <3>5. ASSUME NEW k \in Loaders, Disconnect(k) PROVE FALSE
      BY <1>1, <3>1, <3>2, <3>5 DEF Disconnect, Rollback, Finish
    <3>6. ASSUME NEW k \in Loaders, Commit(k) PROVE k = l
      BY <1>1, <3>1, <3>2, <3>6 DEF Commit, Finish
    <3>7. ~RebuildAll /\ ~UNCHANGED vars
      BY <3>2 DEF RebuildAll, vars
    <3>8. ASSUME NEW k \in Loaders, LockLinkShared(k) PROVE FALSE
      BY <1>1, <3>3, <3>8, LockLinkSharedAdvances DEF LockLinkShared, At
    <3>9. ASSUME NEW k \in Loaders, LockFilePath(k) PROVE FALSE
      BY <1>1, <3>3, <3>9, LockFilePathAdvances DEF LockFilePath, At
    <3>10. ASSUME NEW k \in Loaders, resolveFile(k) PROVE FALSE
      BY <1>1, <3>3, <3>10, resolveFileAdvances DEF resolveFile, At
    <3>11. ASSUME NEW k \in Loaders, Flatten(k) PROVE FALSE
      BY <1>1, <3>3, <3>11, FlattenAdvances DEF Flatten, At
    <3>12. ASSUME NEW k \in Loaders, LockRows(k) PROVE FALSE
      BY <1>1, <3>3, <3>12, LockRowsAdvances DEF LockRows, At
    <3>13. ASSUME NEW k \in Loaders, DeleteEdges(k) PROVE FALSE
      BY <1>1, <3>3, <3>13, DeleteEdgesAdvances DEF DeleteEdges, At
    <3>14. ASSUME NEW k \in Loaders, DeleteVertices(k) PROVE FALSE
      BY <1>1, <3>3, <3>14, DeleteVerticesAdvances DEF DeleteVertices, At
    <3>15. ASSUME NEW k \in Loaders, Copy(k) PROVE FALSE
      BY <1>1, <3>3, <3>15, CopyAdvances DEF Copy, At
    <3> QED BY <1>1, <3>4, <3>5, <3>6, <3>7, <3>8, <3>9, <3>10, <3>11, <3>12, <3>13, <3>14, <3>15
         DEF Next
  <2>2. /\ last' = (last \ old) \cup {n} /\ db' = View(x)
        /\ Resolved(x, last) /\ Inserting(x, last, 7) /\ Flattens(n.ff)
        /\ \A t : Rows(n)[t] = NewRows(x, t)
    BY <1>1, <2>1, Committing
  <2>3. Committed' /\ Distinct'
    BY <1>1, <2>1, CommitTables, CommitDistinct
  <2>4. n.id = x.id /\ \A h \in last : h.id = x.id <=> h \in old
    BY <2>2 DEF Resolved, Owner
  <2>5. db.file = { FileRow(h.id, h.ff) : h \in last } /\ db'.file = { FileRow(h.id, h.ff) : h \in last' }
    BY <1>1, <2>3 DEF Inv, Committed
  <2>6. \A h : FileRow(h.id, h.ff).id = h.id
    BY DEF FileRow
  <2>7. ASSUME NEW t \in {"scope", "occurrence"}
        PROVE  { r \in db[t] : r.file # x.id } = { r \in db'[t] : r.file # x.id }
    <3>1. /\ db[t] = UNION { Rows(h)[t] : h \in last }
          /\ db'[t] = UNION { Rows(h)[t] : h \in last' }
      BY <1>1, <2>3, AllTables DEF Inv, Committed
    <3>2. \A h \in last \cup last' : \A r \in Rows(h)[t] : r.file = h.id
      <4>1. \A h \in last \cup last' : Flattens(h.ff)
        BY <1>1, <2>3 DEF Inv, Distinct
      <4> QED BY <4>1, RowsOf
    <3> HIDE DEF x, n, old
    <3> QED BY <2>2, <2>4, <3>1, <3>2
  <2>8. { r \in db.imports : r.source # x.id } = { r \in db'.imports : r.source # x.id }
    <3>1. db'["imports"] = (db["imports"] \ x.dels["imports"]) \cup x.adds["imports"]
      BY <2>2, AllTables, Viewed
    <3>2. x.adds["imports"] = {} /\ \A r \in x.dels["imports"] : r.source = x.id
      BY <2>2, AllTables DEF Resolved
    <3> HIDE DEF x
    <3> QED BY <3>1, <3>2
  <2>9. { f \in db.file : f.id # x.id } \subseteq db'.file
    <3> HIDE DEF x, n, old
    <3> QED BY <2>2, <2>4, <2>5, <2>6
  <2>10. { f.id : f \in db.file } \subseteq { f.id : f \in db'.file }
    <3> HIDE DEF x, n, old
    <3>1. \E f \in db'.file : f.id = x.id
      BY <2>2, <2>4, <2>5, <2>6
    <3> QED BY <2>9, <3>1
  <2> QED BY <2>7, <2>8, <2>9, <2>10
<1>2. Inv /\ [Next]_vars =>
  [\A l \in Loaders :
       txn[l].stage = "loaded" /\ end'[l] = "committed" /\ txn'[l].stage = "idle" =>
         LET mine == txn[l].id IN
         /\ { f.id : f \in db.file } \subseteq { f.id : f \in db'.file }
         /\ { f \in db.file : f.id # mine } \subseteq db'.file
         /\ \A t \in {"scope", "occurrence"} :
              { r \in db[t] : r.file # mine } = { r \in db'[t] : r.file # mine }
         /\ { r \in db.imports : r.source # mine } = { r \in db'.imports : r.source # mine }]_vars
  BY <1>1
<1> QED BY <1>2, StoreInvariant, PTL DEF Spec, OthersUntouched
-----------------------------------------------------------------------------
(***************************************************************************)
(* The artifact store, where what is loaded comes from: artifact.Store     *)
(* implements the atomic store a run relies on, for any keys, clients and  *)
(* number of writes, whoever dies and whatever the disk has written out. A *)
(* file is given a key's name only once it is whole and synced, no file    *)
(* that is synced changes, and a temporary name is no key.                 *)
(***************************************************************************)
\* A client is in a call of Write on a file that it made.
InWrite == [stage : {"write", "sync", "rename"}, key : Keys, file : DOMAIN content]

ArtifactTyped ==
  /\ DOMAIN content \subseteq Writes
  /\ content \in [DOMAIN content -> [cached : Contents, synced : BOOLEAN]]
  /\ names \in [DOMAIN names -> Writes] /\ disk \in [DOMAIN disk -> Writes]
  /\ call \in [Clients -> {Idle} \cup InWrite]
  /\ opened \in [Clients -> {NoFile} \cup Writes]

\* What a key names, or a Read has opened, is whole on the disk too.
Published ==
  /\ \A k \in Keys \cap DOMAIN names : names[k] \in Durable
  /\ \A k \in Keys \cap DOMAIN disk : disk[k] \in Durable
  /\ \A p \in Clients : opened[p] \in {NoFile} \cup Durable

\* A file is whole before it is synced, and synced before it is renamed.
Staged ==
  \A p \in Clients :
    /\ In(p, "sync") => call[p].file \in Cached
    /\ In(p, "rename") => call[p].file \in Durable

ArtifactInv == ArtifactTyped /\ Published /\ Staged

(* No temporary name is the name of an artifact (Key's shape against       *)
(* CreateTemp's pattern).                                                  *)
LEMMA TempIsNoKey == \A n \in Nat : Temp(n) \notin Keys
  BY WritesAssumption DEF Temp

(* The invariant holds before anything is written.                         *)
LEMMA ArtifactInitially == ArtifactInit => ArtifactInv
  BY DEF ArtifactInit, ArtifactInv, ArtifactTyped, Published, Staged, In, Idle

(* A step of a client or of the kernel keeps what is durable as it is.     *)
LEMMA ArtifactPreserved == ArtifactInv /\ [ArtifactNext]_artifactVars => ArtifactInv'
<1> SUFFICES ASSUME ArtifactInv, [ArtifactNext]_artifactVars
             PROVE ArtifactInv'
  OBVIOUS
<1> USE DEF ArtifactInv
<1>0. Writes \subseteq Nat /\ NoFile \notin Writes
  BY WritesAssumption DEF Writes, NoFile
<1>1. ASSUME NEW p \in Clients, NEW k \in Keys, CreateTemp(p, k)
      PROVE ArtifactInv'
  <2>1. PICK n \in Writes \ DOMAIN content :
          /\ names' = Linked(Temp(n), n)
          /\ content' = [m \in DOMAIN content \cup {n} |->
                           IF m = n THEN [cached |-> "part", synced |-> FALSE] ELSE content[m]]
          /\ call' = [call EXCEPT ![p] = [stage |-> "write", key |-> k, file |-> n]]
    BY <1>1, <1>0 DEF CreateTemp
  <2>2. disk' = disk /\ opened' = opened /\ Temp(n) \notin Keys
    BY <1>1, <1>0, TempIsNoKey DEF CreateTemp
  <2>3. Cached' = Cached /\ Durable' = Durable
    BY <2>1 DEF Cached, Durable
  <2>4. ArtifactTyped'
    BY <2>1, <2>2 DEF ArtifactTyped, InWrite, Linked, Contents, Writes
  <2>5. Published'
    BY <2>1, <2>2, <2>3 DEF Published, Linked
  <2>6. Staged'
    BY <2>1, <2>3 DEF Staged, ArtifactTyped, In
  <2> QED
    BY <2>4, <2>5, <2>6
<1>2. ASSUME NEW p \in Clients, WriteBlob(p)
      PROVE ArtifactInv'
  <2>1. call[p] \in InWrite /\ call[p].file \in DOMAIN content
    BY <1>2 DEF WriteBlob, In, ArtifactTyped, Idle, InWrite
  <2>2. Cached \subseteq Cached' /\ Durable \subseteq Durable' /\ call[p].file \in Cached'
    BY <1>2, <2>1 DEF WriteBlob, Cached, Durable, ArtifactTyped
  <2>3. ArtifactTyped'
    BY <1>2, <2>1 DEF WriteBlob, ArtifactTyped, InWrite, Contents
  <2>4. Published'
    BY <1>2, <2>2 DEF WriteBlob, Published
  <2>5. Staged'
    BY <1>2, <2>1, <2>2 DEF WriteBlob, Staged, ArtifactTyped, In, InWrite
  <2> QED
    BY <2>3, <2>4, <2>5
<1>3. ASSUME NEW p \in Clients, Sync(p)
      PROVE ArtifactInv'
  <2>1. call[p] \in InWrite /\ call[p].file \in Cached
    BY <1>3 DEF Sync, In, ArtifactTyped, Idle, InWrite, Staged
  <2>2. Cached \subseteq Cached' /\ Durable \subseteq Durable' /\ call[p].file \in Durable'
    BY <1>3, <2>1 DEF Sync, Cached, Durable, ArtifactTyped
  <2>3. ArtifactTyped'
    BY <1>3, <2>1 DEF Sync, ArtifactTyped, InWrite
  <2>4. Published'
    BY <1>3, <2>2 DEF Sync, Published
  <2>5. Staged'
    BY <1>3, <2>1, <2>2 DEF Sync, Staged, ArtifactTyped, In, InWrite
  <2> QED
    BY <2>3, <2>4, <2>5
<1>4. ASSUME NEW p \in Clients, Rename(p)
      PROVE ArtifactInv'
  <2>1. call[p] \in InWrite /\ call[p].file \in Durable /\ call[p].file \in Writes
    BY <1>4 DEF Rename, In, ArtifactTyped, Idle, InWrite, Staged
  <2>2. Cached' = Cached /\ Durable' = Durable
    BY <1>4 DEF Rename, Cached, Durable
  <2>3. ArtifactTyped'
    BY <1>4, <2>1 DEF Rename, ArtifactTyped, InWrite
  <2>4. Published'
    BY <1>4, <2>1, <2>2 DEF Rename, Published
  <2>5. Staged'
    BY <1>4, <2>2 DEF Rename, Staged, ArtifactTyped, In, Idle
  <2> QED
    BY <2>3, <2>4, <2>5
<1>5. ASSUME NEW p \in Clients, WriteFails(p) \/ Die(p)
      PROVE ArtifactInv'
  <2>1. Cached' = Cached /\ Durable' = Durable /\ disk' = disk /\ opened' = opened
    BY <1>5 DEF WriteFails, Die, Cached, Durable
  <2>2. ArtifactTyped'
    BY <1>5 DEF WriteFails, Die, ArtifactTyped, InWrite, Unlinked, Restrict
  <2>3. Published'
    BY <1>5, <2>1 DEF WriteFails, Die, Published, Unlinked, Restrict
  <2>4. Staged'
    BY <1>5, <2>1 DEF WriteFails, Die, Staged, ArtifactTyped, In, Idle
  <2> QED
    BY <2>2, <2>3, <2>4
<1>6. ASSUME NEW p \in Clients, NEW k \in Keys, Read(p, k)
      PROVE ArtifactInv'
  <2>1. Cached' = Cached /\ Durable' = Durable
    BY <1>6 DEF Read, Cached, Durable
  <2>2. ArtifactTyped'
    BY <1>6 DEF Read, ArtifactTyped, InWrite
  <2>3. Published'
    BY <1>6, <2>1 DEF Read, Published, ArtifactTyped
  <2>4. Staged'
    BY <1>6, <2>1 DEF Read, Staged, In
  <2> QED
    BY <2>2, <2>3, <2>4
<1>7. ASSUME NEW p \in Clients, NEW k \in Keys, DeleteKey(p, k)
      PROVE ArtifactInv'
  <2>1. Cached' = Cached /\ Durable' = Durable
    BY <1>7 DEF DeleteKey, Cached, Durable
  <2>2. ArtifactTyped'
    BY <1>7 DEF DeleteKey, ArtifactTyped, InWrite, Unlinked, Restrict
  <2>3. Published'
    BY <1>7, <2>1 DEF DeleteKey, Published, Unlinked, Restrict
  <2>4. Staged'
    BY <1>7, <2>1 DEF DeleteKey, Staged, In
  <2> QED
    BY <2>2, <2>3, <2>4
<1>8. ASSUME NEW x \in DOMAIN names \cup DOMAIN disk, WriteBack(x)
      PROVE ArtifactInv'
  <2>1. Cached' = Cached /\ Durable' = Durable
    BY <1>8 DEF WriteBack, Cached, Durable
  <2>2. ArtifactTyped'
    BY <1>8 DEF WriteBack, ArtifactTyped, InWrite, Restrict
  <2>3. Published'
    BY <1>8, <2>1 DEF WriteBack, Published, Restrict
  <2>4. Staged'
    BY <1>8, <2>1 DEF WriteBack, Staged, In
  <2> QED
    BY <2>2, <2>3, <2>4
<1>9. ASSUME Reboot
      PROVE ArtifactInv'
  <2>1. Durable \subseteq Durable'
    BY <1>9 DEF Reboot, Cached, Durable, ArtifactTyped
  <2>2. ArtifactTyped'
    <3>1. /\ DOMAIN content' = DOMAIN content
          /\ content' \in [DOMAIN content' -> [cached : Contents, synced : BOOLEAN]]
      <4>1. PICK lost \in SUBSET { n \in DOMAIN content : ~content[n].synced } :
              content' = [n \in DOMAIN content |-> IF n \in lost THEN [cached |-> "part", synced |-> TRUE]
                                                ELSE [content[n] EXCEPT !.synced = TRUE]]
        BY <1>9 DEF Reboot
      <4>2. ASSUME NEW n \in DOMAIN content
            PROVE content'[n] \in [cached : Contents, synced : BOOLEAN]
        <5>1. content[n] \in [cached : Contents, synced : BOOLEAN]
          BY DEF ArtifactTyped
        <5>2. [content[n] EXCEPT !.synced = TRUE] \in [cached : Contents, synced : BOOLEAN]
          BY <5>1
        <5> QED
          BY <4>1, <5>2 DEF Contents
      <4> QED
        BY <4>1, <4>2
    <3>2. PICK kept \in SUBSET (DOMAIN names \cup DOMAIN disk) :
            names' = [x \in (kept \cap DOMAIN names) \cup (DOMAIN disk \ kept) |->
                        IF x \in kept THEN names[x] ELSE disk[x]]
      BY <1>9 DEF Reboot
    <3>3. names' \in [DOMAIN names' -> Writes] /\ disk' = names'
      BY <1>9, <3>2 DEF Reboot, ArtifactTyped
    <3> QED
      BY <1>9, <3>1, <3>3 DEF Reboot, ArtifactTyped
  <2>3. Published'
    BY <1>9, <2>1 DEF Reboot, Published
  <2>4. Staged'
    BY <1>9 DEF Reboot, Staged, In, Idle
  <2> QED
    BY <2>2, <2>3, <2>4
<1>10. CASE UNCHANGED artifactVars
  BY <1>10 DEF artifactVars, ArtifactTyped, Published, Staged, InWrite, Cached, Durable, In
<1> QED
  BY <1>1, <1>2, <1>3, <1>4, <1>5, <1>6, <1>7, <1>8, <1>9, <1>10 DEF ArtifactNext

(* What names a key is whole, in every reachable state.                    *)
THEOREM ArtifactInvariant == ArtifactSpec => []ArtifactInv
  BY ArtifactInitially, ArtifactPreserved, PTL DEF ArtifactSpec
-----------------------------------------------------------------------------
StoreBar  == [k \in Keys |-> HeldAs(names, k, Cached)]
DiskBar   == [k \in Keys |-> HeldAs(disk, k, Durable)]
AnswerBar == [p \in Clients |-> IF opened[p] \in {NoFile} \cup Cached THEN opened[p] ELSE Torn]

\* Under the invariant the mapping reads what is named, and none of it is torn.
Entry(entries, k) == IF k \in DOMAIN entries THEN entries[k] ELSE NoFile

LEMMA ArtifactMapped ==
  ASSUME ArtifactInv
  PROVE /\ StoreBar = [k \in Keys |-> Entry(names, k)]
        /\ DiskBar = [k \in Keys |-> Entry(disk, k)]
        /\ AnswerBar = [p \in Clients |-> opened[p]]
  BY DEF ArtifactInv, Published, StoreBar, DiskBar, AnswerBar, HeldAs, Entry, Durable

(* Every step of the store is a step of the atomic one or none: Rename is   *)
(* its Write, Delete its Delete; what happens under a temporary name is     *)
(* nothing to it.                                                           *)
LEMMA ArtifactSimulated == ArtifactInv /\ ArtifactInv' /\ [ArtifactNext]_artifactVars => [Atomic!Next]_(Atomic!vars)
<1> SUFFICES ASSUME ArtifactInv, ArtifactInv', [ArtifactNext]_artifactVars
             PROVE Atomic!Next \/ UNCHANGED Atomic!vars
  OBVIOUS
<1>1. /\ StoreBar = [k \in Keys |-> Entry(names, k)]
      /\ DiskBar = [k \in Keys |-> Entry(disk, k)]
      /\ AnswerBar = [p \in Clients |-> opened[p]]
  BY ArtifactMapped
<1>2. /\ StoreBar' = [k \in Keys |-> Entry(names', k)]
      /\ DiskBar' = [k \in Keys |-> Entry(disk', k)]
      /\ AnswerBar' = [p \in Clients |-> opened'[p]]
  BY DEF ArtifactInv, Published, StoreBar, DiskBar, AnswerBar, HeldAs, Entry, Durable
<1>3. StoreBar' = StoreBar /\ DiskBar' = DiskBar /\ AnswerBar' = AnswerBar
        => UNCHANGED Atomic!vars
  BY DEF Atomic!vars, StoreBar, DiskBar, AnswerBar
<1>4. ASSUME NEW p \in Clients, NEW k \in Keys, CreateTemp(p, k)
      PROVE UNCHANGED Atomic!vars
  <2>1. PICK n \in Writes : names' = Linked(Temp(n), n)
    BY <1>4 DEF CreateTemp
  <2>2. \A x \in Keys : Entry(names', x) = Entry(names, x)
    BY <2>1, TempIsNoKey, WritesAssumption DEF Entry, Linked, Writes
  <2>3. disk' = disk /\ opened' = opened
    BY <1>4 DEF CreateTemp
  <2> QED
    BY <1>1, <1>2, <1>3, <2>2, <2>3
<1>4a. ASSUME NEW p \in Clients, WriteBlob(p) \/ Sync(p)
       PROVE UNCHANGED Atomic!vars
  BY <1>1, <1>2, <1>3, <1>4a DEF WriteBlob, Sync
<1>5. ASSUME NEW p \in Clients, WriteFails(p) \/ Die(p)
      PROVE UNCHANGED Atomic!vars
  <2>1. call[p].file \in Nat \/ names' = names
    BY <1>5, WritesAssumption DEF WriteFails, Die, ArtifactInv, ArtifactTyped, InWrite, In, Idle, Writes
  <2>2. \A x \in Keys : Entry(names', x) = Entry(names, x)
    BY <1>5, <2>1, TempIsNoKey DEF WriteFails, Die, Entry, Unlinked, Restrict
  <2>3. disk' = disk /\ opened' = opened
    BY <1>5 DEF WriteFails, Die
  <2> QED
    BY <1>1, <1>2, <1>3, <2>2, <2>3
<1>6. ASSUME NEW p \in Clients, Rename(p)
      PROVE Atomic!Next
  <2>1. call[p].key \in Keys /\ call[p].file \in Writes /\ disk' = disk /\ opened' = opened
    BY <1>6 DEF Rename, ArtifactInv, ArtifactTyped, InWrite, In, Idle
  <2>2. \A x \in Keys : Entry(names', x) = IF x = call[p].key THEN call[p].file ELSE Entry(names, x)
    BY <1>6, <2>1, TempIsNoKey, WritesAssumption DEF Rename, Entry, Writes
  <2>3. StoreBar' = [StoreBar EXCEPT ![call[p].key] = call[p].file]
    BY <1>1, <1>2, <2>1, <2>2
  <2>4. DiskBar' = DiskBar /\ AnswerBar' = AnswerBar
    BY <1>1, <1>2, <2>1
  <2>5. Atomic!Write(call[p].key)
    BY <2>1, <2>3, <2>4 DEF Atomic!Write, StoreBar, DiskBar, AnswerBar
  <2> QED
    BY <2>1, <2>5 DEF Atomic!Next
<1>7. ASSUME NEW p \in Clients, NEW k \in Keys, Read(p, k)
      PROVE Atomic!Next
  <2>1. names' = names /\ disk' = disk /\ opened' = [opened EXCEPT ![p] = Entry(names, k)]
    BY <1>7 DEF Read, Entry
  <2>2. AnswerBar' = [AnswerBar EXCEPT ![p] = StoreBar[k]]
    BY <1>1, <1>2, <2>1 DEF ArtifactInv, ArtifactTyped
  <2>3. StoreBar' = StoreBar /\ DiskBar' = DiskBar
    BY <1>1, <1>2, <2>1
  <2>4. Atomic!Read(p, k)
    BY <2>2, <2>3 DEF Atomic!Read, StoreBar, DiskBar, AnswerBar
  <2> QED
    BY <2>4 DEF Atomic!Next
<1>8. ASSUME NEW p \in Clients, NEW k \in Keys, DeleteKey(p, k)
      PROVE Atomic!Next
  <2>1. \A x \in Keys : Entry(names', x) = IF x = k THEN NoFile ELSE Entry(names, x)
    BY <1>8 DEF DeleteKey, Entry, Unlinked, Restrict
  <2>2. StoreBar' = [StoreBar EXCEPT ![k] = NoFile]
    BY <1>1, <1>2, <2>1
  <2>3. DiskBar' = DiskBar /\ AnswerBar' = AnswerBar
    BY <1>1, <1>2, <1>8 DEF DeleteKey
  <2>4. Atomic!Delete(k)
    BY <2>2, <2>3 DEF Atomic!Delete, StoreBar, DiskBar, AnswerBar
  <2> QED
    BY <2>4 DEF Atomic!Next
<1>9. ASSUME NEW x \in DOMAIN names \cup DOMAIN disk, WriteBack(x)
      PROVE Atomic!Next \/ UNCHANGED Atomic!vars
  <2>1. \A k \in Keys : Entry(disk', k) = IF k = x THEN Entry(names, k) ELSE Entry(disk, k)
    BY <1>9 DEF WriteBack, Entry, Restrict
  <2>2. StoreBar' = StoreBar /\ AnswerBar' = AnswerBar
    BY <1>1, <1>2, <1>9 DEF WriteBack
  <2>3. CASE x \in Keys
    <3>1. DiskBar' = [DiskBar EXCEPT ![x] = StoreBar[x]]
      BY <1>1, <1>2, <2>1, <2>3
    <3>2. Atomic!WriteBack(x)
      BY <2>2, <3>1 DEF Atomic!WriteBack, StoreBar, DiskBar, AnswerBar
    <3> QED
      BY <2>3, <3>2 DEF Atomic!Next
  <2>4. CASE x \notin Keys
    <3>1. DiskBar' = DiskBar
      BY <1>1, <1>2, <2>1, <2>4
    <3> QED
      BY <1>3, <2>2, <3>1
  <2> QED
    BY <2>3, <2>4
<1>10. ASSUME Reboot
       PROVE Atomic!Next
  <2>1. PICK kept \in SUBSET (DOMAIN names \cup DOMAIN disk) :
          names' = [x \in (kept \cap DOMAIN names) \cup (DOMAIN disk \ kept) |->
                      IF x \in kept THEN names[x] ELSE disk[x]]
    BY <1>10 DEF Reboot
  <2>2. disk' = names' /\ opened' = [p \in Clients |-> NoFile]
    BY <1>10 DEF Reboot
  <2>3. \A k \in Keys : Entry(names', k) = IF k \in kept THEN Entry(names, k) ELSE Entry(disk, k)
    BY <2>1 DEF Entry
  <2>4. /\ StoreBar' = [k \in Keys |-> IF k \in kept \cap Keys THEN StoreBar[k] ELSE DiskBar[k]]
        /\ DiskBar' = StoreBar' /\ AnswerBar' = [p \in Clients |-> NoFile]
    BY <1>1, <1>2, <2>2, <2>3
  <2>5. Atomic!Reboot
    BY <2>4 DEF Atomic!Reboot, StoreBar, DiskBar, AnswerBar
  <2> QED
    BY <2>5 DEF Atomic!Next
<1>11. CASE UNCHANGED artifactVars
  BY <1>1, <1>2, <1>3, <1>11 DEF artifactVars
<1> QED
  BY <1>4, <1>5, <1>6, <1>7, <1>8, <1>9, <1>10, <1>11, <1>4a DEF ArtifactNext

(* artifact.Store implements the atomic store: no reader ever gets a part  *)
(* of an artifact, whichever calls overlap, fail or are cut off.           *)
THEOREM StoreImplementsAtomicStore == ArtifactSpec => ReadsWholeArtifacts
<1>1. ArtifactInit => Atomic!Init
  BY DEF ArtifactInit, Atomic!Init, HeldAs
<1> QED
  BY <1>1, ArtifactSimulated, ArtifactInvariant, PTL DEF ArtifactSpec, ReadsWholeArtifacts, Atomic!Spec
=============================================================================
