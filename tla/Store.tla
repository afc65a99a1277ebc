------------------------------- MODULE Store -------------------------------
(***************************************************************************)
(* The loads of single files (store.ReplaceFile), statement by statement   *)
(* and side by side, over PostgreSQL's READ COMMITTED tables: a statement  *)
(* sees what is committed when it starts and what its own transaction      *)
(* wrote; endpoint foreign keys have no ON DELETE action; a row another    *)
(* transaction holds is waited for.                                        *)
(***************************************************************************)
EXTENDS Facts, FiniteSets

CONSTANTS
  Loaders,   \* goroutines and workers that load files
  Offered,   \* the facts they are given
  Starts,    \* sequences of facts loaded one by one before the loaders start
  MaxLoads   \* a bound

ASSUME StartsAssumption ==
  \A S \in Starts : /\ S \in Seq(Offered)
                    /\ \A i, j \in DOMAIN S : S[i].path = S[j].path => i = j
                    /\ \A i \in DOMAIN S : Flattens(S[i]) /\ S[i].parseError = ""

ASSUME BoundsAssumption == MaxLoads \in Nat

VARIABLES
  db,      \* the committed rows, by table
  txn,     \* a loader's open transaction
  loads,   \* loads begun so far: the load tells uuids apart
  last,    \* history: of every path, the load committed last, its facts and the file's id
  end      \* history: how a loader's last transaction ended

vars == <<db, txn, loads, last, end>>

Paths    == { f.path : f \in Offered }
Derived  == <<"resolves_to", "calls", "implements", "type_defines">>
Vertices == {"file", "scope", "occurrence"}
Edges    == Range(Derived) \cup
            {"defines", "contains_scope", "contains_occurrence", "references_local", "imports"}
Tables   == Vertices \cup Edges

\* The foreign keys of schema/migrations: the vertex tables of an edge table's ends.
Ends(t) == CASE t = "defines"             -> [source |-> "file", target |-> "occurrence"]
             [] t = "imports"             -> [source |-> "file", target |-> "file"]
             [] t = "contains_scope"      -> [source |-> "scope", target |-> "scope"]
             [] t = "contains_occurrence" -> [source |-> "scope", target |-> "occurrence"]
             [] OTHER                     -> [source |-> "occurrence", target |-> "occurrence"]

Empty == [t \in Tables |-> {}]
None  == [stage |-> "idle"]

-----------------------------------------------------------------------------
(* What transaction x sees, and the end of its statements. *)
View(x) == [t \in Tables |-> (db[t] \ x.dels[t]) \cup x.adds[t]]

Delete(x, t, rows) == [x EXCEPT !.dels[t] = @ \cup (rows \cap db[t]), !.adds[t] = @ \ rows]
Insert(x, t, rows) == [x EXCEPT !.adds[t] = @ \cup rows]

\* The ids of a vertex table that belong to the file.
Of(v, t, file) == IF t = "file" THEN {file} ELSE { r.id : r \in { q \in v[t] : q.file = file } }

\* The Delete...BySourceFile and Delete...ByTargetFile queries, Lock...ByFile for both.
Side(v, t, side, file) == { r \in v[t] : r[side] \in Of(v, Ends(t)[side], file) }

Refers(v, t, ids) ==
  \E e \in Edges : \E side \in {"source", "target"} :
    Ends(e)[side] = t /\ \E r \in v[e] : r[side] \in ids

\* Rows held by the other transactions, to their end.
Held(l, t) == UNION { txn[k].dels[t] \cup txn[k].locks[t] :
                        k \in { k \in Loaders \ {l} : txn[k].stage # "idle" } }

-----------------------------------------------------------------------------
(* deleteFile: locks and edges before vertices, both sides of every edge    *)
(* table but imports, in this order.                                        *)
(* Mutant: the imports of other files into this one are deleted as well. *)
deleteFile_BothImports ==
  LET Both(t) == << <<t, "source">>, <<t, "target">> >> IN
  FlattenSeq([i \in DOMAIN Derived |-> << <<Derived[i], "lock">> >> \o Both(Derived[i])])
  \o Both("references_local") \o Both("contains_occurrence") \o Both("contains_scope")
  \o Both("defines") \o Both("imports") \o << <<"occurrence", "rows">>, <<"scope", "rows">> >>

deleteFile ==
  << <<"resolves_to", "lock">>, <<"resolves_to", "source">>, <<"resolves_to", "target">>,
     <<"calls", "lock">>, <<"calls", "source">>, <<"calls", "target">>,
     <<"implements", "lock">>, <<"implements", "source">>, <<"implements", "target">>,
     <<"type_defines", "lock">>, <<"type_defines", "source">>, <<"type_defines", "target">>,
     <<"references_local", "source">>, <<"references_local", "target">>,
     <<"contains_occurrence", "source">>, <<"contains_occurrence", "target">>,
     <<"contains_scope", "source">>, <<"contains_scope", "target">>,
     <<"defines", "source">>, <<"defines", "target">>,
     <<"imports", "source">>, <<"occurrence", "rows">>, <<"scope", "rows">> >>

\* insertRows: the order of its COPYs.
insertRows == <<"scope", "occurrence", "defines", "contains_scope",
                "contains_occurrence", "references_local">>

\* What flatten makes of facts that were loaded and linked before the loaders
\* start. A rebuild's rows are LinkGraph's subject; to a load any two
\* occurrences of two files may be joined, in each of the four tables.
Cross(rows) == { r \in [source : rows, target : rows] : r.source.file # r.target.file }
Relinked(d) ==
  [t \in Tables |->
     CASE t \in Range(Derived) -> { [source |-> r.source.id, target |-> r.target.id] :
                                      r \in Cross(d.occurrence) }
       [] t = "imports" -> { [source |-> r.source.file, target |-> r.target.file] :
                               r \in Cross(d.occurrence) }
       [] OTHER -> d[t]]

FileRow(id, ff) == [id |-> id, path |-> ff.path, lang |-> ff.lang, coord |-> ff.coord]
FileId(n)       == UUID(n, "file", 1)

Loaded(S) ==
  [t \in Tables |->
     UNION { LET rows == flatten(S[n], -n, FileId(-n)) IN
             CASE t = "file"        -> { FileRow(FileId(-n), S[n]) }
               [] t \in DOMAIN rows -> rows[t]
               [] OTHER             -> {} : n \in DOMAIN S }]

Init ==
  \E S \in Starts :
    /\ db = Relinked(Loaded(S))
    /\ txn = [l \in Loaders |-> None]
    /\ loads = 0
    /\ last = { [ff |-> S[n], load |-> -n, id |-> FileId(-n)] : n \in DOMAIN S }
    /\ end = [l \in Loaders |-> "none"]

-----------------------------------------------------------------------------
(* ReplaceFile. *)
Finish(l, how) == /\ txn' = [txn EXCEPT ![l] = None]
                  /\ end' = [end EXCEPT ![l] = how]

Rollback(l, how) == Finish(l, how) /\ UNCHANGED <<db, loads, last>>

To(l, x) == txn' = [txn EXCEPT ![l] = x] /\ UNCHANGED <<db, loads, last, end>>

At(l, stage) == txn[l].stage = stage

\* Facts reach it straight from the extractor (index.Run) or through their
\* artifact (the reduce); facts of a file that did not parse are refused.
Begin(l, ff, artifact) ==
  /\ At(l, "idle") /\ loads < MaxLoads
  /\ artifact => Encodable(ff)
  /\ loads' = loads + 1
  /\ IF ff.parseError # ""
     THEN txn' = txn /\ end' = [end EXCEPT ![l] = "skipped"]
     ELSE /\ txn' = [txn EXCEPT ![l] =
               [stage |-> "begun", given |-> ff, ff |-> IF artifact THEN decode(encode(ff)) ELSE ff,
                load |-> loads', id |-> NoID, step |-> 1,
                dels |-> Empty, adds |-> Empty, locks |-> Empty]]
          /\ end' = [end EXCEPT ![l] = "none"]
  /\ UNCHANGED <<db, last>>

Open(k) == txn[k].stage \notin {"idle", "begun"}

\* A transaction that has begun holds the link lock once it asked for it: only
\* a rebuild excludes it, and Rebuild is one step.
LockLinkShared(l) == At(l, "begun") /\ To(l, [txn[l] EXCEPT !.stage = "linking"])

(* Mutant: two loads of one path look it up side by side. *)
LockFilePath_Free(l) == At(l, "linking") /\ To(l, [txn[l] EXCEPT !.stage = "locked"])

\* Held to the end of the transaction, by path.
LockFilePath(l) ==
  /\ At(l, "linking")
  /\ \A k \in Loaders \ {l} : Open(k) /\ ~At(k, "linking") => txn[k].ff.path # txn[l].ff.path
  /\ To(l, [txn[l] EXCEPT !.stage = "locked"])

FileIDByPath(v, path) == { r.id : r \in { q \in v.file : q.path = path } }

\* resolveFile: one lookup, then a row with a new id or the old id refreshed.
resolveFile(l) ==
  /\ At(l, "locked")
  /\ LET x == txn[l]
         v == View(x)
         found == FileIDByPath(v, x.ff.path)
     IN \E id \in IF found = {} THEN { FileId(x.load) } ELSE found :
          LET old == { r \in v.file : r.id = id }
          IN To(l, [Insert(Delete(x, "file", old), "file", { FileRow(id, x.ff) })
                    EXCEPT !.id = id, !.stage = "resolved"])

\* flatten: facts that are not self-contained end the load here.
Flatten(l) ==
  /\ At(l, "resolved")
  /\ IF Flattens(txn[l].ff) THEN To(l, [txn[l] EXCEPT !.stage = "delete"])
                            ELSE Rollback(l, "invalid")

Next1(x, steps, stage) ==
  IF x.step = Len(steps) THEN [x EXCEPT !.stage = stage, !.step = 1]
                         ELSE [x EXCEPT !.step = @ + 1]

LockRows(l) ==
  LET x == txn[l]
      t == deleteFile[x.step][1]
      rows == Side(View(x), t, "source", x.id) \cup Side(View(x), t, "target", x.id)
  IN /\ At(l, "delete") /\ deleteFile[x.step][2] = "lock"
     /\ rows \cap Held(l, t) = {}
     /\ To(l, Next1([x EXCEPT !.locks[t] = rows], deleteFile, "insert"))

DeleteEdges(l) ==
  LET x == txn[l]
      t == deleteFile[x.step][1]
      rows == Side(View(x), t, deleteFile[x.step][2], x.id)
  IN /\ At(l, "delete") /\ deleteFile[x.step][2] \in {"source", "target"}
     /\ rows \cap Held(l, t) = {}
     /\ To(l, Next1(Delete(x, t, rows), deleteFile, "insert"))

DeleteVertices(l) ==
  LET x == txn[l]
      t == deleteFile[x.step][1]
      v == View(x)
  IN /\ At(l, "delete") /\ deleteFile[x.step][2] = "rows"
     /\ IF Refers(v, t, Of(v, t, x.id))
        THEN Rollback(l, "refused")
        ELSE To(l, Next1(Delete(x, t, { r \in v[t] : r.file = x.id }), deleteFile, "insert"))

\* One COPY; the edges' endpoints must be there.
Copy(l) ==
  LET x == txn[l]
      t == insertRows[x.step]
      rows == flatten(x.ff, x.load, x.id)[t]
      v == View(x)
      there == t \in Edges =>
        \A r \in rows : \A side \in {"source", "target"} :
          r[side] \in { q.id : q \in v[Ends(t)[side]] }
  IN /\ At(l, "insert")
     /\ IF there THEN To(l, Next1(Insert(x, t, rows), insertRows, "loaded"))
                 ELSE Rollback(l, "refused")

Commit(l) ==
  /\ At(l, "loaded")
  /\ LET x == txn[l] IN
       /\ db' = View(x)
       /\ last' = { h \in last : h.ff.path # x.ff.path }
                  \cup { [ff |-> x.given, load |-> x.load, id |-> x.id] }
  /\ Finish(l, "committed")
  /\ UNCHANGED loads

\* An error, a cancelled context, or the end of the process.
Disconnect(l) == ~At(l, "idle") /\ Rollback(l, "none")

(* Mutant: a rebuild does not wait for the loads in flight. *)
RebuildAll_Beside ==
  /\ db' = Relinked(db)
  /\ UNCHANGED <<txn, loads, last, end>>

\* link.RebuildAll: exclusive, so no load is past its first statement.
RebuildAll ==
  /\ \A l \in Loaders : ~Open(l)
  /\ db' = Relinked(db)
  /\ UNCHANGED <<txn, loads, last, end>>

Next ==
  \/ RebuildAll
  \/ \E l \in Loaders :
       \/ \E ff \in Offered, artifact \in BOOLEAN : Begin(l, ff, artifact)
       \/ LockLinkShared(l) \/ LockFilePath(l) \/ resolveFile(l) \/ Flatten(l)
       \/ LockRows(l) \/ DeleteEdges(l) \/ DeleteVertices(l) \/ Copy(l)
       \/ Commit(l) \/ Disconnect(l)

Spec == Init /\ [][Next]_vars

-----------------------------------------------------------------------------
(* What readers of the base tables may rely on while files are loaded side *)
(* by side (store/store.go, store/sqlc/query.sql).                         *)

Stages == {"idle", "begun", "linking", "locked", "resolved", "delete", "insert", "loaded"}

(* Rows are in the columns of their tables, and a transaction touches       *)
(* nothing but rows.                                                        *)
TypeOK ==
  /\ DOMAIN db = Tables
  /\ \A t \in Edges : \A r \in db[t] : DOMAIN r = {"source", "target"}
  /\ \A t \in {"scope", "occurrence"} : \A r \in db[t] :
       r.file \in { f.id : f \in db.file } /\ r.from <= r.to /\ r.to <= MaxOffset
  /\ loads \in 0..MaxLoads
  /\ \A l \in Loaders :
       /\ txn[l].stage \in Stages
       /\ end[l] \in {"none", "committed", "skipped", "invalid", "refused"}
       /\ txn[l].stage # "idle" =>
            txn[l].load \in 1..loads /\ DOMAIN View(txn[l]) = Tables

(* "The select-then-insert race" (resolveFile): `file.path` has no unique   *)
(* constraint, so two loads of a path that was never loaded could both      *)
(* create its row, and every query by path would see two files.             *)
OneRowPerPath == \A f, g \in db.file : f.path = g.path => f = g

(* "A file's rows are replaced, never merged": what is committed for a file *)
(* is exactly what its last committed load was given -- not what its        *)
(* artifact or an earlier load made of it -- and that load parsed.          *)
FileRowsAreOneLoad ==
  /\ { f.path : f \in db.file } = { h.ff.path : h \in last }
  /\ \A f \in db.file : \A h \in last :
       h.ff.path = f.path =>
         LET rows == flatten(h.ff, h.load, f.id)
             mine(t) == Side(db, t, "source", f.id) \cup Side(db, t, "target", f.id)
         IN /\ h.ff.parseError = ""
            /\ f = FileRow(f.id, h.ff)
            /\ \A t \in DOMAIN rows :
                 rows[t] = IF t \in Vertices THEN { r \in db[t] : r.file = f.id } ELSE mine(t)

(* The foreign keys refuse no statement of a load, whatever edges other     *)
(* files or a rebuild point at the file: "getting the order wrong is a      *)
(* foreign-key error", and 23503 is not retried (index.withRetry).          *)
NoLoadRefused == \A l \in Loaders : end[l] # "refused"

(* A commit of one file disturbs no other: base rows and ids of other files *)
(* and their imports into it stay, and the file keeps its id ("minting a    *)
(* new one would invalidate every other file's import edges into this one").*)
OthersUntouched ==
  [][\A l \in Loaders :
       txn[l].stage = "loaded" /\ end'[l] = "committed" /\ txn'[l].stage = "idle" =>
         LET mine == txn[l].id IN
         /\ { f.id : f \in db.file } \subseteq { f.id : f \in db'.file }
         /\ { f \in db.file : f.id # mine } \subseteq db'.file
         /\ \A t \in {"scope", "occurrence"} :
              { r \in db[t] : r.file # mine } = { r \in db'[t] : r.file # mine }
         /\ { r \in db.imports : r.source # mine } = { r \in db'.imports : r.source # mine }]_vars
=============================================================================
