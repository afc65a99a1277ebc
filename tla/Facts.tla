------------------------------- MODULE Facts -------------------------------
(***************************************************************************)
(* The facts of one file (facts/facts.go), their artifact                  *)
(* (artifact/codec.go) and the rows they become (store.go's flatten).      *)
(*                                                                         *)
(* Facts are [path, lang, coord, root, scopes, occurrences, edges,         *)
(* parseError]: coord stands for the coordinate's four components and root *)
(* for its Root. A descriptor is one value.                                *)
(***************************************************************************)
EXTENDS Integers, Sequences, SequencesExt

CONSTANTS MaxOffset      \* math.MaxInt32, the offset columns' limit

NoID == 0

FileRef           == [vertex |-> "file", id |-> NoID]
ScopeRef(id)      == [vertex |-> "scope", id |-> id]
OccurrenceRef(id) == [vertex |-> "occurrence", id |-> id]

(* Mutant: an offset beyond the columns is not refused. *)
span_Wraps(x) == 0 <= x.from /\ x.from <= x.to

(* The half-open range fits the int32 columns: span, in the codec and again *)
(* in the store.                                                            *)
span(x) == 0 <= x.from /\ x.from <= x.to /\ x.to <= MaxOffset

Ids(rows) == { r.id : r \in Range(rows) }

-----------------------------------------------------------------------------
(* The artifact. The enums are generated from the schema, 0 is unspecified. *)
vertexKinds == [file |-> 1, scope |-> 2, occurrence |-> 3]
edgeKinds   == [defines |-> 1, contains |-> 2, references_local |-> 3]

Encodable(ff) ==
  /\ \A s \in Range(ff.scopes) : span(s)
  /\ \A o \in Range(ff.occurrences) : span(o)
  /\ \A e \in Range(ff.edges) : /\ e.kind \in DOMAIN edgeKinds
                                /\ e.source.vertex \in DOMAIN vertexKinds
                                /\ e.target.vertex \in DOMAIN vertexKinds

encodeRef(r) == [vertex |-> vertexKinds[r.vertex], local_id |-> r.id]

encode(ff) ==
  [file        |-> [path |-> ff.path, lang |-> ff.lang, coord |-> ff.coord],
   scopes      |-> [i \in DOMAIN ff.scopes |-> LET s == ff.scopes[i] IN
                      [local_id |-> s.id, kind |-> s.kind, range_start |-> s.from,
                       range_end |-> s.to, parent_scope_id |-> s.parent]],
   occurrences |-> [i \in DOMAIN ff.occurrences |-> LET o == ff.occurrences[i] IN
                      [local_id |-> o.id, descriptor |-> o.desc, role |-> o.role,
                       range_start |-> o.from, range_end |-> o.to, scope_id |-> o.scope]],
   edges       |-> [i \in DOMAIN ff.edges |-> LET e == ff.edges[i] IN
                      [kind |-> edgeKinds[e.kind], source |-> encodeRef(e.source),
                       target |-> encodeRef(e.target)]],
   parse_error |-> ff.parseError]

Key(table, n) == CHOOSE k \in DOMAIN table : table[k] = n

decodeRef(r) == [vertex |-> Key(vertexKinds, r.vertex), id |-> r.local_id]

(* Mutant: the parent of a scope is taken for the scope of an occurrence. *)
decode_Flat(msg) ==
  [path |-> msg.file.path, lang |-> msg.file.lang, coord |-> msg.file.coord, root |-> "",
   scopes |-> [i \in DOMAIN msg.scopes |-> LET s == msg.scopes[i] IN
                 [id |-> s.local_id, kind |-> s.kind, from |-> s.range_start,
                  to |-> s.range_end, parent |-> NoID]],
   occurrences |-> [i \in DOMAIN msg.occurrences |-> LET o == msg.occurrences[i] IN
                      [id |-> o.local_id, desc |-> o.descriptor, role |-> o.role,
                       from |-> o.range_start, to |-> o.range_end, scope |-> o.scope_id]],
   edges |-> [i \in DOMAIN msg.edges |-> LET e == msg.edges[i] IN
                [kind |-> Key(edgeKinds, e.kind), source |-> decodeRef(e.source),
                 target |-> decodeRef(e.target)]],
   parseError |-> msg.parse_error]

decode(msg) ==
  [path |-> msg.file.path, lang |-> msg.file.lang, coord |-> msg.file.coord, root |-> "",
   scopes |-> [i \in DOMAIN msg.scopes |-> LET s == msg.scopes[i] IN
                 [id |-> s.local_id, kind |-> s.kind, from |-> s.range_start,
                  to |-> s.range_end, parent |-> s.parent_scope_id]],
   occurrences |-> [i \in DOMAIN msg.occurrences |-> LET o == msg.occurrences[i] IN
                      [id |-> o.local_id, desc |-> o.descriptor, role |-> o.role,
                       from |-> o.range_start, to |-> o.range_end, scope |-> o.scope_id]],
   edges |-> [i \in DOMAIN msg.edges |-> LET e == msg.edges[i] IN
                [kind |-> Key(edgeKinds, e.kind), source |-> decodeRef(e.source),
                 target |-> decodeRef(e.target)]],
   parseError |-> msg.parse_error]

-----------------------------------------------------------------------------
(* The rows. A fresh uuid is the load that minted it and the local id. *)
UUID(load, of, id) == [load |-> load, of |-> of, id |-> id]
Null == UUID(0, "null", NoID)

NumberedOnce(rows) == /\ NoID \notin Ids(rows)
                      /\ \A i, j \in DOMAIN rows : rows[i].id = rows[j].id => i = j

optional(ids, id) == id = NoID \/ id \in ids

resolveRef(ff, ref, want) ==
  /\ ref.vertex = want
  /\ CASE want = "file"       -> TRUE
       [] want = "scope"      -> ref.id \in Ids(ff.scopes)
       [] want = "occurrence" -> ref.id \in Ids(ff.occurrences)
       [] OTHER               -> FALSE

endpoints(ff, e) ==
  CASE e.kind = "defines" -> /\ resolveRef(ff, e.source, "file")
                             /\ resolveRef(ff, e.target, "occurrence")
    [] e.kind = "contains" -> /\ resolveRef(ff, e.source, "scope")
                              /\ resolveRef(ff, e.target, e.target.vertex)
    [] e.kind = "references_local" -> /\ resolveRef(ff, e.source, "occurrence")
                                      /\ resolveRef(ff, e.target, "occurrence")
    [] OTHER -> FALSE

(* The table of an edge; contains is one label over two tables. *)
TableOf(e) ==
  CASE e.kind # "contains"                             -> e.kind
    [] e.kind = "contains" /\ e.target.vertex = "scope"      -> "contains_scope"
    [] e.kind = "contains" /\ e.target.vertex = "occurrence" -> "contains_occurrence"
    [] OTHER                                           -> "none"

Flattens(ff) ==
  /\ NumberedOnce(ff.scopes) /\ NumberedOnce(ff.occurrences)
  /\ \A s \in Range(ff.scopes) : span(s) /\ optional(Ids(ff.scopes), s.parent)
  /\ \A o \in Range(ff.occurrences) : span(o) /\ optional(Ids(ff.scopes), o.scope)
  /\ \A e \in Range(ff.edges) : endpoints(ff, e) /\ TableOf(e) # "none"

flatten(ff, load, file) ==
  LET scope(id) == IF id = NoID THEN Null ELSE UUID(load, "scope", id)
      end(ref)  == IF ref.vertex = "file" THEN file ELSE UUID(load, ref.vertex, ref.id)
      edges(t)  == { [source |-> end(e.source), target |-> end(e.target)] :
                       e \in { x \in Range(ff.edges) : TableOf(x) = t } }
  IN
  [scope |-> { [id |-> scope(s.id), file |-> file, kind |-> s.kind, from |-> s.from,
                to |-> s.to, parent |-> scope(s.parent)] : s \in Range(ff.scopes) },
   occurrence |-> { [id |-> UUID(load, "occurrence", o.id), file |-> file, desc |-> o.desc,
                     role |-> o.role, from |-> o.from, to |-> o.to, scope |-> scope(o.scope)] :
                      o \in Range(ff.occurrences) },
   defines |-> edges("defines"),
   contains_scope |-> edges("contains_scope"),
   contains_occurrence |-> edges("contains_occurrence"),
   references_local |-> edges("references_local")]
=============================================================================
