------------------------------ MODULE MCStore ------------------------------
(* Two files that name each other's symbols, each in two texts; one that did *)
(* not parse; facts with an edge to nowhere; a range beyond the columns.     *)
EXTENDS Store

S(id, kind, from, to, parent) == [id |-> id, kind |-> kind, from |-> from, to |-> to, parent |-> parent]
O(id, desc, role, from, to, scope) ==
  [id |-> id, desc |-> desc, role |-> role, from |-> from, to |-> to, scope |-> scope]
E(kind, source, target) == [kind |-> kind, source |-> source, target |-> target]
FF(path, coord, scopes, occurrences, edges) ==
  [path |-> path, lang |-> "go", coord |-> coord, root |-> "/repo", scopes |-> scopes,
   occurrences |-> occurrences, edges |-> edges, parseError |-> ""]

a1 == FF("a.go", "v1", << S(1, "file", 0, 4, NoID), S(2, "function", 1, 3, 1) >>,
         << O(1, "A", "definition", 0, 1, 1), O(2, "A", "reference", 2, 2, 2) >>,
         << E("defines", FileRef, OccurrenceRef(1)), E("contains", ScopeRef(1), ScopeRef(2)),
            E("contains", ScopeRef(2), OccurrenceRef(2)),
            E("references_local", OccurrenceRef(2), OccurrenceRef(1)),
            E("references_local", OccurrenceRef(2), OccurrenceRef(1)) >>)
a2 == FF("a.go", "v2", << S(1, "file", 0, 4, NoID) >>, << O(1, "B", "reference", 0, 4, NoID) >>,
         << E("contains", ScopeRef(1), OccurrenceRef(1)) >>)
b1 == FF("b.go", "v1", << S(1, "file", 0, 2, NoID) >>, << O(1, "B", "definition", 0, 1, 1) >>,
         << E("defines", FileRef, OccurrenceRef(1)), E("contains", ScopeRef(1), OccurrenceRef(1)) >>)
poison == [FF("a.go", "v1", << >>, << >>, << >>) EXCEPT !.parseError = "syntax error"]
loose  == [a2 EXCEPT !.edges = << E("contains", ScopeRef(3), OccurrenceRef(1)) >>]
wide   == [b1 EXCEPT !.scopes[1].to = 5]

MCOffered == {a1, a2, b1, poison, loose, wide}
MCStarts  == { << >>, <<b1, a1>> }
=============================================================================
