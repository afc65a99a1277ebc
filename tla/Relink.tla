------------------------------- MODULE Relink -------------------------------
(***************************************************************************)
(* One reduce batch re-linking the neighbourhood of the files it replaces  *)
(* (link.Batch, index.reduceOnce, store.ReplaceFile), and the full rebuild *)
(* (link.RebuildAll).  The batch works on its own view of the graph, which *)
(* is what its transaction has written, and publishes it by committing.    *)
(***************************************************************************)
EXTENDS LinkGraph

CONSTANTS Texts, MaxLoads     \* Texts[f]: what f may be loaded with; a bound
ASSUME TextsAssumption == \A f \in Files : Texts[f] \subseteq Text
ASSUME LoadsAssumption == MaxLoads \in Nat

VARIABLES
  graph,    \* what is committed
  tx,       \* what the open transaction sees
  owners,   \* Batch.owners
  pc        \* "idle", "open" or "linked": where reduceOnce is

vars == <<graph, tx, owners, pc>>

Empty == [files |-> {}, text |-> [f \in Files |-> << >>], gen |-> [f \in Files |-> 0],
          rows |-> [t \in Tables |-> {}]]

Init == graph = Empty /\ tx = Empty /\ owners = {} /\ pc = "idle"

\* NewBatch: the link lock is shared, so no rebuild runs beside the batch.
NewBatch ==
  /\ pc = "idle"
  /\ pc' = "open" /\ tx' = graph /\ owners' = {}
  /\ UNCHANGED graph

\* RelinkOwners: the file, and the files that reference what it defines.
RelinkOwners(d, f) ==
  (d.files \cap {f}) \cup
  {u \in Files : \E x \in Refs(d, {u}), y \in Defs(d) :
     y[1] = f /\ Sym(d, x).desc = Sym(d, y).desc}

\* deleteFile: the four tables over occurrences from both sides, imports from
\* its source side only.
SourceFile(t, r) == IF t = "imports" THEN r[1] ELSE r[1][1]
TargetFile(t, r) == IF t = "imports" THEN r[2] ELSE r[2][1]
\* Mutant: a file's rows are deleted from the side it owns only.
Without_Owned(d, f) ==
  [t \in Tables |-> {r \in d.rows[t] : SourceFile(t, r) # f}]

Without(d, f) ==
  [t \in Tables |-> {r \in d.rows[t] : /\ SourceFile(t, r) # f
                                       /\ t # "imports" => TargetFile(t, r) # f}]

\* Mutant: the occurrences of the last load are not deleted.
ReplaceFile_Appending(d, f, s) ==
  [files |-> d.files \cup {f}, text |-> [d.text EXCEPT ![f] = @ \o s],
   gen |-> [d.gen EXCEPT ![f] = @ + 1], rows |-> Without(d, f)]

\* ReplaceFile: the file row survives, its occurrences are new ones.
ReplaceFile(d, f, s) ==
  [files |-> d.files \cup {f}, text |-> [d.text EXCEPT ![f] = s],
   gen |-> [d.gen EXCEPT ![f] = @ + 1], rows |-> Without(d, f)]

\* Mutant: the neighbourhood is asked for only once the file is replaced.
Load_TouchAfter(f, s) ==
  /\ pc = "open"
  /\ tx.gen[f] = graph.gen[f] /\ tx.gen[f] < MaxLoads
  /\ tx' = ReplaceFile(tx, f, s)
  /\ owners' = owners \cup RelinkOwners(tx', f)
  /\ UNCHANGED <<graph, pc>>

\* One file of the batch, which names it once: touched, replaced, touched again.
Load(f, s) ==
  /\ pc = "open"
  /\ tx.gen[f] = graph.gen[f] /\ tx.gen[f] < MaxLoads
  /\ tx' = ReplaceFile(tx, f, s)
  /\ owners' = owners \cup RelinkOwners(tx, f) \cup RelinkOwners(tx', f)
  /\ UNCHANGED <<graph, pc>>

\* Batch.Relink: per table, delete what the owners own and derive it again;
\* implements is emptied and derived in full.
Cleared(d, U, t) == IF t = "implements" THEN {}
                    ELSE {r \in d.rows[t] : SourceFile(t, r) \notin U}

\* Mutant: every file's rows are cleared, the owners' alone derived again.
RelinkBatch_Everywhere ==
  /\ pc = "open"
  /\ tx' = [tx EXCEPT !.rows = Derive(tx, owners)]
  /\ pc' = "linked"
  /\ UNCHANGED <<graph, owners>>

RelinkBatch ==
  /\ pc = "open"
  /\ LET new == Derive(tx, owners)
     IN tx' = [tx EXCEPT !.rows = [t \in Tables |-> Cleared(tx, owners, t) \cup new[t]]]
  /\ pc' = "linked"
  /\ UNCHANGED <<graph, owners>>

\* Mutant: the batch is committed before its edges are linked.
Commit_Unlinked ==
  /\ pc \in {"open", "linked"}
  /\ graph' = tx /\ pc' = "idle"
  /\ UNCHANGED <<tx, owners>>

Commit ==
  /\ pc = "linked"
  /\ graph' = tx /\ pc' = "idle"
  /\ UNCHANGED <<tx, owners>>

\* Any error, or the end of the process: the transaction is rolled back.
Rollback ==
  /\ pc # "idle"
  /\ pc' = "idle" /\ tx' = graph
  /\ UNCHANGED <<graph, owners>>

\* RebuildAll takes the link lock exclusively: no batch is open.
RebuildAll ==
  /\ pc = "idle"
  /\ graph' = [graph EXCEPT !.rows = Rebuilt(graph)]
  /\ tx' = graph'
  /\ UNCHANGED <<owners, pc>>

Next == \/ NewBatch \/ RelinkBatch \/ Commit \/ Rollback \/ RebuildAll
        \/ \E f \in Files : \E s \in Texts[f] : Load(f, s)

Spec == Init /\ [][Next]_vars
-----------------------------------------------------------------------------
(* What the incremental re-link promises. *)

Ids     == Files \X Nat \X Places
Rows(t) == IF t = "imports" THEN Files \X Files ELSE Ids \X Ids
IsGraph(d) ==
  /\ DOMAIN d = {"files", "text", "gen", "rows"}
  /\ d.files \subseteq Files
  /\ DOMAIN d.text = Files /\ \A f \in Files : d.text[f] \in Texts[f] \cup {<< >>}
  /\ d.gen \in [Files -> 0..MaxLoads]
  /\ DOMAIN d.rows = Tables /\ \A t \in Tables : d.rows[t] \subseteq Rows(t)

(* A committed graph and a transaction's view hold files, their            *)
(* occurrences, and rows between them.                                     *)
TypeOK == /\ IsGraph(graph) /\ IsGraph(tx)
          /\ owners \subseteq Files /\ pc \in {"idle", "open", "linked"}

(* "Equality with the full rebuild" (link/incremental_test.go): what is    *)
(* committed is what RebuildAll would derive from the same base facts, so  *)
(* a rebuild at any moment changes nothing.                                *)
EqualsRebuild == graph.rows = Rebuilt(graph)

(* The endpoint foreign keys of the derived tables hold after every        *)
(* statement sequence, committed or not: store.deleteFile leaves no row    *)
(* that points at an occurrence it is about to delete.                     *)
NoDanglingRow ==
  \A d \in {graph, tx} : \A t \in Tables : \A r \in d.rows[t] :
    IF t = "imports" THEN r[1] \in d.files /\ r[2] \in d.files
    ELSE \A i \in 1..2 : \E x \in Occurrences(d, Files) : r[i] = Id(d, x)

(* "Change one file -> only its neighbourhood's edges change" (SPEC.md     *)
(* 14, M8): a batch commits no change to a row whose referencing file it   *)
(* did not re-link; implements has no referencing file.                    *)
OnlyOwnersChange ==
  [][pc = "linked" /\ graph' # graph =>
       \A t \in Tables \ {"implements"} :
         \A r \in (graph.rows[t] \ graph'.rows[t]) \cup (graph'.rows[t] \ graph.rows[t]) :
           SourceFile(t, r) \in owners]_vars

(* A reader never sees a batch's files without the edges that follow from  *)
(* them: the re-link implements the graph that is always linked.           *)
Readers == INSTANCE LinkedGraph WITH Blank <- Empty, shown <- graph
ReadersSeeLinkedGraphs == Readers!Spec
=============================================================================
