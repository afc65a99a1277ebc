--------------------------- MODULE AtomicBatches ----------------------------
(***************************************************************************)
(* What a run of the index promises, whatever dies, is cancelled, retried  *)
(* or replayed under it.  It settles once on the files it is about.  The   *)
(* facts of some of them, which were there and parsed, replace what was    *)
(* known of those and of no other, all in one step; a run that does so     *)
(* twice does it for the same files.  It ends once, and after that nothing *)
(* of it is published; it succeeds only when it has published.  A run that *)
(* fails may have published or not: that is not promised.                  *)
(***************************************************************************)
CONSTANTS
  Files, Runs,
  Row,       \* what a file of the graph may hold
  Usable,    \* the contents that are facts of a file that was there and parsed
  Blank      \* what it holds before any run

VARIABLES
  graph,     \* the facts of each file, and the run they are from
  stage,     \* how far a run is: "new", "frozen" or "published"
  files,     \* the files it is about
  loaded,    \* those it has published
  outcome    \* how it ended, "none" while it has not

vars == <<graph, stage, files, loaded, outcome>>

Init ==
  /\ graph   = [f \in Files |-> Blank]
  /\ stage   = [r \in Runs |-> "new"]
  /\ files   = [r \in Runs |-> {}]
  /\ loaded  = [r \in Runs |-> {}]
  /\ outcome = [r \in Runs |-> "none"]

Ends(r, o) == outcome[r] = "none" /\ outcome' = [outcome EXCEPT ![r] = o]

Freeze(r) ==
  /\ stage[r] = "new" /\ stage' = [stage EXCEPT ![r] = "frozen"]
  /\ outcome[r] = "none"
  /\ \E F \in SUBSET Files : files' = [files EXCEPT ![r] = F]
  /\ UNCHANGED <<graph, loaded, outcome>>

\* The run may fail at once, for not having heard that its batch is published.
Publish(r) ==
  /\ stage[r] # "new" /\ stage' = [stage EXCEPT ![r] = "published"]
  /\ \E S \in IF stage[r] = "published" THEN {loaded[r]} ELSE SUBSET files[r] :
       /\ loaded' = [loaded EXCEPT ![r] = S]
       /\ \A f \in S : graph'[f].run = r /\ graph'[f].ver \in Usable
       /\ \A f \in Files \ S : graph'[f] = graph[f]
  /\ graph' \in [Files -> Row]
  /\ outcome[r] = "none" /\ (UNCHANGED outcome \/ Ends(r, "ERROR"))
  /\ UNCHANGED files

Succeed(r) ==
  /\ Ends(r, "SUCCESS") /\ stage[r] = "published"
  /\ UNCHANGED <<graph, stage, files, loaded>>

Fail(r) ==
  /\ Ends(r, "ERROR")
  /\ UNCHANGED <<graph, stage, files, loaded>>

Next == \E r \in Runs : Freeze(r) \/ Publish(r) \/ Succeed(r) \/ Fail(r)

Spec == Init /\ [][Next]_vars
=============================================================================
