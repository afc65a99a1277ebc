-------------------------- MODULE IndexProperties --------------------------
(***************************************************************************)
(* What the durable index of IndexWorkflow promises.                       *)
(***************************************************************************)
EXTENDS IndexWorkflow

Coordinate == Coords \cup {0}
Content    == Versions \cup {0}
Facts      == [ver : Content, coord : Coordinate]
Row        == [run : Runs \cup {NoRun}, ver : Content, coord : Coordinate]
Verdicts   == {"none", "key", "parse"}
Ledger     == [site : Coordinate, walked : BOOLEAN, walk : Seq(Files),
               await : [Slots -> Outcomes], reduced : BOOLEAN]
Child      == [status : Statuses, file : Files \cup {0}, coord : Coordinate,
               ck : Verdicts]
Labels     == {"idle", "resolve", "walk", "enqueue", "revive", "gather",
               "reduce", "load", "collect"}
Routine    == [pc : Labels,
               site : Coordinate, paths : Seq(Files), pos : Nat \ {0},
               todo : SUBSET Files, staged : [Files -> Facts],
               attempt : 1..MaxLoadAttempts]
Command    == [at : {"down", "launched", "listEnqueued", "listCancelled", "await", "stop"},
               target : Targets, run : Runs \cup {NoRun}]
Allowance  == [{"edit", "crash", "interrupt", "fault"} -> Nat]
Stages     == {"idle", "started", "read", "written"}
Worker     == [at : Stages, ver : Content]

(* Every variable holds what the code declares it to hold; no load is      *)
(* attempted more than MaxLoadAttempts times (index.go, withRetry).        *)
TypeOK ==
  /\ tree \in [Targets -> [Files -> Versions]]
  /\ manifest \in [Targets -> Coordinate]
  /\ cli \in Command
  /\ cli.at = "await" => cli.run \in Runs
  /\ status \in [Runs -> Statuses]
  /\ owner \in [Runs -> Targets]
  /\ log \in [Runs -> Ledger]
  /\ task \in [Runs -> [Slots -> Child]]
  /\ art \in [Targets -> [Files -> Facts]]
  /\ graph \in [Files -> Row]
  /\ go \in [Runs -> Routine]
  /\ work \in [Runs -> [Slots -> Worker]]
  /\ committed \subseteq Runs
  /\ base \in [Runs -> [Files -> Content]]
  /\ rivals \in BOOLEAN
  /\ budget \in Allowance

(* A run that reports success has settled every file of its frozen walk on *)
(* a verdict its own task earned: loaded from an artifact, skipped for a   *)
(* parse error, or skipped because the task failed -- never because a      *)
(* shutdown cancelled it (mapFiles, cancelled, reviveCancelled), and       *)
(* Loaded + len(Skipped) == Files (index.go's Result).                     *)
Earned(r, i) ==
  LET t == task[r][i] IN
  /\ t.file = log[r].walk[i]
  /\ \/ log[r].await[i] = t.ck /\ t.ck # "none" /\ t.status = "SUCCESS"
     \/ log[r].await[i] = "failed" /\ t.status = "ERROR"
NoFileLost ==
  \A r \in Runs : status[r] = "SUCCESS" =>
    /\ r \in committed
    /\ \A i \in 1..Len(log[r].walk) : Earned(r, i)

(* Why NoFileLost holds: what is true of every run in every state, however *)
(* far it is and whether or not a process is executing it.                 *)
Reducing  == {"reduce", "load", "collect"}
Walked    == {"enqueue", "revive", "gather"} \cup Reducing
Settled(r) == \A i \in 1..Len(log[r].walk) : log[r].await[i] # "none"

Held     == \A r \in Runs : \A i \in Slots :
              work[r][i].at # "idle" => Up /\ task[r][i].status = "PENDING"
Numbered == \A r \in Runs : \A i \in Slots : task[r][i].status # "NONE" =>
              /\ log[r].walked /\ i <= Len(log[r].walk)
              /\ task[r][i].file = log[r].walk[i]
Judged   == \A r \in Runs : \A i \in Slots : log[r].await[i] # "none" => Earned(r, i)
Frozen   == \A r \in Runs :
              /\ Len(log[r].walk) <= Cardinality(Files)
              /\ go[r].pc \in Walked => log[r].walked /\ go[r].paths = log[r].walk
Gathered == \A r \in Runs :
              /\ go[r].pc = "gather" =>
                   \A i \in 1..Len(log[r].walk) : i < go[r].pos => log[r].await[i] # "none"
              /\ (go[r].pc \in Reducing \/ log[r].reduced) => log[r].walked /\ Settled(r)
Reduced  == \A r \in Runs :
              /\ (go[r].pc = "collect" \/ log[r].reduced) => r \in committed
              /\ status[r] = "SUCCESS" => log[r].reduced
Inductive == TypeOK /\ Held /\ Numbered /\ Judged /\ Frozen /\ Gathered /\ Reduced

(* The key a map task checkpointed names an artifact for as long as its    *)
(* run may still reduce it: the batch that consumes an artifact is the one *)
(* that deletes it, after its commit (reduce, Decision 16).  Two live runs *)
(* of one tree share their keys, so the promise is made to a run without   *)
(* a rival.                                                                *)
ArtifactOutlivesTask ==
  \A r \in Runs : \A i \in Slots :
    (~rivals /\ status[r] \in Unfinished /\ r \notin committed /\ task[r][i].ck = "key")
      => art[owner[r]][task[r][i].file] # NoFacts

(* What a run committed is no older than what its walk saw, and all of it  *)
(* is stamped with the one coordinate its resolve step froze, whatever was *)
(* edited while the run was down.                                          *)
LoadedAsFrozen ==
  \A f \in Files : LET g == graph[f] IN
    (g.run # NoRun /\ ~rivals) => g.ver >= base[g.run][f] /\ g.coord = log[g.run].site

(* Why the two hold: what a run's durable rows, its goroutine, its workers *)
(* and the artifacts of its tree have in common while it is alone on it.   *)
Executing == \A r \in Runs : go[r].pc # "idle" => status[r] = "PENDING"
Begun     == \A r \in Runs : status[r] = "NONE" => ~log[r].walked
Sited     == \A r \in Runs :
               /\ go[r].pc \in {"walk"} \cup Walked =>
                    go[r].site = log[r].site /\ log[r].site # 0
               /\ log[r].walked => log[r].site # 0
Stamped   == \A r \in Runs : \A i \in Slots :
               IF task[r][i].status = "NONE" THEN task[r][i].ck = "none"
                                             ELSE task[r][i].coord = log[r].site
Since     == \A r \in Runs : log[r].walked =>
               /\ \A f \in Files : base[r][f] <= tree[owner[r]][f]
               /\ \A i \in Slots : work[r][i].at \in {"read", "written"} =>
                    base[r][task[r][i].file] <= work[r][i].ver
Concluded == \A r \in committed : log[r].walked /\ Settled(r)
Alone     == \A r, q \in Runs : owner[r] = owner[q] /\ Live(r) /\ Live(q) => r = q
Ready(r, i) == \/ work[r][i].at = "written"
               \/ status[r] \in Unfinished /\ task[r][i].ck = "key"
Kept      == \A r \in Runs : \A i \in Slots : Ready(r, i) =>
               LET f == task[r][i].file
                   a == art[owner[r]][f] IN
               IF a = NoFacts THEN r \in committed
                              ELSE a.coord = log[r].site /\ base[r][f] <= a.ver
Staged    == \A r \in Runs : go[r].pc = "load" =>
               \A f \in Batch(r) \ go[r].todo :
                 go[r].staged[f] = art[owner[r]][f] /\ art[owner[r]][f] # NoFacts
Republished == \A r \in committed : status[r] \in Unfinished =>
               \A f \in Batch(r) : graph[f].run = r /\ art[owner[r]][f] # NoFacts =>
                 art[owner[r]][f] = [ver |-> graph[f].ver, coord |-> graph[f].coord]
Recorded  == \A f \in Files : graph[f].run # NoRun => graph[f].run \in committed
Unrivalled == Alone /\ Kept /\ Staged /\ Republished /\ LoadedAsFrozen
Lineage   == /\ Executing /\ Begun /\ Sited /\ Stamped /\ Since /\ Concluded /\ Recorded
             /\ ~rivals => Unrivalled

(* A file the extractor could not parse or read never replaces the facts   *)
(* of its last good load (store.ErrParseFailed's doc, report's "previous   *)
(* facts left in place").                                                  *)
NoPoisonLoaded == \A f \in Files : graph[f].run # NoRun =>
                    graph[f].ver \notin Poison \cup Absent

(* Why: what a worker publishes, an artifact holds and a batch has staged  *)
(* comes from a file that was there and parsed.                            *)
Unusable       == Poison \cup Absent
CleanWorkers   == \A r \in Runs : \A i \in Slots :
                    /\ work[r][i].at \in {"read", "written"} => work[r][i].ver \notin Absent
                    /\ work[r][i].at = "written" => work[r][i].ver \notin Poison
CleanArtifacts == \A t \in Targets : \A f \in Files :
                    art[t][f] # NoFacts => art[t][f].ver \notin Unusable
CleanBatches   == \A r \in Runs : go[r].pc = "load" =>
                    \A f \in Batch(r) \ go[r].todo : go[r].staged[f].ver \notin Unusable
Clean == CleanWorkers /\ CleanArtifacts /\ CleanBatches /\ NoPoisonLoaded

(* The graph changes only by a commit, and a commit writes one run's whole *)
(* batch and nothing else.                                                 *)
WholeBatches ==
  [][graph' # graph =>
       \E r \in Runs : \A f \in Files :
         IF f \in Batch(r) THEN graph'[f].run = r ELSE graph'[f] = graph[f]]_vars

(* A run is an atomic batch: the index, with its crashes, replays, retries *)
(* and rivals, implements AtomicBatches (dbos.go's indexRepo, mapFiles and *)
(* reduce; index.go's Result).  What a run is about is its walk's          *)
(* checkpoint, what it has loaded are the keys of its settled tasks.       *)
Stage(r)   == CASE r \in committed                    -> "published"
                [] r \notin committed /\ log[r].walked  -> "frozen"
                [] r \notin committed /\ ~log[r].walked -> "new"
About(r)   == {f \in Files : log[r].walked /\ \E i \in 1..Len(log[r].walk) : log[r].walk[i] = f}
Loaded(r)  == {f \in Batch(r) : r \in committed}
Outcome(r) == IF status[r] \in {"SUCCESS", "ERROR"} THEN status[r] ELSE "none"
Batches == INSTANCE AtomicBatches WITH
  Usable  <- Content \ Unusable,
  Blank   <- NoRow,
  stage   <- [r \in Runs |-> Stage(r)],
  files   <- [r \in Runs |-> About(r)],
  loaded  <- [r \in Runs |-> Loaded(r)],
  outcome <- [r \in Runs |-> Outcome(r)]
PublishesWholeBatches == Batches!Spec

(* "Running the reduce twice is running it once" (dbos.go): a reduce       *)
(* replayed after its own commit leaves the graph as it found it, except a *)
(* path that another repository's run has loaded since.                    *)
SecondReduceIsNoOp ==
  [][\A r \in Runs :
       (r \in committed /\ ~rivals /\ go[r].pc = "load" /\ go'[r].pc # "load")
         => \A f \in Files : graph'[f] # graph[f] => graph[f].run # r]_vars

(* Every run ends, however often its process dies, as long as the operator *)
(* keeps invoking codiq on its tree.                                       *)
EveryRunEnds == \A r \in Runs : status[r] \in Unfinished ~> status[r] \in {"SUCCESS", "ERROR"}

(* Interruptions cost no file: without database faults and rivals, a run   *)
(* whose coordinate resolved eventually commits its batch.                 *)
EveryRunLoads ==
  \A r \in Runs : (status[r] \in Unfinished /\ log[r].site # 0)
    ~> (r \in committed \/ rivals \/ budget.fault < MaxFaults)
-----------------------------------------------------------------------------
(* What the code's comments say of it and the model refutes.               *)

(* dbos.go on indexRepo: a failed reduce "reports nothing loaded, which is *)
(* exactly true: the transaction rolled back and the graph is as it was".  *)
FailedRunLoadedNothing == \A r \in Runs : status[r] = "ERROR" => r \notin committed

(* main.go on start: "starting a second workflow beside it would index the *)
(* same tree twice, concurrently"; start exists so that this never happens.*)
OneUnfinishedRun ==
  \A r, q \in Runs : (r # q /\ owner[r] = owner[q])
    => ~(status[r] \in Unfinished /\ status[q] \in Unfinished)

=============================================================================
