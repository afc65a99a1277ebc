---------------------------- MODULE IndexWorkflow ----------------------------
(***************************************************************************)
(* The durable map-reduce index of one codiq process, as index/dbos.go,    *)
(* index/reduce.go and cmd/codiq/main.go write it.                         *)
(*                                                                         *)
(* A run (the IndexRepo workflow) resolves a coordinate, freezes the walk, *)
(* enqueues one extract task per file, revives cancelled tasks, gathers    *)
(* the tasks' outcomes and reduces the successful ones in one transaction. *)
(* What DBOS checkpoints survives the process, everything else does not: a *)
(* run is replayed from the top by the process that picks it up, each step *)
(* answering from its checkpoint when it has one.                          *)
(*                                                                         *)
(* Data is reduced to what the properties tell apart: a file is the        *)
(* version of its content, a manifest the coordinate it resolves to, an    *)
(* artifact or a loaded file the pair of both.                             *)
(***************************************************************************)
EXTENDS Naturals, Sequences, FiniteSets

CONSTANTS
  Targets,          \* absolute repository paths codiq may be invoked on
  Files,            \* repo-relative paths with a registered parser, in path order
  Runs,             \* workflow ids, in the order they are minted
  Versions,         \* contents a path goes through, in the order of time
  Initial,          \* the contents it may have when the model starts
  Absent,           \* the contents that are "no such file"
  Poison,           \* the contents the extractor cannot parse
  Coords,           \* coordinates a manifest may resolve to
  Workers,          \* loader.limit, the queue's worker concurrency
  MaxLoadAttempts,  \* index.go's constant of that name
  MaxEdits, MaxCrashes, MaxInterrupts, MaxFaults  \* what the environment may do

ASSUME OrderAssumption  == Files \subseteq Nat /\ Runs \subseteq Nat \ {0}
ASSUME FiniteAssumption == IsFiniteSet(Files) /\ IsFiniteSet(Runs)
ASSUME DataAssumption   == /\ Versions \subseteq Nat
                           /\ Initial \cup Absent \cup Poison \subseteq Versions
                           /\ Absent \cap Poison = {}
                           /\ Coords \subseteq Nat \ {0}
ASSUME BoundsAssumption == /\ Workers \in Nat \ {0} /\ MaxLoadAttempts \in Nat \ {0}
                           /\ MaxEdits \in Nat /\ MaxCrashes \in Nat
                           /\ MaxInterrupts \in Nat /\ MaxFaults \in Nat

NoRun == 0
Slots == 1..Cardinality(Files)      \* positions in a frozen walk

\* One file's facts: the content parsed and the coordinate it was stamped with.
NoFacts == [ver |-> 0, coord |-> 0]
NoRow   == [run |-> NoRun, ver |-> 0, coord |-> 0]

VARIABLES
  tree,       \* tree[t][f]: the content of a file
  manifest,   \* manifest[t]: the coordinate the manifest resolves to, 0 if none
  cli,        \* the process: cmd/codiq's run()
  status,     \* status[r]: DBOS status of a run                       durable
  owner,      \* owner[r]: the target hashed into the run's id         durable
  log,        \* log[r]: the checkpoints of the run's own steps        durable
  task,       \* task[r][i]: the i-th map task                         durable
  art,        \* art[t][f]: the artifact stored under Key(t, f)        durable
  graph,      \* graph[f]: the facts committed to PostgreSQL           durable
  go,         \* go[r]: the goroutine executing a run and its locals
  work,       \* work[r][i]: the worker executing a map task
  committed,  \* history: the runs whose batch has been committed
  base,       \* history: base[r][f], the content at the run's walk
  rivals,     \* history: a run was started beside a live one of its target
  budget      \* what the environment may still do

env     == <<tree, manifest>>
stored  == <<art, graph, committed>>
past    == <<base, rivals>>
vars    == <<env, cli, status, owner, log, task, stored, go, work, past, budget>>

Unfinished == {"ENQUEUED", "PENDING", "CANCELLED"}
Statuses   == Unfinished \cup {"NONE", "SUCCESS", "ERROR"}
Outcomes   == {"none", "key", "parse", "failed"}

NoLog  == [site |-> 0, walked |-> FALSE, walk |-> << >>,
           await |-> [i \in Slots |-> "none"], reduced |-> FALSE]
NoTask == [status |-> "NONE", file |-> 0, coord |-> 0, ck |-> "none"]
Idle   == [at |-> "idle", ver |-> 0]
Parked == [pc |-> "idle", site |-> 0, paths |-> << >>, pos |-> 1, todo |-> {},
           staged |-> [f \in Files |-> NoFacts], attempt |-> 1]
Started == [Parked EXCEPT !.pc = "resolve"]

Least(S) == CHOOSE x \in S : \A y \in S : x <= y

\* index.go, walk: the supported files under root, sorted.
Present(t) == {f \in Files : tree[t][f] \notin Absent}
Sorted(S)  == {s \in [1..Cardinality(S) -> S] :
                 \A i, j \in 1..Cardinality(S) : i < j => s[i] < s[j]}

\* The keys mapFiles returns, each by the file its task was enqueued for.
Batch(r) == {f \in Files : \E i \in Slots : log[r].await[i] = "key" /\ task[r][i].file = f}

\* DBOS may still execute the run, or one of the tasks it left on the queue.
Live(r) == \/ status[r] \in Unfinished
           \/ \E i \in Slots : task[r][i].status \in {"ENQUEUED", "PENDING"}

Up      == cli.at # "down"
Running == cli.at \notin {"down", "stop"}     \* DBOS's context is not cancelled
Spend(what) == budget[what] > 0 /\ budget' = [budget EXCEPT ![what] = @ - 1]

Init ==
  /\ tree \in [Targets -> [Files -> Initial]]
  /\ manifest \in [Targets -> {c \in Coords : \A d \in Coords : c <= d}]
  /\ \E t \in Targets : /\ cli = [at |-> "down", target |-> t, run |-> NoRun]
                        /\ owner = [r \in Runs |-> t]
  /\ status    = [r \in Runs |-> "NONE"]
  /\ log       = [r \in Runs |-> NoLog]
  /\ task      = [r \in Runs |-> [i \in Slots |-> NoTask]]
  /\ art       = [t \in Targets |-> [f \in Files |-> NoFacts]]
  /\ graph     = [f \in Files |-> NoRow]
  /\ go        = [r \in Runs |-> Parked]
  /\ work      = [r \in Runs |-> [i \in Slots |-> Idle]]
  /\ committed = {}
  /\ base      = [r \in Runs |-> [f \in Files |-> 0]]
  /\ rivals    = FALSE
  /\ budget    = [edit |-> MaxEdits, crash |-> MaxCrashes,
                  interrupt |-> MaxInterrupts, fault |-> MaxFaults]
-----------------------------------------------------------------------------
(* The environment: the tree under index changes at any time.              *)

EditFile(t, f) ==
  /\ Spend("edit")
  /\ \E v \in Versions : v > tree[t][f] /\ tree' = [tree EXCEPT ![t][f] = v]
  /\ UNCHANGED <<manifest, cli, status, owner, log, task, stored, go, work, past>>

EditManifest(t) ==
  /\ Spend("edit")
  /\ \E c \in Coords \cup {0} : c # manifest[t] /\ manifest' = [manifest EXCEPT ![t] = c]
  /\ UNCHANGED <<tree, cli, status, owner, log, task, stored, go, work, past>>
-----------------------------------------------------------------------------
(* The process: cmd/codiq's run(), start() and await(), DBOS underneath.   *)

\* dbos.Launch recovers what an executor left PENDING: a run is executed from
\* the top, a map task goes back on its queue.
Launch(t) ==
  /\ cli.at = "down"
  /\ \E r \in Runs : status[r] = "NONE" \/ Live(r)
  /\ cli' = [at |-> "launched", target |-> t, run |-> NoRun]
  /\ go' = [r \in Runs |-> IF status[r] = "PENDING" THEN Started ELSE go[r]]
  /\ task' = [r \in Runs |-> [i \in Slots |->
                IF task[r][i].status = "PENDING"
                THEN [task[r][i] EXCEPT !.status = "ENQUEUED"] ELSE task[r][i]]]
  /\ UNCHANGED <<env, status, owner, log, stored, work, past, budget>>

\* start lists the target's runs status by status, the oldest first.
Found(st) == {r \in Runs : owner[r] = cli.target /\ status[r] = st}
Attach(r) == cli' = [cli EXCEPT !.at = "await", !.run = r]

ListPending ==
  /\ cli.at = "launched"
  /\ IF Found("PENDING") # {} THEN Attach(Least(Found("PENDING")))
                              ELSE cli' = [cli EXCEPT !.at = "listEnqueued"]
  /\ UNCHANGED <<env, status, owner, log, task, stored, go, work, past, budget>>

ListEnqueued ==
  /\ cli.at = "listEnqueued"
  /\ IF Found("ENQUEUED") # {} THEN Attach(Least(Found("ENQUEUED")))
                               ELSE cli' = [cli EXCEPT !.at = "listCancelled"]
  /\ UNCHANGED <<env, status, owner, log, task, stored, go, work, past, budget>>

\* ResumeWorkflow puts a cancelled run on DBOS's internal queue.
ResumeCancelled ==
  /\ cli.at = "listCancelled"
  /\ Found("CANCELLED") # {}
  /\ LET r == Least(Found("CANCELLED")) IN
       /\ Attach(r)
       /\ status' = [status EXCEPT ![r] = "ENQUEUED"]
  /\ UNCHANGED <<env, owner, log, task, stored, go, work, past, budget>>

StartRun ==
  /\ cli.at = "listCancelled"
  /\ Found("CANCELLED") = {}
  /\ \E r \in Runs : /\ status[r] = "NONE"
                     /\ \A q \in Runs : status[q] = "NONE" => r <= q
                     /\ Attach(r)
                     /\ status' = [status EXCEPT ![r] = "PENDING"]
                     /\ owner'  = [owner EXCEPT ![r] = cli.target]
                     /\ go'     = [go EXCEPT ![r] = Started]
  /\ rivals' = (rivals \/ \E q \in Runs : owner[q] = cli.target /\ Live(q))
  /\ UNCHANGED <<env, log, task, stored, work, base, budget>>

\* A listing or a resume is refused: run() returns, whatever is executing.
StartFails ==
  /\ cli.at \in {"launched", "listEnqueued", "listCancelled"}
  /\ Spend("fault")
  /\ cli' = [cli EXCEPT !.at = "stop"]
  /\ UNCHANGED <<env, status, owner, log, task, stored, go, work, past>>

\* await returns: the run has a result, or a signal arrived.
AwaitResult ==
  /\ cli.at = "await"
  /\ status[cli.run] \in {"SUCCESS", "ERROR"}
  /\ cli' = [cli EXCEPT !.at = "stop"]
  /\ UNCHANGED <<env, status, owner, log, task, stored, go, work, past, budget>>

Interrupt ==
  /\ cli.at = "await"
  /\ Spend("interrupt")
  /\ cli' = [cli EXCEPT !.at = "stop"]
  /\ UNCHANGED <<env, status, owner, log, task, stored, go, work, past>>

\* dbos.Shutdown cancels whatever this process was executing, one workflow at
\* a time; run() stops waiting after shutdownTimeout, so Exit may come early.
CancelRun(r) ==
  /\ cli.at = "stop"
  /\ go[r].pc # "idle"
  /\ status' = [status EXCEPT ![r] = "CANCELLED"]
  /\ go'     = [go EXCEPT ![r] = Parked]
  /\ UNCHANGED <<env, cli, owner, log, task, stored, work, past, budget>>

CancelTask(r, i) ==
  /\ cli.at = "stop"
  /\ work[r][i].at # "idle"
  /\ task' = [task EXCEPT ![r][i].status = "CANCELLED"]
  /\ work' = [work EXCEPT ![r][i] = Idle]
  /\ UNCHANGED <<env, cli, status, owner, log, stored, go, past, budget>>

Die ==
  /\ cli'  = [cli EXCEPT !.at = "down", !.run = NoRun]
  /\ go'   = [r \in Runs |-> Parked]
  /\ work' = [r \in Runs |-> [i \in Slots |-> Idle]]
  /\ UNCHANGED <<env, status, owner, log, task, stored, past>>

Exit  == cli.at = "stop" /\ Die /\ UNCHANGED budget
Crash == Up /\ Spend("crash") /\ Die

\* The internal queue starts a resumed run.
DequeueRun(r) ==
  /\ Running
  /\ status[r] = "ENQUEUED"
  /\ status' = [status EXCEPT ![r] = "PENDING"]
  /\ go'     = [go EXCEPT ![r] = Started]
  /\ UNCHANGED <<env, cli, owner, log, task, stored, work, past, budget>>
-----------------------------------------------------------------------------
(* The map task: the "extract" queue and extractFile's single step.        *)

Busy == {w \in Runs \X Slots : work[w[1]][w[2]].at # "idle"}

DequeueTask(r, i) ==
  /\ Running
  /\ task[r][i].status = "ENQUEUED"
  /\ Cardinality(Busy) < Workers
  /\ task' = [task EXCEPT ![r][i].status = "PENDING"]
  /\ work' = [work EXCEPT ![r][i].at = "started"]
  /\ UNCHANGED <<env, cli, status, owner, log, stored, go, past, budget>>

FailTask(r, i) ==
  /\ task' = [task EXCEPT ![r][i].status = "ERROR"]
  /\ work' = [work EXCEPT ![r][i] = Idle]

\* loader.extract reads the file; one that cannot be read fails the task.
Source(r, i) == tree[owner[r]][task[r][i].file]

ReadFile(r, i) ==
  /\ work[r][i].at = "started"
  /\ task[r][i].ck = "none"
  /\ Source(r, i) \notin Absent
  /\ work' = [work EXCEPT ![r][i] = [at |-> "read", ver |-> Source(r, i)]]
  /\ UNCHANGED <<env, cli, status, owner, log, task, stored, go, past, budget>>

ReadFails(r, i) ==
  /\ work[r][i].at = "started"
  /\ task[r][i].ck = "none"
  /\ Source(r, i) \in Absent
  /\ FailTask(r, i)
  /\ UNCHANGED <<env, cli, status, owner, log, stored, go, past, budget>>

\* Mutant: a file that does not parse gets an artifact of what was recovered.
WriteArtifact_Poison(r, i) ==
  /\ work[r][i].at = "read"
  /\ art' = [art EXCEPT ![owner[r]][task[r][i].file] =
               [ver |-> work[r][i].ver, coord |-> task[r][i].coord]]
  /\ work' = [work EXCEPT ![r][i].at = "written"]
  /\ UNCHANGED <<env, cli, status, owner, log, task, graph, committed, go, past, budget>>

\* artifact.Store.Write publishes by rename; a poison file gets no artifact.
WriteArtifact(r, i) ==
  /\ work[r][i].at = "read"
  /\ work[r][i].ver \notin Poison
  /\ art' = [art EXCEPT ![owner[r]][task[r][i].file] =
               [ver |-> work[r][i].ver, coord |-> task[r][i].coord]]
  /\ work' = [work EXCEPT ![r][i].at = "written"]
  /\ UNCHANGED <<env, cli, status, owner, log, task, graph, committed, go, past, budget>>

WriteFails(r, i) ==
  /\ work[r][i].at = "read"
  /\ work[r][i].ver \notin Poison
  /\ Spend("fault")
  /\ FailTask(r, i)
  /\ UNCHANGED <<env, cli, status, owner, log, stored, go, past>>

\* DBOS records the extract step's output: the key, or the parse error.
CheckpointKey(r, i) ==
  /\ work[r][i].at = "written"
  /\ task' = [task EXCEPT ![r][i].ck = "key"]
  /\ work' = [work EXCEPT ![r][i].at = "started"]
  /\ UNCHANGED <<env, cli, status, owner, log, stored, go, past, budget>>

CheckpointParseError(r, i) ==
  /\ work[r][i].at = "read" /\ work[r][i].ver \in Poison
  /\ task' = [task EXCEPT ![r][i].ck = "parse"]
  /\ work' = [work EXCEPT ![r][i].at = "started"]
  /\ UNCHANGED <<env, cli, status, owner, log, stored, go, past, budget>>

\* A task whose step is checkpointed replays it and is over.
FinishTask(r, i) ==
  /\ work[r][i].at = "started"
  /\ task[r][i].ck # "none"
  /\ task' = [task EXCEPT ![r][i].status = "SUCCESS"]
  /\ work' = [work EXCEPT ![r][i] = Idle]
  /\ UNCHANGED <<env, cli, status, owner, log, stored, go, past, budget>>
-----------------------------------------------------------------------------
(* The run: indexRepo, mapFiles and reviveCancelled.                       *)

Goto(r, p) == go' = [go EXCEPT ![r].pc = p]

\* The workflow returned: its outcome is recorded and the goroutine is gone.
Return(r, st) == /\ status' = [status EXCEPT ![r] = st]
                 /\ go'     = [go EXCEPT ![r] = Parked]

\* Mutant: the coordinate is resolved outside a step, so a replay asks again.
Site_Again(r) == manifest[owner[r]]

\* The coordinate a run works with: its checkpoint's, or the manifest's.
Site(r) == IF log[r].site # 0 THEN log[r].site ELSE manifest[owner[r]]

Resolve(r) ==
  /\ Running /\ go[r].pc = "resolve"
  /\ Site(r) # 0
  /\ log' = [log EXCEPT ![r].site = Site(r)]
  /\ go'  = [go EXCEPT ![r].pc = "walk", ![r].site = Site(r)]
  /\ UNCHANGED <<env, cli, status, owner, task, stored, work, past, budget>>

\* coord.ErrNoManifest
NoManifest(r) ==
  /\ Running /\ go[r].pc = "resolve"
  /\ Site(r) = 0
  /\ Return(r, "ERROR")
  /\ UNCHANGED <<env, cli, owner, log, task, stored, work, past, budget>>

Walk(r) ==
  /\ Running /\ go[r].pc = "walk"
  /\ \E s \in IF log[r].walked THEN {log[r].walk} ELSE Sorted(Present(owner[r])) :
       /\ log' = [log EXCEPT ![r].walked = TRUE, ![r].walk = s]
       /\ go'  = [go EXCEPT ![r].pc = "enqueue", ![r].paths = s, ![r].pos = 1]
  /\ base' = IF log[r].walked THEN base ELSE [base EXCEPT ![r] = tree[owner[r]]]
  /\ UNCHANGED <<env, cli, status, owner, task, stored, work, rivals, budget>>

\* The i-th task is a child workflow named by its step id: enqueueing one that
\* is already recorded finds it.
Enqueue(r) ==
  /\ Running /\ go[r].pc = "enqueue"
  /\ LET i == go[r].pos IN
       /\ i <= Len(go[r].paths)
       /\ go' = [go EXCEPT ![r].pos = i + 1]
       /\ task' = IF task[r][i].status # "NONE" THEN task
                  ELSE [task EXCEPT ![r][i] =
                         [status |-> "ENQUEUED", file |-> go[r].paths[i],
                          coord |-> go[r].site, ck |-> "none"]]
  /\ UNCHANGED <<env, cli, status, owner, log, stored, work, past, budget>>

AllEnqueued(r) ==
  /\ Running /\ go[r].pc = "enqueue" /\ go[r].pos > Len(go[r].paths)
  /\ Goto(r, "revive")
  /\ UNCHANGED <<env, cli, status, owner, log, task, stored, work, past, budget>>

\* Mutant: nothing puts a cancelled task back on the queue.
ReviveCancelled_Never(r) ==
  /\ Running /\ go[r].pc = "revive"
  /\ go' = [go EXCEPT ![r].pc = "gather", ![r].pos = 1]
  /\ UNCHANGED <<env, cli, status, owner, log, task, stored, work, past, budget>>

ReviveCancelled(r) ==
  /\ Running /\ go[r].pc = "revive"
  /\ task' = [task EXCEPT ![r] = [i \in Slots |->
                IF i <= Len(go[r].paths) /\ task[r][i].status = "CANCELLED"
                THEN [task[r][i] EXCEPT !.status = "ENQUEUED"] ELSE task[r][i]]]
  /\ go' = [go EXCEPT ![r].pc = "gather", ![r].pos = 1]
  /\ UNCHANGED <<env, cli, status, owner, log, stored, work, past, budget>>

\* The resolve or walk step fails on the filesystem, or the checkpoint database
\* refuses an enqueue or reviveCancelled: the workflow returns the error.
StepFails(r) ==
  /\ Running /\ go[r].pc \in {"resolve", "walk", "enqueue", "revive"}
  /\ Spend("fault")
  /\ Return(r, "ERROR")
  /\ UNCHANGED <<env, cli, owner, log, task, stored, work, past>>

\* GetResult on the pos-th handle, from its checkpoint or from the task.
Verdict(r, i) ==
  IF log[r].await[i] # "none" THEN log[r].await[i]
  ELSE CASE task[r][i].status = "SUCCESS" -> task[r][i].ck
         [] task[r][i].status = "ERROR"   -> "failed"
         [] OTHER                         -> "none"

Gather(r) ==
  /\ Running /\ go[r].pc = "gather"
  /\ LET i == go[r].pos IN
       /\ i <= Len(go[r].paths) /\ Verdict(r, i) # "none"
       /\ log' = [log EXCEPT ![r].await[i] = Verdict(r, i)]
       /\ go'  = [go EXCEPT ![r].pos = i + 1]
  /\ UNCHANGED <<env, cli, status, owner, task, stored, work, past, budget>>

AllGathered(r) ==
  /\ Running /\ go[r].pc = "gather" /\ go[r].pos > Len(go[r].paths)
  /\ Goto(r, "reduce")
  /\ UNCHANGED <<env, cli, status, owner, log, task, stored, work, past, budget>>

\* Mutant: a cancelled task is flagged like one that failed.
AwaitCancelled_Flagged(r) ==
  /\ cli.at = "stop" /\ go[r].pc = "gather"
  /\ LET i == go[r].pos IN /\ i <= Len(go[r].paths)
                          /\ Verdict(r, i) = "none"
                          /\ task[r][i].status = "CANCELLED"
                          /\ log' = [log EXCEPT ![r].await[i] = "failed"]
                          /\ go'  = [go EXCEPT ![r].pos = i + 1]
  /\ UNCHANGED <<env, cli, status, owner, task, stored, work, past, budget>>

\* A shutdown cancelled the awaited task first: no verdict is recorded, the
\* workflow returns and DBOS records that it was cancelled too.
AwaitCancelled(r) ==
  /\ cli.at = "stop" /\ go[r].pc = "gather"
  /\ LET i == go[r].pos IN /\ i <= Len(go[r].paths)
                          /\ Verdict(r, i) = "none"
                          /\ task[r][i].status = "CANCELLED"
  /\ Return(r, "CANCELLED")
  /\ UNCHANGED <<env, cli, owner, log, task, stored, work, past, budget>>
-----------------------------------------------------------------------------
(* The reduce step: reduce, withRetry and reduceOnce.                      *)

\* Begin a transaction over the batch.
Reduce(r) ==
  /\ Running /\ go[r].pc = "reduce" /\ ~log[r].reduced
  /\ go' = [go EXCEPT ![r].pc = "load", ![r].todo = Batch(r),
                     ![r].staged = [f \in Files |-> NoFacts]]
  /\ UNCHANGED <<env, cli, status, owner, log, task, stored, work, past, budget>>

\* The reduce step is checkpointed: the workflow returns its Result.
Complete(r) ==
  /\ Running /\ go[r].pc = "reduce" /\ log[r].reduced
  /\ Return(r, "SUCCESS")
  /\ UNCHANGED <<env, cli, owner, log, task, stored, work, past, budget>>

\* Mutant: reading an artifact removes it, before the batch has committed.
Load_Consuming(r) ==
  /\ Running /\ go[r].pc = "load" /\ go[r].todo # {}
  /\ LET f == Least(go[r].todo) IN
       /\ art[owner[r]][f] # NoFacts
       /\ go' = [go EXCEPT ![r].todo = @ \ {f},
                          ![r].staged[f] = art[owner[r]][f]]
       /\ art' = [art EXCEPT ![owner[r]][f] = NoFacts]
  /\ UNCHANGED <<env, cli, status, owner, log, task, graph, committed, work, past, budget>>

\* Mutant: the load goes through the pool, not the batch's transaction.
Load_Autocommit(r) ==
  /\ Running /\ go[r].pc = "load" /\ go[r].todo # {}
  /\ LET f == Least(go[r].todo) IN
       /\ art[owner[r]][f] # NoFacts
       /\ go' = [go EXCEPT ![r].todo = @ \ {f},
                          ![r].staged[f] = art[owner[r]][f]]
       /\ graph' = [graph EXCEPT ![f] = [run |-> r, ver |-> art[owner[r]][f].ver,
                                        coord |-> art[owner[r]][f].coord]]
  /\ UNCHANGED <<env, cli, status, owner, log, task, art, committed, work, past, budget>>

\* Mutant: the reduce extracts the file again rather than read its artifact.
Load_Reextracting(r) ==
  /\ Running /\ go[r].pc = "load" /\ go[r].todo # {}
  /\ LET f == Least(go[r].todo) IN
       go' = [go EXCEPT ![r].todo = @ \ {f},
                        ![r].staged[f] = [ver |-> tree[owner[r]][f], coord |-> go[r].site]]
  /\ UNCHANGED <<env, cli, status, owner, log, task, stored, work, past, budget>>

\* One artifact read and one ReplaceFile, in path order.
Load(r) ==
  /\ Running /\ go[r].pc = "load" /\ go[r].todo # {}
  /\ LET f == Least(go[r].todo) IN
       /\ art[owner[r]][f] # NoFacts
       /\ go' = [go EXCEPT ![r].todo = @ \ {f},
                          ![r].staged[f] = art[owner[r]][f]]
  /\ UNCHANGED <<env, cli, status, owner, log, task, stored, work, past, budget>>

\* artifact.ErrNotFound fails the batch, and the run with it.
LoadMissing(r) ==
  /\ Running /\ go[r].pc = "load" /\ go[r].todo # {}
  /\ art[owner[r]][Least(go[r].todo)] = NoFacts
  /\ Return(r, "ERROR")
  /\ UNCHANGED <<env, cli, owner, log, task, stored, work, past, budget>>

\* Mutant: the cap is compared after one attempt too many.
Conflict_OffByOne(r) ==
  /\ Running /\ go[r].pc = "load"
  /\ Spend("fault")
  /\ go[r].attempt <= MaxLoadAttempts
  /\ go' = [go EXCEPT ![r].pc = "reduce", ![r].attempt = @ + 1]
  /\ UNCHANGED <<env, cli, status, owner, log, task, stored, work, past>>

\* SQLSTATE 40P01 or 40001: the whole transaction again, up to the cap.
Conflict(r) ==
  /\ Running /\ go[r].pc = "load"
  /\ Spend("fault")
  /\ go[r].attempt < MaxLoadAttempts
  /\ go' = [go EXCEPT ![r].pc = "reduce", ![r].attempt = @ + 1]
  /\ UNCHANGED <<env, cli, status, owner, log, task, stored, work, past>>

\* Any other database error, or one conflict too many, rolls the transaction
\* back and fails the run.
ReduceFails(r) ==
  /\ Running /\ go[r].pc = "load"
  /\ Spend("fault")
  /\ Return(r, "ERROR")
  /\ UNCHANGED <<env, cli, owner, log, task, stored, work, past>>

Committed(r) == [f \in Files |->
  IF f \in Batch(r)
  THEN [run |-> r, ver |-> go[r].staged[f].ver, coord |-> go[r].staged[f].coord]
  ELSE graph[f]]

Commit(r) ==
  /\ go[r].pc = "load" /\ go[r].todo = {}
  /\ graph' = Committed(r)
  /\ committed' = committed \cup {r}
  /\ go' = [go EXCEPT ![r].pc = "collect", ![r].todo = Batch(r)]
  /\ UNCHANGED <<env, cli, status, owner, log, task, art, work, past, budget>>

\* The transaction commits and the connection is lost before the client hears
\* of it: not an error withRetry retries.
CommitInDoubt(r) ==
  /\ Running /\ go[r].pc = "load" /\ go[r].todo = {}
  /\ Spend("fault")
  /\ graph' = Committed(r)
  /\ committed' = committed \cup {r}
  /\ Return(r, "ERROR")
  /\ UNCHANGED <<env, cli, owner, log, task, art, work, past>>

\* artifact.Store.Delete, key by key; its error is dropped.
Collect(r) ==
  /\ go[r].pc = "collect" /\ go[r].todo # {}
  /\ LET f == Least(go[r].todo) IN
       /\ go' = [go EXCEPT ![r].todo = @ \ {f}]
       /\ art' = [art EXCEPT ![owner[r]][f] = NoFacts]
  /\ UNCHANGED <<env, cli, status, owner, log, task, graph, committed, work, past, budget>>

CollectFails(r) ==
  /\ go[r].pc = "collect" /\ go[r].todo # {}
  /\ Spend("fault")
  /\ go' = [go EXCEPT ![r].todo = @ \ {Least(go[r].todo)}]
  /\ UNCHANGED <<env, cli, status, owner, log, task, stored, work, past>>

\* Under a cancelled context Delete returns before it has removed anything.
CollectNothing(r) ==
  /\ cli.at = "stop"
  /\ go[r].pc = "collect" /\ go[r].todo = Batch(r)
  /\ go' = [go EXCEPT ![r].todo = {}]
  /\ UNCHANGED <<env, cli, status, owner, log, task, stored, work, past, budget>>

CheckpointReduce(r) ==
  /\ go[r].pc = "collect" /\ go[r].todo = {}
  /\ log' = [log EXCEPT ![r].reduced = TRUE]
  /\ Goto(r, "reduce")
  /\ UNCHANGED <<env, cli, status, owner, task, stored, work, past, budget>>
-----------------------------------------------------------------------------
Process == \/ \E t \in Targets : Launch(t)
           \/ ListPending \/ ListEnqueued \/ ResumeCancelled \/ StartRun
           \/ AwaitResult \/ Exit

MapTask(r, i) == \/ DequeueTask(r, i) \/ ReadFile(r, i) \/ ReadFails(r, i)
                 \/ WriteArtifact(r, i) \/ CheckpointKey(r, i)
                 \/ CheckpointParseError(r, i) \/ FinishTask(r, i)

IndexRepo(r) == \/ DequeueRun(r) \/ Resolve(r) \/ NoManifest(r) \/ Walk(r)
                \/ Enqueue(r) \/ AllEnqueued(r) \/ ReviveCancelled(r)
                \/ Gather(r) \/ AllGathered(r) \/ Reduce(r) \/ Load(r)
                \/ LoadMissing(r) \/ Commit(r) \/ Collect(r)
                \/ CheckpointReduce(r) \/ Complete(r)

Disturb == \/ Interrupt \/ Crash \/ StartFails
           \/ \E t \in Targets : EditManifest(t) \/ \E f \in Files : EditFile(t, f)
           \/ \E r \in Runs : \/ CancelRun(r) \/ AwaitCancelled(r) \/ StepFails(r)
                              \/ Conflict(r) \/ ReduceFails(r) \/ CommitInDoubt(r)
                              \/ CollectFails(r) \/ CollectNothing(r)
                              \/ \E i \in Slots : CancelTask(r, i) \/ WriteFails(r, i)

Next == \/ Process
        \/ \E r \in Runs : IndexRepo(r) \/ \E i \in Slots : MapTask(r, i)
        \/ Disturb

Spec == Init /\ [][Next]_vars

\* The executor's goroutines, its queues and the operator who runs codiq again
\* keep going; crashes, signals, edits and faults are never owed.
Fairness ==
  /\ WF_vars(Process)
  /\ \A r \in Runs : /\ WF_vars(IndexRepo(r))
                     /\ \A i \in Slots : WF_vars(MapTask(r, i))
FairSpec == Spec /\ Fairness
=============================================================================
