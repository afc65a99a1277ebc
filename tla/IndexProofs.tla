----------------------------- MODULE IndexProofs -----------------------------
(***************************************************************************)
(* Proofs, for every value of the constants, of what IndexProperties       *)
(* promises.                                                               *)
(***************************************************************************)
EXTENDS IndexProperties, FiniteSetTheorems, WellFoundedInduction, TLAPS

(* The oldest run start may attach to, and the first path of a batch: a    *)
(* nonempty set of numbers holds its least one.                            *)
LEMMA LeastIn ==
  ASSUME NEW S \in SUBSET Nat, S # {}
  PROVE  Least(S) \in S
<1>1. PICK x \in S : \A y \in S : ~(<<y, x>> \in OpToRel(<, Nat))
  BY NatLessThanWellFounded, WFMin
<1>2. \A y \in S : ~(y < x)
  BY <1>1 DEF OpToRel
<1>3. \A y \in S : x <= y
  BY <1>2
<1> QED  BY <1>3 DEF Least

(* The positions of a frozen walk are positive numbers. *)
LEMMA SlotsNat == Cardinality(Files) \in Nat /\ Slots \subseteq Nat \ {0}
  BY FS_CardinalityType, FiniteAssumption DEF Slots

(* What walk returns is a sequence of files, no longer than there are      *)
(* slots.                                                                  *)
LEMMA SortedWalk ==
  ASSUME NEW S \in SUBSET Files, NEW s \in Sorted(S)
  PROVE  s \in Seq(Files) /\ Len(s) \in Nat /\ Len(s) <= Cardinality(Files)
<1>1. Cardinality(S) \in Nat /\ Cardinality(S) <= Cardinality(Files)
  BY FS_CardinalityType, FS_Subset, FiniteAssumption
<1>2. s \in [1..Cardinality(S) -> Files]
  BY DEF Sorted
<1>3. s \in Seq(Files) /\ Len(s) = Cardinality(S)
  BY <1>1, <1>2
<1> QED  BY <1>1, <1>3

(* A routine at its start or not running, an idle worker, a task not yet   *)
(* enqueued and an empty ledger are well typed.                            *)
LEMMA RestType == /\ Parked \in Routine /\ Started \in Routine
                  /\ Idle \in Worker /\ NoTask \in Child /\ NoLog \in Ledger
                  /\ NoFacts \in Facts /\ NoRow \in Row
<1>1. << >> \in Seq(Files)  OBVIOUS
<1>2. NoFacts \in Facts  BY DEF NoFacts, Facts, Content, Coordinate
<1>3. Parked \in Routine
  BY <1>1, <1>2, BoundsAssumption DEF Parked, Routine, Labels, Coordinate
<1>4. Started \in Routine
  <2>1. \A g \in Routine : [g EXCEPT !.pc = "resolve"] \in Routine
    BY DEF Routine, Labels
  <2> QED  BY <1>3, <2>1 DEF Started
<1>5. NoLog \in Ledger
  BY <1>1 DEF NoLog, Ledger, Coordinate, Outcomes
<1> QED
  BY <1>2, <1>3, <1>4, <1>5
  DEF Idle, Worker, Stages, NoTask, Child, Verdicts, NoRow, Row, NoRun, Content, Coordinate, Statuses, Unfinished
-----------------------------------------------------------------------------
(* The position a run starts counting from is positive (the provers need   *)
(* the literal's type).                                                    *)
LEMMA One == 1 \in Nat \ {0}
  OBVIOUS

(* A goroutine's locals stay well typed when one of them is assigned a     *)
(* value of its type.                                                      *)
LEMMA RoutineUpdate ==
  \A g \in Routine :
    /\ \A p \in Labels : [g EXCEPT !.pc = p] \in Routine
    /\ \A n \in Nat \ {0} : [g EXCEPT !.pos = n] \in Routine
    /\ \A s \in Seq(Files) : [g EXCEPT !.paths = s] \in Routine
    /\ \A c \in Coordinate : [g EXCEPT !.site = c] \in Routine
    /\ \A T \in SUBSET Files : [g EXCEPT !.todo = T] \in Routine
    /\ \A T \in [Files -> Facts] : [g EXCEPT !.staged = T] \in Routine
    /\ \A f \in Files, x \in Facts : [g EXCEPT !.staged[f] = x] \in Routine
    /\ \A n \in 1..MaxLoadAttempts : [g EXCEPT !.attempt = n] \in Routine
<1> TAKE g \in Routine
<1>1. \A p \in Labels : [g EXCEPT !.pc = p] \in Routine
  BY DEF Routine
<1>2. \A n \in Nat \ {0} : [g EXCEPT !.pos = n] \in Routine
  BY DEF Routine
<1>3. \A s \in Seq(Files) : [g EXCEPT !.paths = s] \in Routine
  BY DEF Routine
<1>4. \A c \in Coordinate : [g EXCEPT !.site = c] \in Routine
  BY DEF Routine
<1>5. \A T \in SUBSET Files : [g EXCEPT !.todo = T] \in Routine
  BY DEF Routine
<1>6. \A T \in [Files -> Facts] : [g EXCEPT !.staged = T] \in Routine
  BY DEF Routine
<1>7. \A f \in Files, x \in Facts : [g EXCEPT !.staged[f] = x] \in Routine
  BY DEF Routine
<1>8. \A n \in 1..MaxLoadAttempts : [g EXCEPT !.attempt = n] \in Routine
  BY BoundsAssumption DEF Routine
<1> QED  BY <1>1, <1>2, <1>3, <1>4, <1>5, <1>6, <1>7, <1>8

(* A run's checkpoints stay well typed when one of them is recorded. *)
LEMMA LedgerUpdate ==
  \A l \in Ledger :
    /\ \A c \in Coordinate : [l EXCEPT !.site = c] \in Ledger
    /\ \A s \in Seq(Files) : [l EXCEPT !.walked = TRUE, !.walk = s] \in Ledger
    /\ \A i \in Slots, o \in Outcomes : [l EXCEPT !.await[i] = o] \in Ledger
    /\ [l EXCEPT !.reduced = TRUE] \in Ledger
<1> TAKE l \in Ledger
<1>1. \A c \in Coordinate : [l EXCEPT !.site = c] \in Ledger
  BY DEF Ledger
<1>2. \A s \in Seq(Files) : [l EXCEPT !.walked = TRUE, !.walk = s] \in Ledger
  BY DEF Ledger
<1>3. \A i \in Slots, o \in Outcomes : [l EXCEPT !.await[i] = o] \in Ledger
  BY DEF Ledger
<1>4. [l EXCEPT !.reduced = TRUE] \in Ledger
  BY DEF Ledger
<1> QED  BY <1>1, <1>2, <1>3, <1>4

(* A map task stays well typed when its status changes or its step is      *)
(* checkpointed.                                                           *)
LEMMA ChildUpdate ==
  \A c \in Child :
    /\ \A v \in Verdicts : [c EXCEPT !.ck = v] \in Child
    /\ [c EXCEPT !.status = "ENQUEUED"] \in Child
    /\ [c EXCEPT !.status = "PENDING"] \in Child
    /\ [c EXCEPT !.status = "CANCELLED"] \in Child
    /\ [c EXCEPT !.status = "SUCCESS"] \in Child
    /\ [c EXCEPT !.status = "ERROR"] \in Child
  BY DEF Child, Statuses, Unfinished

(* A worker stays well typed when it goes from one stage of extractFile to *)
(* the next.                                                               *)
LEMMA WorkerUpdate == \A w \in Worker : \A a \in Stages : [w EXCEPT !.at = a] \in Worker
  BY DEF Worker

(* What start finds in a listing that is not empty is a run. *)
LEMMA FoundRun == \A st : Found(st) # {} => Least(Found(st)) \in Runs
  BY LeastIn, OrderAssumption DEF Found

(* What the reduce is handed are files. *)
LEMMA BatchType == \A r : Batch(r) \in SUBSET Files
  BY DEF Batch

(* The next file a reduce handles is one of those it still has to handle. *)
LEMMA FirstOf ==
  ASSUME TypeOK, NEW r \in Runs, go[r].todo # {}
  PROVE  Least(go[r].todo) \in Files /\ Least(go[r].todo) \in go[r].todo
<1>1. go[r].todo \in SUBSET Files
  BY DEF TypeOK, Routine
<1> QED  BY <1>1, LeastIn, OrderAssumption

(* Handling one file leaves a set of files still to handle. *)
LEMMA DroppedType ==
  ASSUME TypeOK, NEW r \in Runs
  PROVE  go[r].todo \ {Least(go[r].todo)} \in SUBSET Files
  BY DEF TypeOK, Routine

(* What the resolve step returns is a coordinate, or none. *)
LEMMA SiteType ==
  ASSUME TypeOK, NEW r \in Runs
  PROVE  Site(r) \in Coordinate
<1>1. log[r].site \in Coordinate /\ manifest[owner[r]] \in Coordinate
  BY DEF TypeOK, Ledger
<1> QED  BY <1>1 DEF Site

(* A run's position in its walk is a slot for as long as it is within the  *)
(* walk.                                                                   *)
LEMMA PosType ==
  ASSUME TypeOK, NEW r \in Runs
  PROVE  /\ go[r].pos \in Nat \ {0} /\ go[r].pos + 1 \in Nat \ {0}
         /\ go[r].pos <= Len(go[r].paths) /\ Len(go[r].paths) <= Cardinality(Files)
              => go[r].pos \in Slots
<1>1. go[r].pos \in Nat \ {0} /\ Len(go[r].paths) \in Nat
  BY DEF TypeOK, Routine
<1> QED  BY <1>1, SlotsNat DEF Slots

(* The file mapFiles is enqueueing or awaiting is a file, at a slot. *)
LEMMA AwaitSlot ==
  ASSUME TypeOK, Frozen, NEW r \in Runs, go[r].pc \in Walked, go[r].pos <= Len(go[r].paths)
  PROVE  go[r].pos \in Slots /\ go[r].paths[go[r].pos] \in Files
<1>1. go[r].paths = log[r].walk /\ Len(log[r].walk) <= Cardinality(Files)
  BY DEF Frozen
<1>2. go[r].pos \in 1..Len(go[r].paths) /\ go[r].paths \in Seq(Files)
  BY PosType DEF TypeOK, Routine
<1> QED  BY <1>1, <1>2, PosType

(* Enqueueing a map task leaves every task well typed. *)
LEMMA ChildMinted ==
  ASSUME TypeOK, Frozen, NEW r \in Runs, Enqueue(r)
  PROVE  task' \in [Runs -> [Slots -> Child]]
<1>1. go[r].pos \in Slots /\ go[r].paths[go[r].pos] \in Files
  BY AwaitSlot DEF Enqueue, Walked
<1>2. go[r].site \in Coordinate
  BY DEF TypeOK, Routine
<1>3. [status |-> "ENQUEUED", file |-> go[r].paths[go[r].pos],
       coord |-> go[r].site, ck |-> "none"] \in Child
  BY <1>1, <1>2 DEF Child, Statuses, Unfinished, Verdicts
<1> QED  BY <1>1, <1>3 DEF TypeOK, Enqueue

(* What GetResult returns for a map task is an outcome. *)
LEMMA VerdictType ==
  ASSUME TypeOK, NEW r \in Runs, NEW i \in Slots
  PROVE  Verdict(r, i) \in Outcomes
  BY DEF TypeOK, Verdict, Ledger, Child, Verdicts, Outcomes

(* What artifact.Store.Read returns, and the files left after it, are well *)
(* typed.                                                                  *)
LEMMA LoadedType ==
  ASSUME TypeOK, NEW r \in Runs, NEW f \in Files
  PROVE  art[owner[r]][f] \in Facts /\ go[r].todo \ {f} \in SUBSET Files
  BY DEF TypeOK, Routine

(* withRetry below its cap counts one attempt more, at most the cap. *)
LEMMA RetryType ==
  ASSUME TypeOK, NEW r \in Runs, go[r].attempt < MaxLoadAttempts
  PROVE  go[r].attempt + 1 \in 1..MaxLoadAttempts
  BY BoundsAssumption DEF TypeOK, Routine

(* The graph a commit leaves is well typed. *)
LEMMA CommittedType ==
  ASSUME TypeOK, NEW r \in Runs
  PROVE  Committed(r) \in [Files -> Row]
<1>1. go[r].staged \in [Files -> Facts]
  BY DEF TypeOK, Routine
<1>2. \A f \in Files : [run |-> r, ver |-> go[r].staged[f].ver,
                        coord |-> go[r].staged[f].coord] \in Row
  BY <1>1 DEF Facts, Row
<1> QED  BY <1>2 DEF Committed, TypeOK

(* A worker that reads its file holds a content of its run's tree. *)
LEMMA ReadType ==
  ASSUME TypeOK, Held, Numbered, NEW r \in Runs, NEW i \in Slots, work[r][i].at = "started"
  PROVE  [at |-> "read", ver |-> Source(r, i)] \in Worker
<1>1. task[r][i].status # "NONE"
  BY DEF Held
<1>2. log[r].walk \in Seq(Files) /\ i \in 1..Len(log[r].walk)
  BY <1>1, SlotsNat DEF TypeOK, Ledger, Numbered
<1>3. log[r].walk[i] \in Files
  BY <1>2
<1>4. task[r][i].file \in Files
  BY <1>1, <1>3 DEF Numbered
<1>5. Source(r, i) \in Content
  BY <1>4 DEF TypeOK, Content, Source
<1> QED  BY <1>5 DEF Worker, Stages

(* What a worker publishes as an artifact are facts. *)
LEMMA WrittenType ==
  ASSUME TypeOK, NEW r \in Runs, NEW i \in Slots
  PROVE  [ver |-> work[r][i].ver, coord |-> task[r][i].coord] \in Facts
<1>1. work[r][i].ver \in Content /\ task[r][i].coord \in Coordinate
  BY DEF TypeOK, Worker, Child
<1> QED  BY <1>1 DEF Facts

USE DEF env, stored, past
-----------------------------------------------------------------------------
(* The program starts well typed. *)
LEMMA TypeInit == Init => TypeOK
<1> SUFFICES ASSUME Init PROVE TypeOK  OBVIOUS
<1>1. log \in [Runs -> Ledger] /\ task \in [Runs -> [Slots -> Child]]
  BY RestType DEF Init
<1>2. go \in [Runs -> Routine] /\ work \in [Runs -> [Slots -> Worker]]
  BY RestType DEF Init
<1>3. art \in [Targets -> [Files -> Facts]] /\ graph \in [Files -> Row]
  BY RestType DEF Init
<1>4. tree \in [Targets -> [Files -> Versions]] /\ manifest \in [Targets -> Coordinate]
  BY DataAssumption DEF Init, Coordinate
<1>5. cli \in Command /\ cli.at # "await" /\ owner \in [Runs -> Targets]
  BY DEF Init, Command
<1>6. status \in [Runs -> Statuses] /\ committed \subseteq Runs
  BY DEF Init, Statuses
<1>7. rivals \in BOOLEAN
  BY DEF Init
<1>8. base \in [Runs -> [Files -> Content]]
  BY DEF Init, Content
<1>9. budget \in Allowance
  BY BoundsAssumption DEF Init, Allowance
<1> QED  BY <1>1, <1>2, <1>3, <1>4, <1>5, <1>6, <1>7, <1>8, <1>9 DEF TypeOK

(* Every step preserves the types: one fact per action, and under it one   *)
(* per variable the action assigns.                                        *)
LEMMA TypeNext == TypeOK /\ Held /\ Numbered /\ Frozen => ([Next]_vars => TypeOK')
<1> SUFFICES ASSUME TypeOK, Held, Numbered, Frozen PROVE [Next]_vars => TypeOK'  OBVIOUS
<1>1. ASSUME NEW t \in Targets, EditManifest(t) PROVE TypeOK'
  <2>1. manifest' \in [Targets -> Coordinate]
    BY <1>1 DEF TypeOK, EditManifest, Coordinate
  <2>2. budget' \in Allowance
    BY <1>1 DEF TypeOK, EditManifest, Spend, Allowance
  <2> QED  BY <1>1, <2>1, <2>2 DEF TypeOK, EditManifest
<1>2. ASSUME NEW t \in Targets, NEW f \in Files, EditFile(t, f) PROVE TypeOK'
  <2>1. tree' \in [Targets -> [Files -> Versions]]
    BY <1>2 DEF TypeOK, EditFile
  <2>2. budget' \in Allowance
    BY <1>2 DEF TypeOK, EditFile, Spend, Allowance
  <2> QED  BY <1>2, <2>1, <2>2 DEF TypeOK, EditFile
<1>3. ASSUME NEW t \in Targets, Launch(t) PROVE TypeOK'
  <2>1. cli' \in Command /\ (cli'.at = "await" => cli'.run \in Runs)
    BY <1>3 DEF TypeOK, Launch, Command
  <2>2. go' \in [Runs -> Routine]
    BY <1>3, RestType DEF TypeOK, Launch
  <2>3. task' \in [Runs -> [Slots -> Child]]
    BY <1>3, ChildUpdate DEF TypeOK, Launch
  <2> QED  BY <1>3, <2>1, <2>2, <2>3 DEF TypeOK, Launch
<1>4. ASSUME ListPending PROVE TypeOK'
  <2>1. cli' \in Command /\ (cli'.at = "await" => cli'.run \in Runs)
    BY <1>4, FoundRun DEF TypeOK, ListPending, Command, Attach
  <2> QED  BY <1>4, <2>1 DEF TypeOK, ListPending
<1>5. ASSUME ListEnqueued PROVE TypeOK'
  <2>1. cli' \in Command /\ (cli'.at = "await" => cli'.run \in Runs)
    BY <1>5, FoundRun DEF TypeOK, ListEnqueued, Command, Attach
  <2> QED  BY <1>5, <2>1 DEF TypeOK, ListEnqueued
<1>6. ASSUME ResumeCancelled PROVE TypeOK'
  <2>1. cli' \in Command /\ (cli'.at = "await" => cli'.run \in Runs)
    BY <1>6, FoundRun DEF TypeOK, ResumeCancelled, Command, Attach
  <2>2. status' \in [Runs -> Statuses]
    BY <1>6, FoundRun DEF TypeOK, ResumeCancelled, Statuses, Unfinished
  <2> QED  BY <1>6, <2>1, <2>2 DEF TypeOK, ResumeCancelled
<1>7. ASSUME StartRun PROVE TypeOK'
  <2>1. cli' \in Command /\ (cli'.at = "await" => cli'.run \in Runs)
    BY <1>7 DEF TypeOK, StartRun, Command, Attach
  <2>2. status' \in [Runs -> Statuses]
    BY <1>7 DEF TypeOK, StartRun, Statuses, Unfinished
  <2>3. owner' \in [Runs -> Targets]
    BY <1>7 DEF TypeOK, StartRun, Command
  <2>4. go' \in [Runs -> Routine]
    BY <1>7, RestType DEF TypeOK, StartRun
  <2>5. rivals' \in BOOLEAN
    BY <1>7 DEF TypeOK, StartRun
  <2> QED  BY <1>7, <2>1, <2>2, <2>3, <2>4, <2>5 DEF TypeOK, StartRun
<1>8. ASSUME StartFails PROVE TypeOK'
  <2>1. cli' \in Command /\ (cli'.at = "await" => cli'.run \in Runs)
    BY <1>8 DEF TypeOK, StartFails, Command
  <2>2. budget' \in Allowance
    BY <1>8 DEF TypeOK, StartFails, Spend, Allowance
  <2> QED  BY <1>8, <2>1, <2>2 DEF TypeOK, StartFails
<1>9. ASSUME AwaitResult PROVE TypeOK'
  <2>1. cli' \in Command /\ (cli'.at = "await" => cli'.run \in Runs)
    BY <1>9 DEF TypeOK, AwaitResult, Command
  <2> QED  BY <1>9, <2>1 DEF TypeOK, AwaitResult
<1>10. ASSUME Interrupt PROVE TypeOK'
  <2>1. cli' \in Command /\ (cli'.at = "await" => cli'.run \in Runs)
    BY <1>10 DEF TypeOK, Interrupt, Command
  <2>2. budget' \in Allowance
    BY <1>10 DEF TypeOK, Interrupt, Spend, Allowance
  <2> QED  BY <1>10, <2>1, <2>2 DEF TypeOK, Interrupt
<1>11. ASSUME Exit PROVE TypeOK'
  <2>1. cli' \in Command /\ (cli'.at = "await" => cli'.run \in Runs)
    BY <1>11 DEF TypeOK, Exit, Command, Die, NoRun
  <2>2. go' \in [Runs -> Routine]
    BY <1>11, RestType DEF TypeOK, Exit, Die
  <2>3. work' \in [Runs -> [Slots -> Worker]]
    BY <1>11, RestType DEF TypeOK, Exit, Die
  <2> QED  BY <1>11, <2>1, <2>2, <2>3 DEF TypeOK, Exit, Die
<1>12. ASSUME Crash PROVE TypeOK'
  <2>1. cli' \in Command /\ (cli'.at = "await" => cli'.run \in Runs)
    BY <1>12 DEF TypeOK, Crash, Command, Die, NoRun
  <2>2. go' \in [Runs -> Routine]
    BY <1>12, RestType DEF TypeOK, Crash, Die
  <2>3. work' \in [Runs -> [Slots -> Worker]]
    BY <1>12, RestType DEF TypeOK, Crash, Die
  <2>4. budget' \in Allowance
    BY <1>12 DEF TypeOK, Crash, Spend, Allowance
  <2> QED  BY <1>12, <2>1, <2>2, <2>3, <2>4 DEF TypeOK, Crash, Die
<1>13. ASSUME NEW r \in Runs, DequeueRun(r) PROVE TypeOK'
  <2>1. status' \in [Runs -> Statuses]
    BY <1>13 DEF TypeOK, DequeueRun, Statuses, Unfinished
  <2>2. go' \in [Runs -> Routine]
    BY <1>13, RestType DEF TypeOK, DequeueRun
  <2> QED  BY <1>13, <2>1, <2>2 DEF TypeOK, DequeueRun
<1>14. ASSUME NEW r \in Runs, Resolve(r) PROVE TypeOK'
  <2>1. log' \in [Runs -> Ledger]
    BY <1>14, SiteType, LedgerUpdate DEF TypeOK, Resolve
  <2>2. go' \in [Runs -> Routine]
    BY <1>14, SiteType, RoutineUpdate DEF TypeOK, Resolve, Labels
  <2> QED  BY <1>14, <2>1, <2>2 DEF TypeOK, Resolve
<1>15. ASSUME NEW r \in Runs, NoManifest(r) PROVE TypeOK'
  <2>1. status' \in [Runs -> Statuses]
    BY <1>15 DEF TypeOK, NoManifest, Statuses, Unfinished, Return
  <2>2. go' \in [Runs -> Routine]
    BY <1>15, RestType DEF TypeOK, NoManifest, Return
  <2> QED  BY <1>15, <2>1, <2>2 DEF TypeOK, NoManifest
<1>16. ASSUME NEW r \in Runs, Walk(r) PROVE TypeOK'
  <2>1. PICK s \in IF log[r].walked THEN {log[r].walk} ELSE Sorted(Present(owner[r])) :
          /\ log' = [log EXCEPT ![r].walked = TRUE, ![r].walk = s]
          /\ go'  = [go EXCEPT ![r].pc = "enqueue", ![r].paths = s, ![r].pos = 1]
    BY <1>16 DEF TypeOK, Walk
  <2>2. s \in Seq(Files)
    BY SortedWalk DEF TypeOK, Present, Ledger
  <2>3. base' \in [Runs -> [Files -> Content]]
    BY <1>16 DEF TypeOK, Walk, Content
  <2>4. log' \in [Runs -> Ledger]
    BY <2>1, <2>2, LedgerUpdate DEF TypeOK
  <2>5. go' \in [Runs -> Routine]
    BY <2>1, <2>2, One, RoutineUpdate DEF TypeOK, Labels
  <2> QED  BY <1>16, <2>3, <2>4, <2>5 DEF TypeOK, Walk
<1>17. ASSUME NEW r \in Runs, Enqueue(r) PROVE TypeOK'
  <2>1. go' \in [Runs -> Routine]
    BY <1>17, PosType, RoutineUpdate DEF TypeOK, Enqueue
  <2>2. task' \in [Runs -> [Slots -> Child]]
    BY <1>17, ChildMinted DEF TypeOK, Enqueue
  <2> QED  BY <1>17, <2>1, <2>2 DEF TypeOK, Enqueue
<1>18. ASSUME NEW r \in Runs, AllEnqueued(r) PROVE TypeOK'
  <2>1. go' \in [Runs -> Routine]
    BY <1>18, RoutineUpdate DEF TypeOK, AllEnqueued, Goto, Labels
  <2> QED  BY <1>18, <2>1 DEF TypeOK, AllEnqueued
<1>19. ASSUME NEW r \in Runs, ReviveCancelled(r) PROVE TypeOK'
  <2>1. go' \in [Runs -> Routine]
    BY <1>19, One, RoutineUpdate DEF TypeOK, ReviveCancelled, Labels
  <2>2. task' \in [Runs -> [Slots -> Child]]
    BY <1>19, ChildUpdate DEF TypeOK, ReviveCancelled
  <2> QED  BY <1>19, <2>1, <2>2 DEF TypeOK, ReviveCancelled
<1>20. ASSUME NEW r \in Runs, Gather(r) PROVE TypeOK'
  <2>1. go' \in [Runs -> Routine]
    BY <1>20, PosType, RoutineUpdate DEF TypeOK, Gather
  <2>2. log' \in [Runs -> Ledger]
    BY <1>20, AwaitSlot, LedgerUpdate, VerdictType DEF TypeOK, Gather, Walked
  <2> QED  BY <1>20, <2>1, <2>2 DEF TypeOK, Gather
<1>21. ASSUME NEW r \in Runs, AllGathered(r) PROVE TypeOK'
  <2>1. go' \in [Runs -> Routine]
    BY <1>21, RoutineUpdate DEF TypeOK, AllGathered, Goto, Labels
  <2> QED  BY <1>21, <2>1 DEF TypeOK, AllGathered
<1>22. ASSUME NEW r \in Runs, Reduce(r) PROVE TypeOK'
  <2>1. go' \in [Runs -> Routine]
    BY <1>22, RestType, BatchType, RoutineUpdate DEF TypeOK, Reduce, Labels
  <2> QED  BY <1>22, <2>1 DEF TypeOK, Reduce
<1>23. ASSUME NEW r \in Runs, Load(r) PROVE TypeOK'
  <2>1. go' \in [Runs -> Routine]
    BY <1>23, FirstOf, LoadedType, RoutineUpdate DEF TypeOK, Load
  <2> QED  BY <1>23, <2>1 DEF TypeOK, Load
<1>24. ASSUME NEW r \in Runs, LoadMissing(r) PROVE TypeOK'
  <2>1. status' \in [Runs -> Statuses]
    BY <1>24 DEF TypeOK, LoadMissing, Statuses, Unfinished, Return
  <2>2. go' \in [Runs -> Routine]
    BY <1>24, RestType DEF TypeOK, LoadMissing, Return
  <2> QED  BY <1>24, <2>1, <2>2 DEF TypeOK, LoadMissing
<1>25. ASSUME NEW r \in Runs, Commit(r) PROVE TypeOK'
  <2>1. graph' \in [Files -> Row]
    BY <1>25, CommittedType DEF TypeOK, Commit
  <2>2. committed' \subseteq Runs
    BY <1>25 DEF TypeOK, Commit
  <2>3. go' \in [Runs -> Routine]
    BY <1>25, BatchType, RoutineUpdate DEF TypeOK, Commit, Labels
  <2> QED  BY <1>25, <2>1, <2>2, <2>3 DEF TypeOK, Commit
<1>26. ASSUME NEW r \in Runs, Collect(r) PROVE TypeOK'
  <2>1. go' \in [Runs -> Routine]
    BY <1>26, DroppedType, RoutineUpdate DEF TypeOK, Collect
  <2>2. art' \in [Targets -> [Files -> Facts]]
    BY <1>26, RestType DEF TypeOK, Collect
  <2> QED  BY <1>26, <2>1, <2>2 DEF TypeOK, Collect
<1>27. ASSUME NEW r \in Runs, CheckpointReduce(r) PROVE TypeOK'
  <2>1. log' \in [Runs -> Ledger]
    BY <1>27, LedgerUpdate DEF TypeOK, CheckpointReduce
  <2>2. go' \in [Runs -> Routine]
    BY <1>27, RoutineUpdate DEF TypeOK, CheckpointReduce, Goto, Labels
  <2> QED  BY <1>27, <2>1, <2>2 DEF TypeOK, CheckpointReduce
<1>28. ASSUME NEW r \in Runs, Complete(r) PROVE TypeOK'
  <2>1. status' \in [Runs -> Statuses]
    BY <1>28 DEF TypeOK, Complete, Statuses, Unfinished, Return
  <2>2. go' \in [Runs -> Routine]
    BY <1>28, RestType DEF TypeOK, Complete, Return
  <2> QED  BY <1>28, <2>1, <2>2 DEF TypeOK, Complete
<1>29. ASSUME NEW r \in Runs, CancelRun(r) PROVE TypeOK'
  <2>1. status' \in [Runs -> Statuses]
    BY <1>29 DEF TypeOK, CancelRun, Statuses, Unfinished
  <2>2. go' \in [Runs -> Routine]
    BY <1>29, RestType DEF TypeOK, CancelRun
  <2> QED  BY <1>29, <2>1, <2>2 DEF TypeOK, CancelRun
<1>30. ASSUME NEW r \in Runs, AwaitCancelled(r) PROVE TypeOK'
  <2>1. status' \in [Runs -> Statuses]
    BY <1>30 DEF TypeOK, AwaitCancelled, Statuses, Unfinished, Return
  <2>2. go' \in [Runs -> Routine]
    BY <1>30, RestType DEF TypeOK, AwaitCancelled, Return
  <2> QED  BY <1>30, <2>1, <2>2 DEF TypeOK, AwaitCancelled
<1>31. ASSUME NEW r \in Runs, StepFails(r) PROVE TypeOK'
  <2>1. status' \in [Runs -> Statuses]
    BY <1>31 DEF TypeOK, StepFails, Statuses, Unfinished, Return
  <2>2. go' \in [Runs -> Routine]
    BY <1>31, RestType DEF TypeOK, StepFails, Return
  <2>3. budget' \in Allowance
    BY <1>31 DEF TypeOK, StepFails, Spend, Allowance
  <2> QED  BY <1>31, <2>1, <2>2, <2>3 DEF TypeOK, StepFails
<1>32. ASSUME NEW r \in Runs, Conflict(r) PROVE TypeOK'
  <2>1. go' \in [Runs -> Routine]
    BY <1>32, RetryType, RoutineUpdate DEF TypeOK, Conflict, Labels
  <2>2. budget' \in Allowance
    BY <1>32 DEF TypeOK, Conflict, Spend, Allowance
  <2> QED  BY <1>32, <2>1, <2>2 DEF TypeOK, Conflict
<1>33. ASSUME NEW r \in Runs, ReduceFails(r) PROVE TypeOK'
  <2>1. status' \in [Runs -> Statuses]
    BY <1>33 DEF TypeOK, ReduceFails, Statuses, Unfinished, Return
  <2>2. go' \in [Runs -> Routine]
    BY <1>33, RestType DEF TypeOK, ReduceFails, Return
  <2>3. budget' \in Allowance
    BY <1>33 DEF TypeOK, ReduceFails, Spend, Allowance
  <2> QED  BY <1>33, <2>1, <2>2, <2>3 DEF TypeOK, ReduceFails
<1>34. ASSUME NEW r \in Runs, CommitInDoubt(r) PROVE TypeOK'
  <2>1. graph' \in [Files -> Row]
    BY <1>34, CommittedType DEF TypeOK, CommitInDoubt
  <2>2. committed' \subseteq Runs
    BY <1>34 DEF TypeOK, CommitInDoubt
  <2>3. status' \in [Runs -> Statuses]
    BY <1>34 DEF TypeOK, CommitInDoubt, Statuses, Unfinished, Return
  <2>4. go' \in [Runs -> Routine]
    BY <1>34, RestType DEF TypeOK, CommitInDoubt, Return
  <2>5. budget' \in Allowance
    BY <1>34 DEF TypeOK, CommitInDoubt, Spend, Allowance
  <2> QED  BY <1>34, <2>1, <2>2, <2>3, <2>4, <2>5 DEF TypeOK, CommitInDoubt
<1>35. ASSUME NEW r \in Runs, CollectFails(r) PROVE TypeOK'
  <2>1. go' \in [Runs -> Routine]
    BY <1>35, DroppedType, RoutineUpdate DEF TypeOK, CollectFails
  <2>2. budget' \in Allowance
    BY <1>35 DEF TypeOK, CollectFails, Spend, Allowance
  <2> QED  BY <1>35, <2>1, <2>2 DEF TypeOK, CollectFails
<1>36. ASSUME NEW r \in Runs, CollectNothing(r) PROVE TypeOK'
  <2>1. go' \in [Runs -> Routine]
    BY <1>36, RoutineUpdate DEF TypeOK, CollectNothing
  <2> QED  BY <1>36, <2>1 DEF TypeOK, CollectNothing
<1>37. ASSUME NEW r \in Runs, NEW i \in Slots, DequeueTask(r, i) PROVE TypeOK'
  <2>1. task' \in [Runs -> [Slots -> Child]]
    BY <1>37, ChildUpdate DEF TypeOK, DequeueTask
  <2>2. work' \in [Runs -> [Slots -> Worker]]
    BY <1>37, WorkerUpdate DEF TypeOK, DequeueTask, Stages
  <2> QED  BY <1>37, <2>1, <2>2 DEF TypeOK, DequeueTask
<1>38. ASSUME NEW r \in Runs, NEW i \in Slots, ReadFile(r, i) PROVE TypeOK'
  <2>1. work' \in [Runs -> [Slots -> Worker]]
    BY <1>38, ReadType DEF TypeOK, ReadFile
  <2> QED  BY <1>38, <2>1 DEF TypeOK, ReadFile
<1>39. ASSUME NEW r \in Runs, NEW i \in Slots, ReadFails(r, i) PROVE TypeOK'
  <2>1. task' \in [Runs -> [Slots -> Child]]
    BY <1>39, ChildUpdate DEF TypeOK, ReadFails, FailTask
  <2>2. work' \in [Runs -> [Slots -> Worker]]
    BY <1>39, RestType DEF TypeOK, ReadFails, FailTask
  <2> QED  BY <1>39, <2>1, <2>2 DEF TypeOK, ReadFails
<1>40. ASSUME NEW r \in Runs, NEW i \in Slots, WriteArtifact(r, i) PROVE TypeOK'
  <2>1. art' \in [Targets -> [Files -> Facts]]
    BY <1>40, WrittenType DEF TypeOK, WriteArtifact
  <2>2. work' \in [Runs -> [Slots -> Worker]]
    BY <1>40, WorkerUpdate DEF TypeOK, WriteArtifact, Stages
  <2> QED  BY <1>40, <2>1, <2>2 DEF TypeOK, WriteArtifact
<1>41. ASSUME NEW r \in Runs, NEW i \in Slots, CheckpointKey(r, i) PROVE TypeOK'
  <2>1. task' \in [Runs -> [Slots -> Child]]
    BY <1>41, ChildUpdate DEF TypeOK, CheckpointKey, Verdicts
  <2>2. work' \in [Runs -> [Slots -> Worker]]
    BY <1>41, WorkerUpdate DEF TypeOK, CheckpointKey, Stages
  <2> QED  BY <1>41, <2>1, <2>2 DEF TypeOK, CheckpointKey
<1>42. ASSUME NEW r \in Runs, NEW i \in Slots, CheckpointParseError(r, i) PROVE TypeOK'
  <2>1. task' \in [Runs -> [Slots -> Child]]
    BY <1>42, ChildUpdate DEF TypeOK, CheckpointParseError, Verdicts
  <2>2. work' \in [Runs -> [Slots -> Worker]]
    BY <1>42, WorkerUpdate DEF TypeOK, CheckpointParseError, Stages
  <2> QED  BY <1>42, <2>1, <2>2 DEF TypeOK, CheckpointParseError
<1>43. ASSUME NEW r \in Runs, NEW i \in Slots, FinishTask(r, i) PROVE TypeOK'
  <2>1. task' \in [Runs -> [Slots -> Child]]
    BY <1>43, ChildUpdate DEF TypeOK, FinishTask
  <2>2. work' \in [Runs -> [Slots -> Worker]]
    BY <1>43, RestType DEF TypeOK, FinishTask
  <2> QED  BY <1>43, <2>1, <2>2 DEF TypeOK, FinishTask
<1>44. ASSUME NEW r \in Runs, NEW i \in Slots, CancelTask(r, i) PROVE TypeOK'
  <2>1. task' \in [Runs -> [Slots -> Child]]
    BY <1>44, ChildUpdate DEF TypeOK, CancelTask
  <2>2. work' \in [Runs -> [Slots -> Worker]]
    BY <1>44, RestType DEF TypeOK, CancelTask
  <2> QED  BY <1>44, <2>1, <2>2 DEF TypeOK, CancelTask
<1>45. ASSUME NEW r \in Runs, NEW i \in Slots, WriteFails(r, i) PROVE TypeOK'
  <2>1. task' \in [Runs -> [Slots -> Child]]
    BY <1>45, ChildUpdate DEF TypeOK, WriteFails, FailTask
  <2>2. work' \in [Runs -> [Slots -> Worker]]
    BY <1>45, RestType DEF TypeOK, WriteFails, FailTask
  <2>3. budget' \in Allowance
    BY <1>45 DEF TypeOK, WriteFails, Spend, Allowance
  <2> QED  BY <1>45, <2>1, <2>2, <2>3 DEF TypeOK, WriteFails
<1>46. ASSUME UNCHANGED vars PROVE TypeOK'
  BY <1>46 DEF TypeOK, vars
<1> QED
  BY <1>1, <1>2, <1>3, <1>4, <1>5, <1>6, <1>7, <1>8, <1>9, <1>10, <1>11,
     <1>12, <1>13, <1>14, <1>15, <1>16, <1>17, <1>18, <1>19, <1>20, <1>21,
     <1>22, <1>23, <1>24, <1>25, <1>26, <1>27, <1>28, <1>29, <1>30, <1>31,
     <1>32, <1>33, <1>34, <1>35, <1>36, <1>37, <1>38, <1>39, <1>40, <1>41,
     <1>42, <1>43, <1>44, <1>45, <1>46
  DEF Next, Process, IndexRepo, MapTask, Disturb

-----------------------------------------------------------------------------
(* What one step may do to a task, to a run's checkpoints and goroutine,   *)
(* and to its status: the frames the invariants are preserved in.          *)
Keeps(r, i) ==
  /\ task'[r][i].file = task[r][i].file
  /\ (task'[r][i].status = "NONE") = (task[r][i].status = "NONE")
  /\ task[r][i].status \in {"SUCCESS", "ERROR"} => task'[r][i] = task[r][i]

(* A step either keeps a map task's file and a verdict it has earned, or   *)
(* enqueues the task for the first time.                                   *)
LEMMA TaskFrame ==
  ASSUME TypeOK, Held, [Next]_vars
  PROVE  \A r \in Runs : \A i \in Slots :
           Keeps(r, i) \/ (Enqueue(r) /\ i = go[r].pos /\ task[r][i].status = "NONE")
<1> DEFINE AllKeep == \A r \in Runs : \A i \in Slots : Keeps(r, i)
<1>1. UNCHANGED task => AllKeep
  BY DEF Keeps
<1>2. ASSUME NEW t \in Targets, Launch(t) PROVE AllKeep
  BY <1>2 DEF TypeOK, Launch, Keeps, Child
<1>3. ASSUME NEW q \in Runs, ReviveCancelled(q) PROVE AllKeep
  BY <1>3 DEF TypeOK, ReviveCancelled, Keeps, Child
<1>4. ASSUME NEW q \in Runs, Enqueue(q)
      PROVE  \A r \in Runs : \A i \in Slots :
               Keeps(r, i) \/ (r = q /\ i = go[r].pos /\ task[r][i].status = "NONE")
  BY <1>4 DEF TypeOK, Enqueue, Keeps
<1>5. ASSUME NEW q \in Runs, NEW j \in Slots, DequeueTask(q, j) PROVE AllKeep
  BY <1>5 DEF TypeOK, DequeueTask, Keeps, Child
<1>6. ASSUME NEW q \in Runs, NEW j \in Slots, work[q][j].at # "idle",
             NEW st \in {"ERROR", "SUCCESS", "CANCELLED"}, task' = [task EXCEPT ![q][j].status = st]
      PROVE  AllKeep
  BY <1>6 DEF TypeOK, Held, Keeps, Child
<1>7. ASSUME NEW q \in Runs, NEW j \in Slots, work[q][j].at # "idle",
             NEW v \in Verdicts, task' = [task EXCEPT ![q][j].ck = v]
      PROVE  AllKeep
  BY <1>7 DEF TypeOK, Held, Keeps, Child
<1>8. ASSUME NEW q \in Runs, IndexRepo(q)
      PROVE  UNCHANGED task \/ Enqueue(q) \/ ReviveCancelled(q)
  BY <1>8 DEF IndexRepo, DequeueRun, Resolve, NoManifest, Walk, AllEnqueued, Gather,
       AllGathered, Reduce, Load, LoadMissing, Commit, Collect, CheckpointReduce, Complete
<1>9. ASSUME NEW q \in Runs, NEW j \in Slots, MapTask(q, j) PROVE AllKeep
  BY <1>9, <1>1, <1>5, <1>6, <1>7
  DEF MapTask, ReadFile, ReadFails, WriteArtifact, CheckpointKey, CheckpointParseError,
      FinishTask, FailTask, Verdicts
<1>10. Process => AllKeep
  BY <1>1, <1>2
  DEF Process, ListPending, ListEnqueued, ResumeCancelled, StartRun, AwaitResult, Exit, Die
<1>11. ASSUME NEW q \in Runs, NEW j \in Slots, CancelTask(q, j) \/ WriteFails(q, j) PROVE AllKeep
  BY <1>11, <1>6 DEF CancelTask, WriteFails, FailTask
<1>12. Disturb => AllKeep
  BY <1>1, <1>11
  DEF Disturb, Interrupt, Crash, Die, StartFails, EditManifest, EditFile, CancelRun,
      AwaitCancelled, StepFails, Conflict, ReduceFails, CommitInDoubt, CollectFails, CollectNothing
<1> QED
  BY <1>1, <1>3, <1>4, <1>8, <1>9, <1>10, <1>12 DEF Next, vars

\* The actions of a run that move its goroutine or write its checkpoints.
Acts(r) == \/ Resolve(r) \/ Walk(r) \/ Enqueue(r) \/ AllEnqueued(r) \/ ReviveCancelled(r)
           \/ Gather(r) \/ AllGathered(r) \/ Reduce(r) \/ Conflict(r) \/ Load(r) \/ Commit(r)
           \/ Collect(r) \/ CollectFails(r) \/ CollectNothing(r) \/ CheckpointReduce(r)

(* A run's checkpoints and locals are written by its own actions only;     *)
(* anything else parks it or starts it over.                               *)
LEMMA RunFrame ==
  ASSUME TypeOK, [Next]_vars
  PROVE  \A r \in Runs : Acts(r) \/ (log'[r] = log[r] /\ go'[r] \in {go[r], Parked, Started})
<1> DEFINE Rests(r) == log'[r] = log[r] /\ go'[r] \in {go[r], Parked, Started}
<1>1. UNCHANGED <<log, go>> => \A r \in Runs : Rests(r)
  OBVIOUS
<1>2. ASSUME NEW q \in Runs, UNCHANGED log, go' = [go EXCEPT ![q] = Parked]
      PROVE  \A r \in Runs : Rests(r)
  BY <1>2 DEF TypeOK
<1>3. ASSUME NEW q \in Runs, UNCHANGED log, go' = [go EXCEPT ![q] = Started]
      PROVE  \A r \in Runs : Rests(r)
  BY <1>3 DEF TypeOK
<1>4. ASSUME NEW q \in Runs, Acts(q) PROVE \A r \in Runs : Acts(r) \/ Rests(r)
  <2>1. \A r \in Runs : r # q => log'[r] = log[r] /\ go'[r] = go[r]
    BY <1>4 DEF TypeOK, Acts, Resolve, Walk, Enqueue, AllEnqueued, ReviveCancelled, Gather,
         AllGathered, Reduce, Conflict, Load, Commit, Collect, CollectFails, CollectNothing,
         CheckpointReduce, Goto
  <2> QED  BY <1>4, <2>1
<1>5. ASSUME NEW q \in Runs, IndexRepo(q) PROVE \A r \in Runs : Acts(r) \/ Rests(r)
  BY <1>5, <1>2, <1>3, <1>4
  DEF IndexRepo, Acts, DequeueRun, NoManifest, LoadMissing, Complete, Return
<1>6. ASSUME NEW q \in Runs, NEW j \in Slots, MapTask(q, j) PROVE \A r \in Runs : Rests(r)
  BY <1>6, <1>1
  DEF MapTask, DequeueTask, ReadFile, ReadFails, WriteArtifact, CheckpointKey,
      CheckpointParseError, FinishTask
<1>7. Process => \A r \in Runs : Rests(r)
  <2>1. ASSUME NEW t \in Targets, Launch(t) PROVE \A r \in Runs : Rests(r)
    BY <2>1 DEF Launch
  <2>2. Exit => \A r \in Runs : Rests(r)
    BY DEF Exit, Die
  <2> QED
    BY <1>1, <1>3, <2>1, <2>2
    DEF Process, ListPending, ListEnqueued, ResumeCancelled, StartRun, AwaitResult
<1>8. Disturb => \A r \in Runs : Acts(r) \/ Rests(r)
  <2>1. Crash => \A r \in Runs : Rests(r)
    BY DEF Crash, Die
  <2>2. ASSUME NEW q \in Runs, CancelRun(q) \/ AwaitCancelled(q) \/ StepFails(q)
                               \/ ReduceFails(q) \/ CommitInDoubt(q)
        PROVE  \A r \in Runs : Rests(r)
    BY <2>2, <1>2 DEF CancelRun, AwaitCancelled, StepFails, ReduceFails, CommitInDoubt, Return
  <2>3. ASSUME NEW q \in Runs, NEW j \in Slots, CancelTask(q, j) \/ WriteFails(q, j)
        PROVE  \A r \in Runs : Rests(r)
    BY <2>3, <1>1 DEF CancelTask, WriteFails
  <2> QED
    BY <1>1, <1>4, <2>1, <2>2, <2>3
    DEF Disturb, Interrupt, StartFails, EditManifest, EditFile, Acts
<1> QED
  BY <1>1, <1>5, <1>6, <1>7, <1>8 DEF Next, vars

(* A commit is never forgotten, and only Complete makes a run succeed. *)
LEMMA StatusFrame ==
  ASSUME TypeOK, [Next]_vars
  PROVE  /\ committed \subseteq committed'
         /\ \A r \in Runs : status'[r] = "SUCCESS" => status[r] = "SUCCESS" \/ Complete(r)
<1> DEFINE Fine == /\ committed \subseteq committed'
                   /\ \A r \in Runs : status'[r] = "SUCCESS" => status[r] = "SUCCESS" \/ Complete(r)
<1>1. UNCHANGED <<status, committed>> => Fine
  OBVIOUS
<1>2. ASSUME NEW q \in Runs, NEW st \in Statuses, st # "SUCCESS",
             committed \subseteq committed', status' = [status EXCEPT ![q] = st]
      PROVE  Fine
  BY <1>2 DEF TypeOK
<1>3. ASSUME NEW q \in Runs, IndexRepo(q) PROVE Fine
  <2>1. Complete(q) => Fine
    BY DEF TypeOK, Complete, Return
  <2>2. Commit(q) => Fine
    BY DEF Commit
  <2> QED
    BY <1>1, <1>2, <1>3, <2>1, <2>2
    DEF IndexRepo, DequeueRun, Resolve, NoManifest, Walk, Enqueue, AllEnqueued, ReviveCancelled,
        Gather, AllGathered, Reduce, Load, LoadMissing, Collect, CheckpointReduce, Return,
        Statuses, Unfinished
<1>4. ASSUME NEW q \in Runs, NEW j \in Slots, MapTask(q, j) PROVE Fine
  BY <1>4, <1>1
  DEF MapTask, DequeueTask, ReadFile, ReadFails, WriteArtifact, CheckpointKey,
      CheckpointParseError, FinishTask
<1>5. Process => Fine
  <2>1. StartRun => Fine
    BY <1>2 DEF StartRun, Statuses, Unfinished
  <2>2. ResumeCancelled => Fine
    BY <1>2, FoundRun DEF ResumeCancelled, Statuses, Unfinished
  <2> QED
    BY <1>1, <2>1, <2>2 DEF Process, Launch, ListPending, ListEnqueued, AwaitResult, Exit, Die
<1>6. Disturb => Fine
  <2>1. ASSUME NEW q \in Runs, CancelRun(q) \/ AwaitCancelled(q) \/ StepFails(q)
                               \/ ReduceFails(q) \/ CommitInDoubt(q)
        PROVE  Fine
    BY <2>1, <1>2
    DEF CancelRun, AwaitCancelled, StepFails, ReduceFails, CommitInDoubt, Return, Statuses, Unfinished
  <2>2. ASSUME NEW q \in Runs, NEW j \in Slots, CancelTask(q, j) \/ WriteFails(q, j)
        PROVE  Fine
    BY <2>2, <1>1 DEF CancelTask, WriteFails
  <2> QED
    BY <1>1, <2>1, <2>2
    DEF Disturb, Interrupt, Crash, Die, StartFails, EditManifest, EditFile, Conflict,
        CollectFails, CollectNothing
<1> QED
  BY <1>1, <1>3, <1>4, <1>5, <1>6 DEF Next, vars
-----------------------------------------------------------------------------
(* Every step preserves Held: a worker is busy with a PENDING task of a    *)
(* live process.                                                           *)
LEMMA HeldNext == TypeOK /\ Held => ([Next]_vars => Held')
<1> SUFFICES ASSUME TypeOK, Held PROVE [Next]_vars => Held'  OBVIOUS
<1> USE DEF TypeOK, Held, Up
<1>1. UNCHANGED <<task, work>> /\ (Up => cli'.at # "down") => Held'
  OBVIOUS
<1>2. ASSUME NEW t \in Targets, Launch(t) PROVE Held'
  BY <1>2 DEF Launch
<1>3. ASSUME Exit \/ Crash PROVE Held'
  BY <1>3 DEF Exit, Crash, Die, Idle
<1>4. ASSUME NEW q \in Runs, Enqueue(q) PROVE Held'
  BY <1>4 DEF Enqueue
<1>5. ASSUME NEW q \in Runs, ReviveCancelled(q) PROVE Held'
  BY <1>5 DEF ReviveCancelled
<1>6. ASSUME NEW q \in Runs, NEW j \in Slots, DequeueTask(q, j) PROVE Held'
  BY <1>6 DEF DequeueTask, Running
<1>7. ASSUME NEW q \in Runs, NEW j \in Slots, UNCHANGED cli, work[q][j].at # "idle",
             \A r \in Runs, i \in Slots : task'[r][i].status = task[r][i].status,
             NEW w \in Worker, work' = [work EXCEPT ![q][j] = w]
      PROVE  Held'
  <2> SUFFICES ASSUME NEW r \in Runs, NEW i \in Slots, work'[r][i].at # "idle"
               PROVE  (Up /\ task[r][i].status = "PENDING")'
    OBVIOUS
  <2>1. CASE r = q /\ i = j
    <3>1. Up /\ task[q][j].status = "PENDING"
      BY <1>7
    <3>2. task'[q][j].status = task[q][j].status /\ UNCHANGED cli
      BY <1>7
    <3> QED  BY <2>1, <3>1, <3>2
  <2>2. CASE ~(r = q /\ i = j)
    <3>1. work'[r][i] = work[r][i] /\ work[r][i].at # "idle"
      BY <1>7, <2>2
    <3>2. Up /\ task[r][i].status = "PENDING"
      BY <3>1
    <3>3. task'[r][i].status = task[r][i].status /\ UNCHANGED cli
      BY <1>7
    <3> QED  BY <3>2, <3>3
  <2> QED  BY <2>1, <2>2
<1>8. ASSUME NEW q \in Runs, NEW j \in Slots, UNCHANGED cli, NEW st \in Statuses,
             task' = [task EXCEPT ![q][j].status = st],
             work' = [work EXCEPT ![q][j] = Idle]
      PROVE  Held'
  BY <1>8 DEF Idle, Child
<1>9. ASSUME NEW q \in Runs, NEW j \in Slots, MapTask(q, j) PROVE Held'
  <2>1. ReadFile(q, j) => Held'
    BY DEF ReadFile
  <2>2. WriteArtifact(q, j) => Held'
    BY DEF WriteArtifact, Worker
  <2>3. CheckpointKey(q, j) => Held'
    BY DEF CheckpointKey, Worker, Child
  <2>4. CheckpointParseError(q, j) => Held'
    BY DEF CheckpointParseError, Worker, Child
  <2> QED
    BY <1>6, <1>8, <1>9, <2>1, <2>2, <2>3, <2>4
    DEF MapTask, ReadFails, FinishTask, FailTask, Statuses, Unfinished
<1>10. ASSUME NEW q \in Runs, NEW j \in Slots, CancelTask(q, j) \/ WriteFails(q, j) PROVE Held'
  BY <1>10, <1>8 DEF CancelTask, WriteFails, FailTask, Statuses, Unfinished
<1>11. ASSUME NEW q \in Runs, IndexRepo(q) PROVE Held'
  BY <1>11, <1>1, <1>4, <1>5
  DEF IndexRepo, DequeueRun, Resolve, NoManifest, Walk, AllEnqueued, Gather, AllGathered,
      Reduce, Load, LoadMissing, Commit, Collect, CheckpointReduce, Complete
<1>12. Process => Held'
  <2>1. ListPending \/ ListEnqueued \/ ResumeCancelled \/ StartRun \/ AwaitResult => Held'
    BY <1>1 DEF ListPending, ListEnqueued, ResumeCancelled, StartRun, AwaitResult, Attach, Command
  <2> QED  BY <1>2, <1>3, <2>1 DEF Process
<1>13. Disturb => Held'
  <2>1. Interrupt \/ StartFails => Held'
    BY <1>1 DEF Interrupt, StartFails, Command
  <2>2. ASSUME NEW q \in Runs, CancelRun(q) \/ AwaitCancelled(q) \/ StepFails(q) \/ Conflict(q)
                               \/ ReduceFails(q) \/ CommitInDoubt(q) \/ CollectFails(q)
                               \/ CollectNothing(q)
        PROVE  Held'
    BY <2>2, <1>1 DEF CancelRun, AwaitCancelled, StepFails, Conflict, ReduceFails, CommitInDoubt,
         CollectFails, CollectNothing
  <2>3. ASSUME NEW t \in Targets, NEW f \in Files, EditManifest(t) \/ EditFile(t, f) PROVE Held'
    BY <2>3, <1>1 DEF EditManifest, EditFile
  <2>4. ASSUME NEW t \in Targets, EditManifest(t) PROVE Held'
    BY <2>4, <1>1 DEF EditManifest
  <2> QED  BY <1>3, <1>10, <2>1, <2>2, <2>3, <2>4 DEF Disturb
<1> QED  BY <1>1, <1>9, <1>11, <1>12, <1>13 DEF Next, vars

(* A run's checkpoints are written once: a frozen walk never changes, a    *)
(* verdict once recorded stays, and a walk is frozen before any verdict.   *)
LEMMA LedgerFrame ==
  ASSUME TypeOK, Numbered, Judged, Gathered, [Next]_vars, NEW r \in Runs
  PROVE  /\ log[r].walked => log'[r].walked /\ log'[r].walk = log[r].walk
         /\ \A i \in Slots : log[r].await[i] # "none" =>
              log[r].walked /\ log'[r].await[i] = log[r].await[i]
         /\ log[r].reduced => log'[r].reduced
<1>1. \A i \in Slots : log[r].await[i] # "none" => log[r].walked
  BY DEF Judged, Earned, Numbered
<1>2. CASE log'[r] = log[r]
  BY <1>1, <1>2
<1>3. CASE Resolve(r)
  BY <1>1, <1>3 DEF TypeOK, Resolve, Ledger
<1>4. CASE Walk(r)
  BY <1>1, <1>4 DEF TypeOK, Walk, Ledger
<1>5. CASE Gather(r)
  <2>1. log'[r] = [log[r] EXCEPT !.await[go[r].pos] = Verdict(r, go[r].pos)]
    BY <1>5 DEF TypeOK, Gather
  <2>2. log[r].await[go[r].pos] # "none" => Verdict(r, go[r].pos) = log[r].await[go[r].pos]
    BY DEF Verdict
  <2>3. \A i \in Slots : log[r].await[i] # "none" => log'[r].await[i] = log[r].await[i]
    BY <2>1, <2>2 DEF TypeOK, Ledger
  <2> QED  BY <1>1, <2>1, <2>3 DEF TypeOK, Ledger
<1>6. CASE CheckpointReduce(r)
  BY <1>1, <1>6 DEF TypeOK, CheckpointReduce, Ledger
<1> QED
  BY <1>2, <1>3, <1>4, <1>5, <1>6, RunFrame
  DEF Acts, Enqueue, AllEnqueued, ReviveCancelled, AllGathered, Reduce, Conflict, Load, Commit,
      Collect, CollectFails, CollectNothing

(* Every step preserves Numbered: the i-th task was enqueued for the i-th  *)
(* path of the frozen walk.                                                *)
LEMMA NumberedNext ==
  ASSUME TypeOK, Held, Numbered, Judged, Frozen, Gathered, [Next]_vars
  PROVE  Numbered'
<1> SUFFICES ASSUME NEW r \in Runs, NEW i \in Slots, task'[r][i].status # "NONE"
             PROVE  /\ log'[r].walked /\ i <= Len(log'[r].walk)
                    /\ task'[r][i].file = log'[r].walk[i]
  BY DEF Numbered
<1>1. CASE Keeps(r, i)
  BY <1>1, LedgerFrame DEF Keeps, Numbered
<1>2. CASE Enqueue(r) /\ i = go[r].pos /\ task[r][i].status = "NONE"
  <2>1. log[r].walked /\ go[r].paths = log[r].walk /\ log' = log
    BY <1>2 DEF Enqueue, Frozen, Walked
  <2>2. i <= Len(go[r].paths) /\ task'[r][i].file = go[r].paths[i]
    BY <1>2 DEF Enqueue, TypeOK
  <2> QED  BY <2>1, <2>2
<1> QED  BY <1>1, <1>2, TaskFrame

(* Every step preserves Judged: a verdict recorded is one the task earned. *)
LEMMA JudgedNext ==
  ASSUME TypeOK, Held, Numbered, Judged, Frozen, Gathered, [Next]_vars
  PROVE  Judged'
<1> SUFFICES ASSUME NEW r \in Runs, NEW i \in Slots, log'[r].await[i] # "none"
             PROVE  Earned(r, i)'
  BY DEF Judged
<1>1. CASE log[r].await[i] # "none"
  <2>1. Earned(r, i) /\ log[r].walked
    BY <1>1, LedgerFrame DEF Judged
  <2>2. task'[r][i] = task[r][i]
    BY <2>1, TaskFrame DEF Earned, Keeps
  <2> QED  BY <1>1, <2>1, <2>2, LedgerFrame DEF Earned
<1>2. CASE log[r].await[i] = "none"
  <2>1. Gather(r) /\ i = go[r].pos
    <3>1. log'[r] # log[r]
      BY <1>2
    <3>2. ~Resolve(r) /\ ~Walk(r) /\ ~CheckpointReduce(r)
      <4>1. Resolve(r) => log'[r].await = log[r].await
        BY DEF TypeOK, Ledger, Resolve
      <4>2. Walk(r) => log'[r].await = log[r].await
        BY DEF TypeOK, Ledger, Walk
      <4>3. CheckpointReduce(r) => log'[r].await = log[r].await
        BY DEF TypeOK, Ledger, CheckpointReduce
      <4> QED  BY <1>2, <4>1, <4>2, <4>3
    <3>3. Gather(r)
      BY <3>1, <3>2, RunFrame
      DEF Acts, Enqueue, AllEnqueued, ReviveCancelled, AllGathered, Reduce, Conflict, Load, Commit,
          Collect, CollectFails, CollectNothing
    <3> QED  BY <1>2, <3>3 DEF TypeOK, Ledger, Gather
  <2>2. /\ Verdict(r, i) # "none" /\ log'[r].await[i] = Verdict(r, i)
        /\ log'[r].walk = log[r].walk /\ task' = task
    BY <2>1 DEF TypeOK, Ledger, Gather
  <2>3. /\ task[r][i].status \in {"SUCCESS", "ERROR"}
        /\ task[r][i].status = "SUCCESS" => Verdict(r, i) = task[r][i].ck
        /\ task[r][i].status = "ERROR" => Verdict(r, i) = "failed"
    BY <1>2, <2>2 DEF Verdict
  <2>4. task[r][i].file = log[r].walk[i]
    BY <2>3 DEF Numbered
  <2> QED  BY <2>2, <2>3, <2>4 DEF Earned
<1> QED  BY <1>1, <1>2

(* Every step preserves Frozen: a run past its walk works on the walk it   *)
(* checkpointed.                                                           *)
LEMMA FrozenNext ==
  ASSUME TypeOK, Numbered, Judged, Frozen, Gathered, [Next]_vars
  PROVE  Frozen'
<1> SUFFICES ASSUME NEW r \in Runs
             PROVE  /\ Len(log'[r].walk) <= Cardinality(Files)
                    /\ go'[r].pc \in Walked => log'[r].walked /\ go'[r].paths = log'[r].walk
  BY DEF Frozen
<1> USE DEF TypeOK, Ledger, Routine, Frozen, Walked, Reducing
<1>1. CASE log'[r] = log[r] /\ go'[r] \in {go[r], Parked, Started}
  BY <1>1 DEF Parked, Started
<1>2. CASE Resolve(r)
  BY <1>2 DEF Resolve
<1>3. CASE Walk(r)
  <2>1. PICK s \in IF log[r].walked THEN {log[r].walk} ELSE Sorted(Present(owner[r])) :
          /\ log' = [log EXCEPT ![r].walked = TRUE, ![r].walk = s]
          /\ go'  = [go EXCEPT ![r].pc = "enqueue", ![r].paths = s, ![r].pos = 1]
    BY <1>3 DEF Walk
  <2>2. Len(s) <= Cardinality(Files)
    BY SortedWalk DEF Present
  <2> QED  BY <2>1, <2>2
<1>4. CASE Enqueue(r) \/ AllEnqueued(r) \/ ReviveCancelled(r)
  BY <1>4 DEF Enqueue, AllEnqueued, ReviveCancelled, Goto
<1>5. CASE Gather(r)
  BY <1>5 DEF Gather
<1>6. CASE AllGathered(r) \/ Reduce(r) \/ Conflict(r)
  BY <1>6 DEF AllGathered, Reduce, Conflict, Goto
<1>7. CASE Load(r) \/ Commit(r)
  BY <1>7 DEF Load, Commit
<1>8. CASE Collect(r) \/ CollectFails(r) \/ CollectNothing(r)
  BY <1>8 DEF Collect, CollectFails, CollectNothing
<1>9. CASE CheckpointReduce(r)
  BY <1>9 DEF CheckpointReduce, Goto
<1> QED
  BY <1>1, <1>2, <1>3, <1>4, <1>5, <1>6, <1>7, <1>8, <1>9, RunFrame DEF Acts

(* Every step preserves Gathered: a run that reduces has a verdict for     *)
(* every path.                                                             *)
LEMMA GatheredNext ==
  ASSUME TypeOK, Numbered, Judged, Frozen, Gathered, [Next]_vars
  PROVE  Gathered'
<1> SUFFICES ASSUME NEW r \in Runs
             PROVE  /\ go'[r].pc = "gather" =>
                         \A i \in 1..Len(log'[r].walk) :
                           i < go'[r].pos => log'[r].await[i] # "none"
                    /\ (go'[r].pc \in Reducing \/ log'[r].reduced) =>
                         log'[r].walked /\ Settled(r)'
  BY DEF Gathered
<1>1. 1..Len(log[r].walk) \subseteq Slots /\ Len(log[r].walk) \in Nat
  BY SlotsNat DEF TypeOK, Ledger, Frozen, Slots
<1>2. Settled(r) /\ log[r].walked => log'[r].walked /\ Settled(r)'
  BY <1>1, LedgerFrame DEF Settled
<1>3. ASSUME go'[r].pc = "gather", go[r].pc = "gather", go'[r].pos = go[r].pos
      PROVE  \A i \in 1..Len(log'[r].walk) : i < go'[r].pos => log'[r].await[i] # "none"
  <2>1. log[r].walked
    BY <1>3 DEF Frozen, Walked
  <2> QED  BY <1>1, <1>3, <2>1, LedgerFrame DEF Gathered
<1>4. ASSUME Gather(r)
      PROVE  \A i \in 1..Len(log'[r].walk) : i < go'[r].pos => log'[r].await[i] # "none"
  <2>1. log[r].walked /\ log'[r].walk = log[r].walk
    BY <1>4, LedgerFrame DEF Gather, Frozen, Walked
  <2>2. /\ go[r].pos \in Slots /\ go'[r].pos = go[r].pos + 1
        /\ log'[r].await[go[r].pos] # "none"
    BY <1>4, AwaitSlot DEF TypeOK, Gather, Ledger, Routine, Walked
  <2>3. \A i \in 1..Len(log[r].walk) : i < go[r].pos => log'[r].await[i] # "none"
    BY <1>1, <1>4, LedgerFrame DEF Gathered, Gather
  <2>4. \A i \in Nat : i < go[r].pos + 1 => i < go[r].pos \/ i = go[r].pos
    BY PosType
  <2> QED  BY <1>1, <2>1, <2>2, <2>3, <2>4
<1>5. AllGathered(r) => log[r].walked /\ Settled(r)
  <2> SUFFICES ASSUME AllGathered(r) PROVE log[r].walked /\ Settled(r)  OBVIOUS
  <2>1. log[r].walked /\ Len(log[r].walk) < go[r].pos
    BY <1>1 DEF TypeOK, Routine, AllGathered, Frozen, Walked
  <2> QED  BY <1>1, <2>1 DEF TypeOK, Routine, AllGathered, Gathered, Settled
<1>6. /\ go'[r].pc = "gather" => \/ go[r].pc = "gather" /\ go'[r].pos = go[r].pos
                                \/ Gather(r)
                                \/ go'[r].pos = 1
      /\ (go'[r].pc \in Reducing \/ log'[r].reduced)
           => go[r].pc \in Reducing \/ log[r].reduced \/ AllGathered(r)
  <2> USE DEF TypeOK, Ledger, Routine, Reducing
  <2>1. CASE log'[r] = log[r] /\ go'[r] \in {go[r], Parked, Started}
    BY <2>1 DEF Parked, Started
  <2>2. CASE Resolve(r)
    BY <2>2 DEF Resolve
  <2>3. CASE Walk(r)
    BY <2>3 DEF Walk
  <2>4. CASE Enqueue(r) \/ AllEnqueued(r)
    BY <2>4 DEF Enqueue, AllEnqueued, Goto
  <2>5. CASE ReviveCancelled(r)
    BY <2>5 DEF ReviveCancelled
  <2>6. CASE Gather(r)
    BY <2>6 DEF Gather
  <2>7. CASE AllGathered(r)
    BY <2>7 DEF AllGathered, Goto
  <2>8. CASE Reduce(r) \/ Conflict(r)
    BY <2>8 DEF Reduce, Conflict
  <2>9. CASE Load(r) \/ Commit(r)
    BY <2>9 DEF Load, Commit
  <2>10. CASE Collect(r) \/ CollectFails(r) \/ CollectNothing(r)
    BY <2>10 DEF Collect, CollectFails, CollectNothing
  <2>11. CASE CheckpointReduce(r)
    BY <2>11 DEF CheckpointReduce, Goto
  <2> QED
    BY <2>1, <2>2, <2>3, <2>4, <2>5, <2>6, <2>7, <2>8, <2>9, <2>10, <2>11, RunFrame DEF Acts
<1>7. go'[r].pos = 1 => \A i \in 1..Len(log'[r].walk) : i < go'[r].pos => log'[r].await[i] # "none"
  OBVIOUS
<1> QED  BY <1>2, <1>3, <1>4, <1>5, <1>6, <1>7 DEF Gathered

(* Every step preserves Reduced: a reduce is checkpointed only after its   *)
(* commit.                                                                 *)
LEMMA ReducedNext ==
  ASSUME TypeOK, Numbered, Judged, Gathered, Reduced, [Next]_vars
  PROVE  Reduced'
<1> SUFFICES ASSUME NEW r \in Runs
             PROVE  /\ (go'[r].pc = "collect" \/ log'[r].reduced) => r \in committed'
                    /\ status'[r] = "SUCCESS" => log'[r].reduced
  BY DEF Reduced
<1>1. status'[r] = "SUCCESS" => log'[r].reduced
  BY StatusFrame, LedgerFrame DEF Complete, Reduced
<1>2. (go'[r].pc = "collect" \/ log'[r].reduced) => r \in committed'
  <2> USE StatusFrame DEF TypeOK, Ledger, Routine, Reduced
  <2>1. CASE log'[r] = log[r] /\ go'[r] \in {go[r], Parked, Started}
    BY <2>1 DEF Parked, Started
  <2>2. CASE Resolve(r)
    BY <2>2 DEF Resolve
  <2>3. CASE Walk(r)
    BY <2>3 DEF Walk
  <2>4. CASE Enqueue(r) \/ AllEnqueued(r) \/ ReviveCancelled(r)
    BY <2>4 DEF Enqueue, AllEnqueued, ReviveCancelled, Goto
  <2>5. CASE Gather(r)
    BY <2>5 DEF Gather
  <2>6. CASE AllGathered(r) \/ Reduce(r) \/ Conflict(r) \/ Load(r)
    BY <2>6 DEF AllGathered, Reduce, Conflict, Load, Goto
  <2>7. CASE Commit(r)
    BY <2>7 DEF Commit
  <2>8. CASE Collect(r) \/ CollectFails(r) \/ CollectNothing(r)
    BY <2>8 DEF Collect, CollectFails, CollectNothing
  <2>9. CASE CheckpointReduce(r)
    BY <2>9 DEF CheckpointReduce
  <2> QED
    BY <2>1, <2>2, <2>3, <2>4, <2>5, <2>6, <2>7, <2>8, <2>9, RunFrame DEF Acts
<1> QED  BY <1>1, <1>2

(* The inductive invariant holds when the program starts. *)
LEMMA InductiveInit == Init => Inductive
<1> SUFFICES ASSUME Init PROVE Inductive  OBVIOUS
<1>1. Held /\ Numbered /\ Judged
  BY DEF Init, Held, Numbered, Judged, NoTask, NoLog, Idle
<1>2. Frozen /\ Gathered /\ Reduced
  <2>1. Len(NoLog.walk) = 0
    BY DEF NoLog
  <2> QED
    BY <2>1, SlotsNat DEF Init, Frozen, Gathered, Reduced, NoLog, Parked, Walked, Reducing
<1> QED  BY <1>1, <1>2, TypeInit DEF Inductive

(* The inductive invariant is preserved by every step. *)
LEMMA InductiveNext == Inductive /\ [Next]_vars => Inductive'
  BY TypeNext, HeldNext, NumberedNext, JudgedNext, FrozenNext, GatheredNext, ReducedNext
  DEF Inductive

(* The inductive invariant holds in every reachable state. *)
THEOREM InductiveInvariant == Spec => []Inductive
  BY InductiveInit, InductiveNext, PTL DEF Spec

(* Every reachable state is well typed, and no load is attempted more      *)
(* often than withRetry's cap allows.                                      *)
THEOREM TypeCorrect == Spec => []TypeOK
  BY InductiveInvariant, PTL DEF Inductive

(* A run that reports success has settled every file of its frozen walk on *)
(* a verdict its own task earned: shutdowns, crashes and faults lose none. *)
THEOREM NoFileIsLost == Spec => []NoFileLost
<1>1. Inductive => NoFileLost
  <2> SUFFICES ASSUME Inductive, NEW r \in Runs, status[r] = "SUCCESS"
               PROVE  r \in committed /\ \A i \in 1..Len(log[r].walk) : Earned(r, i)
    BY DEF NoFileLost
  <2>1. log[r].reduced /\ r \in committed /\ Settled(r)
    BY DEF Inductive, Reduced, Gathered
  <2>2. 1..Len(log[r].walk) \subseteq Slots
    BY SlotsNat DEF Inductive, TypeOK, Ledger, Frozen, Slots
  <2> QED  BY <2>1, <2>2 DEF Inductive, Judged, Settled
<1> QED  BY <1>1, InductiveInvariant, PTL
-----------------------------------------------------------------------------
(* The graph is written by a commit and by nothing else. *)
LEMMA GraphFrame ==
  ASSUME [Next]_vars
  PROVE  UNCHANGED graph \/ \E r \in Runs : (Commit(r) \/ CommitInDoubt(r)) /\ graph' = Committed(r)
<1>1. ASSUME NEW r \in Runs, IndexRepo(r)
      PROVE  UNCHANGED graph \/ (Commit(r) /\ graph' = Committed(r))
  BY <1>1
  DEF IndexRepo, DequeueRun, Resolve, NoManifest, Walk, Enqueue, AllEnqueued, ReviveCancelled,
      Gather, AllGathered, Reduce, Load, LoadMissing, Commit, Collect, CheckpointReduce, Complete
<1>2. ASSUME NEW r \in Runs, NEW i \in Slots, MapTask(r, i) PROVE UNCHANGED graph
  BY <1>2 DEF MapTask, DequeueTask, ReadFile, ReadFails, WriteArtifact, CheckpointKey,
       CheckpointParseError, FinishTask
<1>3. Process => UNCHANGED graph
  BY DEF Process, Launch, ListPending, ListEnqueued, ResumeCancelled, StartRun, AwaitResult, Exit, Die
<1>4. Disturb => \/ UNCHANGED graph
                 \/ \E r \in Runs : CommitInDoubt(r) /\ graph' = Committed(r)
  BY DEF Disturb, Interrupt, Crash, Die, StartFails, EditManifest, EditFile, CancelRun,
      AwaitCancelled, StepFails, Conflict, ReduceFails, CommitInDoubt, CollectFails,
      CollectNothing, CancelTask, WriteFails
<1> QED  BY <1>1, <1>2, <1>3, <1>4 DEF Next, vars

(* A step that changes the graph writes one run's whole batch and nothing  *)
(* else.                                                                   *)
THEOREM BatchesAreWhole == Spec => WholeBatches
<1>1. TypeOK /\ [Next]_vars =>
        (graph' # graph => \E r \in Runs : \A f \in Files :
           IF f \in Batch(r) THEN graph'[f].run = r ELSE graph'[f] = graph[f])
  <2> SUFFICES ASSUME TypeOK, NEW r \in Runs, graph' = Committed(r)
               PROVE  \A f \in Files :
                        IF f \in Batch(r) THEN graph'[f].run = r ELSE graph'[f] = graph[f]
    BY GraphFrame
  <2> QED  BY DEF Committed
<1>2. TypeOK /\ [Next]_vars =>
        [graph' # graph => \E r \in Runs : \A f \in Files :
           IF f \in Batch(r) THEN graph'[f].run = r ELSE graph'[f] = graph[f]]_vars
  BY <1>1
<1> QED  BY <1>2, TypeCorrect, PTL DEF Spec, WholeBatches

(* Every step preserves CleanWorkers: extractFile writes no artifact of a  *)
(* file that is absent or does not parse.                                  *)
LEMMA CleanWorkersNext == TypeOK /\ CleanWorkers => ([Next]_vars => CleanWorkers')
<1> SUFFICES ASSUME TypeOK, CleanWorkers PROVE [Next]_vars => CleanWorkers'  OBVIOUS
<1> USE DEF TypeOK, CleanWorkers
<1>1. UNCHANGED work => CleanWorkers'
  OBVIOUS
<1>2. ASSUME NEW q \in Runs, NEW j \in Slots, NEW w \in Worker, work' = [work EXCEPT ![q][j] = w],
             w.at \in {"read", "written"} => w.ver \notin Absent,
             w.at = "written" => w.ver \notin Poison
      PROVE  CleanWorkers'
  BY <1>2
<1>3. ASSUME NEW q \in Runs, NEW j \in Slots, work' = [work EXCEPT ![q][j] = Idle]
      PROVE  CleanWorkers'
  BY <1>2, <1>3, RestType DEF Idle
<1>4. ASSUME NEW q \in Runs, NEW j \in Slots, work' = [work EXCEPT ![q][j].at = "started"]
      PROVE  CleanWorkers'
  <2>1. work[q][j] \in Worker
    OBVIOUS
  <2>2. [work[q][j] EXCEPT !.at = "started"] \in Worker
    BY <2>1, WorkerUpdate DEF Stages
  <2>3. [work[q][j] EXCEPT !.at = "started"].at = "started"
    BY <2>1 DEF Worker
  <2>4. work' = [work EXCEPT ![q][j] = [work[q][j] EXCEPT !.at = "started"]]
    BY <1>4
  <2> QED  BY <1>2, <2>2, <2>3, <2>4
<1>5. ASSUME NEW q \in Runs, NEW j \in Slots, MapTask(q, j) PROVE CleanWorkers'
  <2>1. ReadFile(q, j) => CleanWorkers'
    BY DEF ReadFile
  <2>2. WriteArtifact(q, j) => CleanWorkers'
    BY DEF WriteArtifact, Worker
  <2> QED
    BY <1>3, <1>4, <1>5, <2>1, <2>2
    DEF MapTask, DequeueTask, ReadFails, CheckpointKey, CheckpointParseError, FinishTask, FailTask
<1>6. ASSUME NEW q \in Runs, IndexRepo(q) PROVE CleanWorkers'
  BY <1>6, <1>1
  DEF IndexRepo, DequeueRun, Resolve, NoManifest, Walk, Enqueue, AllEnqueued, ReviveCancelled,
      Gather, AllGathered, Reduce, Load, LoadMissing, Commit, Collect, CheckpointReduce, Complete
<1>7. Die => CleanWorkers'
  BY DEF Die, Idle
<1>8. Process => CleanWorkers'
  BY <1>1, <1>7
  DEF Process, Launch, ListPending, ListEnqueued, ResumeCancelled, StartRun, AwaitResult, Exit
<1>9. Disturb => CleanWorkers'
  <2>1. ASSUME NEW q \in Runs, NEW j \in Slots, CancelTask(q, j) \/ WriteFails(q, j)
        PROVE  CleanWorkers'
    BY <2>1, <1>3 DEF CancelTask, WriteFails, FailTask
  <2> QED
    BY <1>1, <1>7, <2>1
    DEF Disturb, Interrupt, Crash, StartFails, EditManifest, EditFile, CancelRun, AwaitCancelled,
        StepFails, Conflict, ReduceFails, CommitInDoubt, CollectFails, CollectNothing
<1> QED  BY <1>1, <1>5, <1>6, <1>8, <1>9 DEF Next, vars

(* Every step preserves CleanArtifacts: what the artifact store holds was  *)
(* there and parsed.                                                       *)
LEMMA CleanArtifactsNext ==
  TypeOK /\ CleanWorkers /\ CleanArtifacts => ([Next]_vars => CleanArtifacts')
<1> SUFFICES ASSUME TypeOK, CleanWorkers, CleanArtifacts PROVE [Next]_vars => CleanArtifacts'
  OBVIOUS
<1>1. UNCHANGED art => CleanArtifacts'
  BY DEF CleanArtifacts
<1>2. ASSUME NEW q \in Runs, NEW j \in Slots, MapTask(q, j) PROVE CleanArtifacts'
  <2>1. WriteArtifact(q, j) => CleanArtifacts'
    BY DEF TypeOK, WriteArtifact, CleanWorkers, CleanArtifacts, Unusable
  <2> QED
    BY <1>1, <1>2, <2>1
    DEF MapTask, DequeueTask, ReadFile, ReadFails, CheckpointKey, CheckpointParseError, FinishTask
<1>3. ASSUME NEW q \in Runs, IndexRepo(q) PROVE CleanArtifacts'
  <2>1. Collect(q) => CleanArtifacts'
    BY DEF TypeOK, Collect, CleanArtifacts
  <2> QED
    BY <1>1, <1>3, <2>1
    DEF IndexRepo, DequeueRun, Resolve, NoManifest, Walk, Enqueue, AllEnqueued, ReviveCancelled,
        Gather, AllGathered, Reduce, Load, LoadMissing, Commit, CheckpointReduce, Complete
<1>4. Process => CleanArtifacts'
  BY <1>1
  DEF Process, Launch, ListPending, ListEnqueued, ResumeCancelled, StartRun, AwaitResult, Exit, Die
<1>5. Disturb => CleanArtifacts'
  BY <1>1
  DEF Disturb, Interrupt, Crash, Die, StartFails, EditManifest, EditFile, CancelRun,
      AwaitCancelled, StepFails, Conflict, ReduceFails, CommitInDoubt, CollectFails,
      CollectNothing, CancelTask, WriteFails
<1> QED  BY <1>1, <1>2, <1>3, <1>4, <1>5 DEF Next, vars

(* A run's batch is fixed from the moment it begins to load it. *)
LEMMA BatchFrame ==
  ASSUME TypeOK, Held, [Next]_vars, NEW r \in Runs, go[r].pc = "load"
  PROVE  Batch(r)' = Batch(r)
<1>1. log'[r].await = log[r].await
  <2>1. ~Resolve(r) /\ ~Walk(r) /\ ~Gather(r) /\ ~CheckpointReduce(r)
    BY DEF Resolve, Walk, Gather, CheckpointReduce
  <2> QED
    BY <2>1, RunFrame
    DEF Acts, Enqueue, AllEnqueued, ReviveCancelled, AllGathered, Reduce, Conflict, Load, Commit,
        Collect, CollectFails, CollectNothing
<1>2. \A i \in Slots : task'[r][i].file = task[r][i].file
  BY TaskFrame DEF Enqueue, Keeps
<1> QED  BY <1>1, <1>2 DEF Batch

(* A run that is loading was loading already, has just loaded a file, or   *)
(* has just begun its transaction.                                         *)
LEMMA LoadFrame ==
  ASSUME TypeOK, [Next]_vars, NEW r \in Runs, go'[r].pc = "load"
  PROVE  (go[r].pc = "load" /\ go'[r] = go[r]) \/ Load(r) \/ Reduce(r)
<1>0. go \in [Runs -> Routine] /\ go[r] \in Routine
  BY DEF TypeOK
<1>1. go'[r] \in {go[r], Parked, Started} => go'[r] = go[r]
  BY DEF Parked, Started
<1>2. ~Resolve(r) /\ ~Walk(r)
  <2>1. Resolve(r) => go'[r].pc = "walk"
    BY <1>0 DEF Routine, Resolve
  <2>2. Walk(r) => go'[r].pc = "enqueue"
    BY <1>0 DEF Routine, Walk
  <2> QED  BY <2>1, <2>2
<1>3. ~Enqueue(r)
  BY <1>0 DEF Routine, Enqueue
<1>4. ~AllEnqueued(r) /\ ~ReviveCancelled(r)
  BY <1>0 DEF Routine, AllEnqueued, ReviveCancelled, Goto
<1>5. ~Gather(r)
  BY <1>0 DEF Routine, Gather
<1>6. ~AllGathered(r) /\ ~CheckpointReduce(r)
  BY <1>0 DEF Routine, AllGathered, CheckpointReduce, Goto
<1>7. ~Conflict(r) /\ ~Commit(r)
  BY <1>0 DEF Routine, Conflict, Commit
<1>8. ~Collect(r) /\ ~CollectFails(r) /\ ~CollectNothing(r)
  BY <1>0 DEF Routine, Collect, CollectFails, CollectNothing
<1> QED  BY <1>1, <1>2, <1>3, <1>4, <1>5, <1>6, <1>7, <1>8, RunFrame DEF Acts

(* Every step preserves CleanBatches: what a reduce has staged was there   *)
(* and parsed.                                                             *)
LEMMA CleanBatchesNext ==
  ASSUME TypeOK, Held, CleanArtifacts, CleanBatches, [Next]_vars
  PROVE  CleanBatches'
<1> SUFFICES ASSUME NEW r \in Runs, go'[r].pc = "load",
                    NEW f \in Batch(r)' \ go'[r].todo
             PROVE  go'[r].staged[f].ver \notin Unusable
  BY DEF CleanBatches, Unusable
<1>1. CASE go[r].pc = "load" /\ go'[r] = go[r]
  BY <1>1, BatchFrame DEF CleanBatches
<1>2. CASE Load(r)
  <2>1. f \in Batch(r) /\ go[r].pc = "load" /\ f \in Files
    BY <1>2, BatchFrame, BatchType DEF Load
  <2>2. f \in go[r].todo => f = Least(go[r].todo)
    BY <1>2 DEF TypeOK, Routine, Load
  <2>3. CASE f \notin go[r].todo
    <3>1. f # Least(go[r].todo)
      BY <1>2, <2>3, FirstOf DEF Load
    <3>2. go'[r].staged[f] = go[r].staged[f]
      BY <1>2, <2>1, <3>1 DEF TypeOK, Routine, Load
    <3> QED  BY <2>1, <2>3, <3>2 DEF CleanBatches
  <2>4. CASE f = Least(go[r].todo) /\ f \in go[r].todo
    <3>1. go'[r].staged[f] = art[owner[r]][f] /\ art[owner[r]][f] # NoFacts
      BY <1>2, <2>1, <2>4 DEF TypeOK, Routine, Load
    <3> QED  BY <2>1, <3>1 DEF TypeOK, CleanArtifacts
  <2> QED  BY <2>2, <2>3, <2>4
<1>3. CASE Reduce(r)
  <2>1. Batch(r)' = Batch(r)
    BY <1>3 DEF Reduce, Batch
  <2>2. go'[r].todo = Batch(r)
    BY <1>3 DEF TypeOK, Routine, Reduce
  <2> QED  BY <2>1, <2>2
<1> QED  BY <1>1, <1>2, <1>3, LoadFrame

(* Every step preserves NoPoisonLoaded, given clean batches. *)
LEMMA NoPoisonNext ==
  ASSUME TypeOK, CleanBatches, NoPoisonLoaded, [Next]_vars
  PROVE  NoPoisonLoaded'
<1> SUFFICES ASSUME NEW f \in Files, graph'[f].run # NoRun
             PROVE  graph'[f].ver \notin Unusable
  BY DEF NoPoisonLoaded, Unusable
<1>1. CASE UNCHANGED graph
  BY <1>1 DEF NoPoisonLoaded, Unusable
<1>2. ASSUME NEW r \in Runs, Commit(r) \/ CommitInDoubt(r), graph' = Committed(r)
      PROVE  graph'[f].ver \notin Unusable
  <2>1. go[r].pc = "load" /\ go[r].todo = {}
    BY <1>2 DEF Commit, CommitInDoubt
  <2>2. f \in Batch(r) => go[r].staged[f].ver \notin Unusable
    BY <2>1 DEF CleanBatches
  <2> QED  BY <1>2, <2>2 DEF Committed, NoPoisonLoaded, Unusable
<1> QED  BY <1>1, <1>2, GraphFrame

(* What workers publish, artifacts hold and batches stage was there and    *)
(* parsed.                                                                 *)
LEMMA CleanInvariant == Spec => []Clean
<1>1. Init => Clean
  <2> SUFFICES ASSUME Init PROVE Clean  OBVIOUS
  <2>1. CleanWorkers
    BY DEF Init, CleanWorkers, Idle
  <2>2. CleanArtifacts
    BY DEF Init, CleanArtifacts
  <2>3. CleanBatches
    BY DEF Init, CleanBatches, Parked
  <2>4. NoPoisonLoaded
    BY DEF Init, NoPoisonLoaded, NoRow, NoRun
  <2> QED  BY <2>1, <2>2, <2>3, <2>4 DEF Clean
<1>2. Inductive /\ Clean /\ [Next]_vars => Clean'
  BY CleanWorkersNext, CleanArtifactsNext, CleanBatchesNext, NoPoisonNext DEF Inductive, Clean
<1> QED  BY <1>1, <1>2, InductiveInvariant, PTL DEF Spec

(* A file that could not be read or parsed never replaces the facts of its *)
(* last good load.                                                         *)
THEOREM PoisonIsNeverLoaded == Spec => []NoPoisonLoaded
<1>1. Clean => NoPoisonLoaded
  BY DEF Clean
<1> QED  BY <1>1, CleanInvariant, PTL
-----------------------------------------------------------------------------
(* Who writes what: the tree is edited, a run gets its target when it is   *)
(* minted, its base when it walks, an artifact is published by a worker    *)
(* and removed by a reduce that collects, and the graph is written by      *)
(* commits.                                                                *)
LEMMA Writers ==
  ASSUME [Next]_vars
  PROVE  /\ UNCHANGED tree \/ \E t \in Targets : \E f \in Files : EditFile(t, f)
         /\ UNCHANGED <<owner, rivals>> \/ StartRun
         /\ UNCHANGED base \/ \E r \in Runs : Walk(r)
         /\ UNCHANGED art \/ \E r \in Runs : Collect(r) \/ \E i \in Slots : WriteArtifact(r, i)
         /\ UNCHANGED <<graph, committed>> \/ \E r \in Runs : Commit(r) \/ CommitInDoubt(r)
<1> DEFINE Others == /\ UNCHANGED tree \/ \E t \in Targets : \E f \in Files : EditFile(t, f)
                     /\ UNCHANGED <<owner, rivals>> \/ StartRun
<1> DEFINE Bases == UNCHANGED base \/ \E r \in Runs : Walk(r)
<1> DEFINE Arts == UNCHANGED art \/ \E r \in Runs : Collect(r) \/ \E i \in Slots : WriteArtifact(r, i)
<1> DEFINE Graphs == UNCHANGED <<graph, committed>> \/ \E r \in Runs : Commit(r) \/ CommitInDoubt(r)
<1>1. ASSUME NEW q \in Runs, IndexRepo(q) PROVE Others /\ Bases /\ Arts /\ Graphs
  BY <1>1
  DEF IndexRepo, DequeueRun, Resolve, NoManifest, Walk, Enqueue, AllEnqueued, ReviveCancelled,
      Gather, AllGathered, Reduce, Load, LoadMissing, Commit, Collect, CheckpointReduce, Complete
<1>2. ASSUME NEW q \in Runs, NEW j \in Slots, MapTask(q, j) PROVE Others /\ Bases /\ Arts /\ Graphs
  BY <1>2
  DEF MapTask, DequeueTask, ReadFile, ReadFails, WriteArtifact, CheckpointKey,
      CheckpointParseError, FinishTask
<1>3. Process => Others /\ Bases /\ Arts /\ Graphs
  BY DEF Process, Launch, ListPending, ListEnqueued, ResumeCancelled, StartRun, AwaitResult, Exit, Die
<1>4. Disturb => Others /\ Bases /\ Arts /\ Graphs
  BY DEF Disturb, Interrupt, Crash, Die, StartFails, EditManifest, EditFile, CancelRun,
      AwaitCancelled, StepFails, Conflict, ReduceFails, CommitInDoubt, CollectFails,
      CollectNothing, CancelTask, WriteFails
<1> QED  BY <1>1, <1>2, <1>3, <1>4 DEF Next, vars

(* A run's own actions are taken by a goroutine that is executing it, and  *)
(* leave its status and every other run's checkpoints and locals alone.    *)
LEMMA ActsFrame ==
  ASSUME TypeOK, NEW q \in Runs, Acts(q)
  PROVE  /\ go[q].pc # "idle"
         /\ UNCHANGED <<status, owner, rivals, work, cli, tree>>
         /\ \A r \in Runs \ {q} : log'[r] = log[r] /\ go'[r] = go[r]
<1>1. go[q].pc # "idle"
  BY DEF Acts, Resolve, Walk, Enqueue, AllEnqueued, ReviveCancelled, Gather,
         AllGathered, Reduce, Conflict, Load, Commit, Collect, CollectFails, CollectNothing,
         CheckpointReduce
<1>2. UNCHANGED <<status, owner, rivals, work, cli, tree>>
  BY DEF Acts, Resolve, Walk, Enqueue, AllEnqueued, ReviveCancelled, Gather,
         AllGathered, Reduce, Conflict, Load, Commit, Collect, CollectFails, CollectNothing,
         CheckpointReduce
<1>3. \A r \in Runs \ {q} : log'[r] = log[r] /\ go'[r] = go[r]
  BY DEF TypeOK, Acts, Resolve, Walk, Enqueue, AllEnqueued, ReviveCancelled, Gather,
         AllGathered, Reduce, Conflict, Load, Commit, Collect, CollectFails, CollectNothing,
         CheckpointReduce, Goto
<1> QED  BY <1>1, <1>2, <1>3

(* The run start resumes has the status it was listed by. *)
LEMMA FoundStatus ==
  ASSUME NEW st, Found(st) # {}
  PROVE  Least(Found(st)) \in Runs /\ status[Least(Found(st))] = st
<1>1. Least(Found(st)) \in Found(st)
  BY LeastIn, OrderAssumption DEF Found
<1> QED  BY <1>1 DEF Found

\* The goroutine of a run returns, or is cancelled.
Returns(r) == /\ go[r].pc # "idle"
              /\ \E st \in {"ERROR", "SUCCESS", "CANCELLED"} : Return(r, st)
              /\ UNCHANGED <<owner, rivals, log, task, work, base>>

(* A step is one run's own action, ends or starts its goroutine, starts    *)
(* all that are PENDING, parks all, or leaves runs and goroutines alone.   *)
LEMMA Turns ==
  ASSUME [Next]_vars
  PROVE  \/ UNCHANGED <<status, go, log>>
         \/ \E r \in Runs : Acts(r) \/ Returns(r) \/ DequeueRun(r)
         \/ \E t \in Targets : Launch(t)
         \/ ResumeCancelled \/ StartRun \/ Die
<1> DEFINE Turn == \/ UNCHANGED <<status, go, log>>
                   \/ \E r \in Runs : Acts(r) \/ Returns(r) \/ DequeueRun(r)
                   \/ \E t \in Targets : Launch(t)
                   \/ ResumeCancelled \/ StartRun \/ Die
<1>1. ASSUME NEW q \in Runs, IndexRepo(q) PROVE Turn
  BY <1>1 DEF IndexRepo, Acts, NoManifest, LoadMissing, Complete, Returns
<1>2. ASSUME NEW q \in Runs, NEW j \in Slots, MapTask(q, j) PROVE Turn
  BY <1>2
  DEF MapTask, DequeueTask, ReadFile, ReadFails, WriteArtifact, CheckpointKey,
      CheckpointParseError, FinishTask
<1>3. Process => Turn
  BY DEF Process, ListPending, ListEnqueued, AwaitResult, Exit
<1>4. Disturb => Turn
  <2>1. ASSUME NEW q \in Runs, CancelRun(q) \/ AwaitCancelled(q) \/ StepFails(q)
                               \/ ReduceFails(q) \/ CommitInDoubt(q)
        PROVE  Returns(q)
    BY <2>1 DEF CancelRun, AwaitCancelled, StepFails, ReduceFails, CommitInDoubt, Returns, Return
  <2> QED
    BY <2>1 DEF Disturb, Interrupt, Crash, StartFails, EditManifest, EditFile, CancelTask,
         WriteFails, Acts
<1> QED  BY <1>1, <1>2, <1>3, <1>4 DEF Next, vars
-----------------------------------------------------------------------------
(* Every step preserves Executing: only a PENDING run has a goroutine.     *)
LEMMA ExecutingNext ==
  ASSUME TypeOK, Executing, [Next]_vars
  PROVE  Executing'
<1> USE DEF TypeOK, Executing
<1>1. CASE UNCHANGED <<status, go, log>>
  BY <1>1
<1>2. ASSUME NEW q \in Runs, Acts(q) PROVE Executing'
  BY <1>2, ActsFrame
<1>3. ASSUME NEW q \in Runs, Returns(q) PROVE Executing'
  BY <1>3 DEF Returns, Return, Parked
<1>4. ASSUME NEW q \in Runs, DequeueRun(q) PROVE Executing'
  BY <1>4 DEF DequeueRun
<1>5. ASSUME NEW t \in Targets, Launch(t) PROVE Executing'
  BY <1>5 DEF Launch
<1>6. CASE ResumeCancelled
  <2>1. Least(Found("CANCELLED")) \in Runs /\ go[Least(Found("CANCELLED"))].pc = "idle"
    BY <1>6, FoundStatus DEF ResumeCancelled
  <2> QED  BY <1>6, <2>1 DEF ResumeCancelled
<1>7. CASE StartRun
  BY <1>7 DEF StartRun
<1>8. CASE Die
  BY <1>8 DEF Die, Parked
<1> QED  BY <1>1, <1>2, <1>3, <1>4, <1>5, <1>6, <1>7, <1>8, Turns

(* Every step preserves Begun: a run not yet minted has walked nothing.    *)
LEMMA BegunNext ==
  ASSUME TypeOK, Executing, Begun, [Next]_vars
  PROVE  Begun'
<1> USE DEF TypeOK, Begun
<1>1. CASE UNCHANGED <<status, go, log>>
  BY <1>1
<1>2. ASSUME NEW q \in Runs, Acts(q) PROVE Begun'
  BY <1>2, ActsFrame DEF Executing
<1>3. ASSUME NEW q \in Runs, Returns(q) PROVE Begun'
  BY <1>3 DEF Returns, Return
<1>4. ASSUME NEW q \in Runs, DequeueRun(q) PROVE Begun'
  BY <1>4 DEF DequeueRun
<1>5. ASSUME NEW t \in Targets, Launch(t) PROVE Begun'
  BY <1>5 DEF Launch
<1>6. CASE ResumeCancelled
  BY <1>6, FoundRun DEF ResumeCancelled, Found
<1>7. CASE StartRun
  BY <1>7 DEF StartRun
<1>8. CASE Die
  BY <1>8 DEF Die
<1> QED  BY <1>1, <1>2, <1>3, <1>4, <1>5, <1>6, <1>7, <1>8, Turns

(* The coordinate of a run's resolve step never changes once it is known.  *)
LEMMA SiteFrame ==
  ASSUME TypeOK, [Next]_vars, NEW r \in Runs
  PROVE  log[r].site # 0 => log'[r].site = log[r].site
<1>1. CASE log'[r] = log[r]
  BY <1>1
<1>2. CASE Resolve(r)
  BY <1>2 DEF TypeOK, Resolve, Site, Ledger
<1>3. CASE Walk(r)
  BY <1>3 DEF TypeOK, Walk, Ledger
<1>4. CASE Gather(r)
  BY <1>4 DEF TypeOK, Gather, Ledger
<1>5. CASE CheckpointReduce(r)
  BY <1>5 DEF TypeOK, CheckpointReduce, Ledger
<1> QED
  BY <1>1, <1>2, <1>3, <1>4, <1>5, RunFrame
  DEF Acts, Enqueue, AllEnqueued, ReviveCancelled, AllGathered, Reduce, Conflict, Load, Commit,
      Collect, CollectFails, CollectNothing

(* Every step preserves Sited: past its resolve step a run works with the  *)
(* coordinate that is checkpointed.                                        *)
LEMMA SitedNext ==
  ASSUME TypeOK, Sited, [Next]_vars
  PROVE  Sited'
<1> SUFFICES ASSUME NEW r \in Runs
             PROVE  /\ go'[r].pc \in {"walk"} \cup Walked =>
                         go'[r].site = log'[r].site /\ log'[r].site # 0
                    /\ log'[r].walked => log'[r].site # 0
  BY DEF Sited
<1>0. /\ go[r] \in Routine /\ log[r] \in Ledger
      /\ go[r].pc \in {"walk"} \cup Walked => go[r].site = log[r].site /\ log[r].site # 0
      /\ log[r].walked => log[r].site # 0
  BY DEF TypeOK, Sited
<1>1. CASE log'[r] = log[r] /\ go'[r] \in {go[r], Parked, Started}
  BY <1>0, <1>1 DEF Parked, Started, Walked, Reducing
<1>2. CASE Resolve(r)
  BY <1>0, <1>2 DEF TypeOK, Resolve, Routine, Ledger
<1>3. CASE Walk(r)
  BY <1>0, <1>3 DEF TypeOK, Walk, Routine, Ledger, Walked, Reducing
<1>4. CASE Gather(r)
  BY <1>0, <1>4 DEF TypeOK, Gather, Routine, Ledger, Walked, Reducing
<1>5. CASE CheckpointReduce(r)
  BY <1>0, <1>5 DEF TypeOK, CheckpointReduce, Goto, Routine, Ledger, Walked, Reducing
<1>6. CASE Enqueue(r)
  BY <1>0, <1>6 DEF TypeOK, Enqueue, Routine, Walked, Reducing
<1>7. CASE AllEnqueued(r)
  BY <1>0, <1>7 DEF TypeOK, AllEnqueued, Goto, Routine, Walked, Reducing
<1>8. CASE ReviveCancelled(r)
  BY <1>0, <1>8 DEF TypeOK, ReviveCancelled, Routine, Walked, Reducing
<1>9. CASE AllGathered(r)
  BY <1>0, <1>9 DEF TypeOK, AllGathered, Goto, Routine, Walked, Reducing
<1>10. CASE Reduce(r)
  BY <1>0, <1>10 DEF TypeOK, Reduce, Routine, Walked, Reducing
<1>11. CASE Conflict(r)
  BY <1>0, <1>11 DEF TypeOK, Conflict, Routine, Walked, Reducing
<1>12. CASE Load(r)
  BY <1>0, <1>12 DEF TypeOK, Load, Routine, Walked, Reducing
<1>13. CASE Commit(r)
  BY <1>0, <1>13 DEF TypeOK, Commit, Routine, Walked, Reducing
<1>14. CASE Collect(r) \/ CollectFails(r) \/ CollectNothing(r)
  BY <1>0, <1>14 DEF TypeOK, Collect, CollectFails, CollectNothing, Routine, Walked, Reducing
<1> QED
  BY <1>1, <1>2, <1>3, <1>4, <1>5, <1>6, <1>7, <1>8, <1>9, <1>10, <1>11, <1>12, <1>13, <1>14,
     RunFrame DEF Acts

(* A map task's coordinate is written when it is enqueued, its verdict by  *)
(* the worker that has finished with its file.                             *)
LEMMA ChildFrame ==
  ASSUME TypeOK, [Next]_vars, NEW r \in Runs, NEW i \in Slots
  PROVE  \/ Enqueue(r) /\ i = go[r].pos /\ task[r][i].status = "NONE"
         \/ /\ task'[r][i].coord = task[r][i].coord
            /\ task'[r][i].ck = task[r][i].ck \/ CheckpointKey(r, i) \/ CheckpointParseError(r, i)
<1> DEFINE Fine == \/ Enqueue(r) /\ i = go[r].pos /\ task[r][i].status = "NONE"
                   \/ /\ task'[r][i].coord = task[r][i].coord
                      /\ task'[r][i].ck = task[r][i].ck \/ CheckpointKey(r, i) \/ CheckpointParseError(r, i)
<1>1. UNCHANGED task => Fine
  OBVIOUS
<1>2. ASSUME NEW q \in Runs, NEW j \in Slots, NEW st, task' = [task EXCEPT ![q][j].status = st]
      PROVE  Fine
  BY <1>2 DEF TypeOK, Child
<1>3. ASSUME NEW t \in Targets, Launch(t) PROVE Fine
  BY <1>3 DEF TypeOK, Launch, Child
<1>4. ASSUME NEW q \in Runs, ReviveCancelled(q) PROVE Fine
  BY <1>4 DEF TypeOK, ReviveCancelled, Child
<1>5. ASSUME NEW q \in Runs, Enqueue(q) PROVE Fine
  BY <1>5 DEF TypeOK, Enqueue, Child
<1>6. ASSUME NEW q \in Runs, NEW j \in Slots, NEW v, task' = [task EXCEPT ![q][j].ck = v],
              r # q \/ i # j \/ CheckpointKey(r, i) \/ CheckpointParseError(r, i)
      PROVE  Fine
  BY <1>6 DEF TypeOK, Child
<1>7. ASSUME NEW q \in Runs, NEW j \in Slots, CheckpointKey(q, j) PROVE Fine
  BY <1>7, <1>6 DEF CheckpointKey
<1>8. ASSUME NEW q \in Runs, NEW j \in Slots, CheckpointParseError(q, j) PROVE Fine
  BY <1>8, <1>6 DEF CheckpointParseError
<1>9. ASSUME NEW q \in Runs, IndexRepo(q) PROVE Fine
  BY <1>9, <1>1, <1>4, <1>5
  DEF IndexRepo, DequeueRun, Resolve, NoManifest, Walk, AllEnqueued, Gather,
      AllGathered, Reduce, Load, LoadMissing, Commit, Collect, CheckpointReduce, Complete
<1>10. ASSUME NEW q \in Runs, NEW j \in Slots, MapTask(q, j) PROVE Fine
  <2>1. DequeueTask(q, j) => Fine
    BY <1>2 DEF DequeueTask
  <2>2. ReadFile(q, j) \/ WriteArtifact(q, j) => Fine
    BY <1>1 DEF ReadFile, WriteArtifact
  <2>3. ReadFails(q, j) \/ FinishTask(q, j) => Fine
    BY <1>2 DEF ReadFails, FinishTask, FailTask
  <2> QED  BY <1>10, <1>7, <1>8, <2>1, <2>2, <2>3 DEF MapTask
<1>11. Process => Fine
  BY <1>1, <1>3
  DEF Process, ListPending, ListEnqueued, ResumeCancelled, StartRun, AwaitResult, Exit, Die
<1>12. ASSUME NEW q \in Runs, NEW j \in Slots, CancelTask(q, j) \/ WriteFails(q, j) PROVE Fine
  BY <1>12, <1>2 DEF CancelTask, WriteFails, FailTask
<1>13. Disturb => Fine
  BY <1>1, <1>12
  DEF Disturb, Interrupt, Crash, Die, StartFails, EditManifest, EditFile, CancelRun,
      AwaitCancelled, StepFails, Conflict, ReduceFails, CommitInDoubt, CollectFails, CollectNothing
<1> QED  BY <1>1, <1>9, <1>10, <1>11, <1>13 DEF Next, vars

(* Every step preserves Stamped: a map task carries the coordinate its run *)
(* froze.                                                                  *)
LEMMA StampedNext ==
  ASSUME TypeOK, Held, Numbered, Sited, Stamped, [Next]_vars
  PROVE  Stamped'
<1> SUFFICES ASSUME NEW r \in Runs, NEW i \in Slots
             PROVE  IF task'[r][i].status = "NONE" THEN task'[r][i].ck = "none"
                    ELSE task'[r][i].coord = log'[r].site
  BY DEF Stamped
<1>1. CASE Enqueue(r) /\ i = go[r].pos /\ task[r][i].status = "NONE"
  <2>1. go[r].site = log[r].site /\ log' = log
    BY <1>1 DEF Enqueue, Sited, Walked
  <2>2. task'[r][i].status = "ENQUEUED" /\ task'[r][i].coord = go[r].site
    BY <1>1 DEF Enqueue, TypeOK
  <2> QED  BY <2>1, <2>2
<1>2. CASE ~(Enqueue(r) /\ i = go[r].pos /\ task[r][i].status = "NONE")
  <2>1. /\ (task'[r][i].status = "NONE") = (task[r][i].status = "NONE")
        /\ task'[r][i].coord = task[r][i].coord
        /\ task'[r][i].ck = task[r][i].ck \/ CheckpointKey(r, i) \/ CheckpointParseError(r, i)
    BY <1>2, TaskFrame, ChildFrame DEF Keeps
  <2>2. CheckpointKey(r, i) \/ CheckpointParseError(r, i) => task[r][i].status # "NONE"
    BY DEF CheckpointKey, CheckpointParseError, Held
  <2>3. task[r][i].status # "NONE" => log'[r].site = log[r].site
    BY SiteFrame DEF Numbered, Sited
  <2> QED  BY <2>1, <2>2, <2>3 DEF Stamped
<1> QED  BY <1>1, <1>2

(* A worker is idle or at its start, has just read its file or published   *)
(* its artifact, or stands where it stood.                                 *)
LEMMA WorkFrame ==
  ASSUME TypeOK, [Next]_vars, NEW r \in Runs, NEW i \in Slots
  PROVE  \/ work'[r][i] = work[r][i] \/ work'[r][i].at \in {"idle", "started"}
         \/ ReadFile(r, i) \/ WriteArtifact(r, i)
<1> DEFINE Fine == \/ work'[r][i] = work[r][i] \/ work'[r][i].at \in {"idle", "started"}
                   \/ ReadFile(r, i) \/ WriteArtifact(r, i)
<1>1. UNCHANGED work => Fine
  OBVIOUS
<1>2. ASSUME NEW q \in Runs, NEW j \in Slots, work' = [work EXCEPT ![q][j] = Idle] PROVE Fine
  BY <1>2 DEF TypeOK, Idle
<1>3. ASSUME NEW q \in Runs, NEW j \in Slots, work' = [work EXCEPT ![q][j].at = "started"] PROVE Fine
  BY <1>3 DEF TypeOK, Worker
<1>4. ASSUME NEW q \in Runs, NEW j \in Slots, ReadFile(q, j) PROVE Fine
  BY <1>4 DEF TypeOK, ReadFile
<1>5. ASSUME NEW q \in Runs, NEW j \in Slots, WriteArtifact(q, j) PROVE Fine
  BY <1>5 DEF TypeOK, WriteArtifact
<1>6. ASSUME NEW q \in Runs, NEW j \in Slots, MapTask(q, j) PROVE Fine
  BY <1>6, <1>2, <1>3, <1>4, <1>5
  DEF MapTask, DequeueTask, ReadFails, CheckpointKey, CheckpointParseError, FinishTask, FailTask
<1>7. ASSUME NEW q \in Runs, IndexRepo(q) PROVE Fine
  BY <1>7, <1>1
  DEF IndexRepo, DequeueRun, Resolve, NoManifest, Walk, Enqueue, AllEnqueued, ReviveCancelled,
      Gather, AllGathered, Reduce, Load, LoadMissing, Commit, Collect, CheckpointReduce, Complete
<1>8. Die => Fine
  BY DEF Die, Idle
<1>9. Process => Fine
  BY <1>1, <1>8
  DEF Process, Launch, ListPending, ListEnqueued, ResumeCancelled, StartRun, AwaitResult, Exit
<1>10. Disturb => Fine
  <2>1. ASSUME NEW q \in Runs, NEW j \in Slots, CancelTask(q, j) \/ WriteFails(q, j) PROVE Fine
    BY <2>1, <1>2 DEF CancelTask, WriteFails, FailTask
  <2> QED
    BY <1>1, <1>8, <2>1
    DEF Disturb, Interrupt, Crash, StartFails, EditManifest, EditFile, CancelRun, AwaitCancelled,
        StepFails, Conflict, ReduceFails, CommitInDoubt, CollectFails, CollectNothing
<1> QED  BY <1>1, <1>6, <1>7, <1>9, <1>10 DEF Next, vars

(* A busy worker, and a task once enqueued, are for a file of the walk.    *)
LEMMA TaskFile ==
  ASSUME TypeOK, Numbered, NEW r \in Runs, NEW i \in Slots, task[r][i].status # "NONE"
  PROVE  /\ log[r].walked /\ i \in 1..Len(log[r].walk)
         /\ task[r][i].file = log[r].walk[i] /\ task[r][i].file \in Files
<1>1. log[r].walk \in Seq(Files) /\ i \in 1..Len(log[r].walk)
  BY SlotsNat DEF TypeOK, Ledger, Numbered
<1> QED  BY <1>1 DEF Numbered

(* A run that has walked keeps its target and what its walk saw.           *)
LEMMA WalkedFrame ==
  ASSUME TypeOK, Begun, [Next]_vars, NEW r \in Runs, log[r].walked
  PROVE  owner'[r] = owner[r] /\ base'[r] = base[r]
<1>1. owner'[r] = owner[r]
  <2>1. CASE StartRun
    <3>1. PICK q \in Runs : status[q] = "NONE" /\ owner' = [owner EXCEPT ![q] = cli.target]
      BY <2>1 DEF StartRun
    <3>2. q # r
      BY <3>1 DEF Begun
    <3> QED  BY <3>1, <3>2 DEF TypeOK
  <2> QED  BY <2>1, Writers
<1>2. base'[r] = base[r]
  <2>1. ASSUME NEW q \in Runs, Walk(q) PROVE base'[r] = base[r]
    BY <2>1 DEF TypeOK, Walk
  <2> QED  BY <2>1, Writers
<1> QED  BY <1>1, <1>2

(* Contents are numbers, in the order of time.                             *)
LEMMA VersionsNat == Versions \subseteq Nat /\ Content \subseteq Nat
  BY DataAssumption DEF Content

(* A file's content, and what a walk saw of it, are numbers.               *)
LEMMA ContentNat ==
  ASSUME TypeOK
  PROVE  /\ \A t \in Targets : \A f \in Files : tree[t][f] \in Nat
         /\ \A r \in Runs : \A f \in Files : base[r][f] \in Nat
<1>1. \A t \in Targets : \A f \in Files : tree[t][f] \in Versions
  BY DEF TypeOK
<1>2. \A r \in Runs : \A f \in Files : base[r][f] \in Content
  BY DEF TypeOK
<1> QED  BY <1>1, <1>2, VersionsNat

(* A file's content only ever grows newer.                                 *)
LEMMA TreeGrows ==
  ASSUME TypeOK, [Next]_vars, NEW t \in Targets, NEW f \in Files
  PROVE  /\ tree[t][f] \in Nat /\ tree'[t][f] \in Nat
         /\ tree[t][f] <= tree'[t][f]
<1>1. tree[t][f] \in Nat
  BY ContentNat
<1>2. ASSUME NEW u \in Targets, NEW g \in Files, EditFile(u, g)
      PROVE  tree'[t][f] \in Nat /\ tree[t][f] <= tree'[t][f]
  BY <1>1, <1>2, VersionsNat DEF TypeOK, EditFile
<1> QED  BY <1>1, <1>2, Writers

(* Every step preserves Since: no worker of a run holds a content older    *)
(* than the run's walk saw.                                                *)
LEMMA SinceNext ==
  ASSUME TypeOK, Held, Numbered, Judged, Gathered, Begun, Since, [Next]_vars, TypeOK', Numbered'
  PROVE  Since'
<1> SUFFICES ASSUME NEW r \in Runs, log'[r].walked
             PROVE  /\ \A f \in Files : base'[r][f] <= tree'[owner'[r]][f]
                    /\ \A i \in Slots : work'[r][i].at \in {"read", "written"} =>
                         base'[r][task'[r][i].file] <= work'[r][i].ver
  BY DEF Since
<1>1. CASE log[r].walked
  <2>1. owner'[r] = owner[r] /\ base'[r] = base[r] /\ owner[r] \in Targets
    BY <1>1, WalkedFrame DEF TypeOK
  <2>2. ASSUME NEW f \in Files PROVE base'[r][f] <= tree'[owner'[r]][f]
    <3>1. base[r][f] \in Nat
      BY ContentNat
    <3>2. base[r][f] <= tree[owner[r]][f]
      BY <1>1 DEF Since
    <3>3. /\ tree[owner[r]][f] \in Nat /\ tree'[owner[r]][f] \in Nat
          /\ tree[owner[r]][f] <= tree'[owner[r]][f]
      BY <2>1, TreeGrows
    <3> QED  BY <2>1, <3>1, <3>2, <3>3
  <2>3. ASSUME NEW i \in Slots, work'[r][i].at \in {"read", "written"}
        PROVE  base'[r][task'[r][i].file] <= work'[r][i].ver
    <3>1. CASE work'[r][i] = work[r][i]
      <4>1. task[r][i].status = "PENDING"
        BY <2>3, <3>1 DEF Held
      <4>2. task'[r][i].file = task[r][i].file
        BY <4>1, TaskFrame DEF Keeps
      <4> QED  BY <1>1, <2>1, <2>3, <3>1, <4>2 DEF Since
    <3>2. CASE ReadFile(r, i)
      <4>1. task[r][i].status = "PENDING" /\ task' = task
        BY <3>2 DEF ReadFile, Held
      <4>2. task[r][i].file \in Files
        BY <4>1, TaskFile
      <4>3. work'[r][i].ver = tree[owner[r]][task[r][i].file]
        BY <3>2 DEF ReadFile, Source, TypeOK
      <4> QED  BY <1>1, <2>1, <4>1, <4>2, <4>3 DEF Since
    <3>3. CASE WriteArtifact(r, i)
      <4>1. work[r][i].at = "read" /\ task' = task
        BY <3>3 DEF WriteArtifact
      <4>2. work'[r][i].ver = work[r][i].ver
        BY <3>3 DEF WriteArtifact, TypeOK, Worker
      <4> QED  BY <1>1, <2>1, <4>1, <4>2 DEF Since
    <3> QED  BY <2>3, <3>1, <3>2, <3>3, WorkFrame
  <2> QED  BY <2>2, <2>3
<1>2. CASE ~log[r].walked
  <2>1. Walk(r)
    <3>1. Resolve(r) => (log'[r].walked => log[r].walked)
      BY DEF TypeOK, Resolve, Ledger
    <3>2. Gather(r) => (log'[r].walked => log[r].walked)
      BY DEF TypeOK, Gather, Ledger
    <3>3. CheckpointReduce(r) => (log'[r].walked => log[r].walked)
      BY DEF TypeOK, CheckpointReduce, Ledger
    <3> QED
      BY <1>2, <3>1, <3>2, <3>3, RunFrame
      DEF Acts, Enqueue, AllEnqueued, ReviveCancelled, AllGathered, Reduce, Conflict, Load, Commit,
          Collect, CollectFails, CollectNothing
  <2>2. base'[r] = tree[owner[r]] /\ tree' = tree /\ owner' = owner /\ work' = work
    BY <1>2, <2>1 DEF Walk, TypeOK
  <2>3. \A i \in Slots : work[r][i].at = "idle"
    BY <1>2 DEF Held, Numbered
  <2>4. \A f \in Files : tree[owner[r]][f] \in Nat
    BY ContentNat DEF TypeOK
  <2> QED  BY <2>2, <2>3, <2>4
<1> QED  BY <1>1, <1>2

(* What concludes a run's walk stays: a settled run stays settled.         *)
LEMMA SettledFrame ==
  ASSUME TypeOK, Numbered, Judged, Frozen, Gathered, [Next]_vars, NEW r \in Runs,
         log[r].walked, Settled(r)
  PROVE  log'[r].walked /\ Settled(r)'
<1>1. 1..Len(log[r].walk) \subseteq Slots
  BY SlotsNat DEF TypeOK, Ledger, Frozen, Slots
<1>2. log'[r].walked /\ log'[r].walk = log[r].walk
  BY LedgerFrame
<1>3. \A i \in 1..Len(log[r].walk) : log'[r].await[i] = log[r].await[i]
  BY <1>1, LedgerFrame DEF Settled
<1> QED  BY <1>2, <1>3 DEF Settled

(* Every step preserves Concluded: a run commits when all verdicts are in. *)
LEMMA ConcludedNext ==
  ASSUME TypeOK, Numbered, Judged, Frozen, Gathered, Concluded, [Next]_vars
  PROVE  Concluded'
<1> SUFFICES ASSUME NEW r \in committed' PROVE (log[r].walked /\ Settled(r))'
  BY DEF Concluded
<1>1. CASE r \in committed
  BY <1>1, SettledFrame DEF Concluded, TypeOK
<1>2. ASSUME NEW q \in Runs, Commit(q) \/ CommitInDoubt(q), r = q
      PROVE  (log[r].walked /\ Settled(r))'
  BY <1>2, SettledFrame DEF Commit, CommitInDoubt, Gathered, Reducing
<1>3. ASSUME NEW q \in Runs, Commit(q) \/ CommitInDoubt(q) PROVE committed' = committed \cup {q}
  BY <1>3 DEF Commit, CommitInDoubt
<1> QED  BY <1>1, <1>2, <1>3, Writers

(* Every step preserves Recorded: what is in the graph was committed.      *)
LEMMA RecordedNext ==
  ASSUME TypeOK, Recorded, [Next]_vars
  PROVE  Recorded'
<1> SUFFICES ASSUME NEW f \in Files, graph'[f].run # NoRun PROVE graph'[f].run \in committed'
  BY DEF Recorded
<1>1. ASSUME NEW q \in Runs, Commit(q) \/ CommitInDoubt(q) PROVE graph'[f].run \in committed'
  <2>1. graph' = Committed(q) /\ committed' = committed \cup {q}
    BY <1>1 DEF Commit, CommitInDoubt
  <2> QED  BY <2>1 DEF Committed, Recorded
<1> QED  BY <1>1, Writers DEF Recorded
-----------------------------------------------------------------------------
(* A run that may go on could go on before, or is being started.           *)
LEMMA UnfinishedFrame ==
  ASSUME TypeOK, Executing, [Next]_vars, NEW r \in Runs, status'[r] \in Unfinished
  PROVE  status[r] \in Unfinished \/ (StartRun /\ status[r] = "NONE")
<1> USE DEF TypeOK, Unfinished
<1>1. CASE UNCHANGED <<status, go, log>>
  BY <1>1
<1>2. ASSUME NEW q \in Runs, Acts(q) PROVE status[r] \in Unfinished
  BY <1>2, ActsFrame
<1>3. ASSUME NEW q \in Runs, Returns(q) PROVE status[r] \in Unfinished
  BY <1>3 DEF Returns, Return, Executing
<1>4. ASSUME NEW q \in Runs, DequeueRun(q) PROVE status[r] \in Unfinished
  BY <1>4 DEF DequeueRun
<1>5. ASSUME NEW t \in Targets, Launch(t) PROVE status[r] \in Unfinished
  BY <1>5 DEF Launch
<1>6. CASE ResumeCancelled
  BY <1>6, FoundStatus DEF ResumeCancelled
<1>7. CASE StartRun
  BY <1>7 DEF StartRun
<1>8. CASE Die
  BY <1>8 DEF Die
<1> QED  BY <1>1, <1>2, <1>3, <1>4, <1>5, <1>6, <1>7, <1>8, Turns

\* DBOS may execute the task.
Queued(c) == c.status \in {"ENQUEUED", "PENDING"}

(* A map task that may be executed could be before, or its run is putting  *)
(* it on the queue.                                                        *)
LEMMA QueueFrame ==
  ASSUME TypeOK, [Next]_vars, NEW r \in Runs, NEW i \in Slots, Queued(task'[r][i])
  PROVE  Queued(task[r][i]) \/ Enqueue(r) \/ ReviveCancelled(r)
<1> DEFINE Fine == Queued(task[r][i]) \/ Enqueue(r) \/ ReviveCancelled(r)
<1> USE DEF Queued
<1>1. UNCHANGED task => Fine
  OBVIOUS
<1>2. ASSUME NEW q \in Runs, NEW j \in Slots, NEW st \in {"SUCCESS", "ERROR", "CANCELLED"},
             task' = [task EXCEPT ![q][j].status = st]
      PROVE  Fine
  BY <1>2 DEF TypeOK, Child
<1>3. ASSUME NEW t \in Targets, Launch(t) PROVE Fine
  BY <1>3 DEF TypeOK, Launch, Child
<1>4. ASSUME NEW q \in Runs, ReviveCancelled(q) PROVE Fine
  BY <1>4 DEF TypeOK, ReviveCancelled
<1>5. ASSUME NEW q \in Runs, Enqueue(q) PROVE Fine
  BY <1>5 DEF TypeOK, Enqueue
<1>6. ASSUME NEW q \in Runs, NEW j \in Slots, NEW v \in Verdicts, task' = [task EXCEPT ![q][j].ck = v]
      PROVE  Fine
  BY <1>6 DEF TypeOK, Child
<1>7. ASSUME NEW q \in Runs, NEW j \in Slots, DequeueTask(q, j) PROVE Fine
  BY <1>7 DEF TypeOK, DequeueTask, Child
<1>8. ASSUME NEW q \in Runs, IndexRepo(q) PROVE Fine
  BY <1>8, <1>1, <1>4, <1>5
  DEF IndexRepo, DequeueRun, Resolve, NoManifest, Walk, AllEnqueued, Gather,
      AllGathered, Reduce, Load, LoadMissing, Commit, Collect, CheckpointReduce, Complete
<1>9. ASSUME NEW q \in Runs, NEW j \in Slots, MapTask(q, j) PROVE Fine
  BY <1>9, <1>1, <1>2, <1>6, <1>7
  DEF MapTask, ReadFile, ReadFails, WriteArtifact, CheckpointKey, CheckpointParseError,
      FinishTask, FailTask, Verdicts
<1>10. Process => Fine
  BY <1>1, <1>3
  DEF Process, ListPending, ListEnqueued, ResumeCancelled, StartRun, AwaitResult, Exit, Die
<1>11. ASSUME NEW q \in Runs, NEW j \in Slots, CancelTask(q, j) \/ WriteFails(q, j) PROVE Fine
  BY <1>11, <1>2 DEF CancelTask, WriteFails, FailTask
<1>12. Disturb => Fine
  BY <1>1, <1>11
  DEF Disturb, Interrupt, Crash, Die, StartFails, EditManifest, EditFile, CancelRun,
      AwaitCancelled, StepFails, Conflict, ReduceFails, CommitInDoubt, CollectFails, CollectNothing
<1> QED  BY <1>1, <1>8, <1>9, <1>10, <1>12 DEF Next, vars

(* A run that is alive was alive, or is being started.                     *)
LEMMA LiveFrame ==
  ASSUME TypeOK, Executing, [Next]_vars, NEW r \in Runs, Live(r)'
  PROVE  Live(r) \/ (StartRun /\ status[r] = "NONE")
<1>1. CASE status'[r] \in Unfinished
  BY <1>1, UnfinishedFrame DEF Live
<1>2. CASE \E i \in Slots : task'[r][i].status \in {"ENQUEUED", "PENDING"}
  <2>1. PICK i \in Slots : Queued(task'[r][i])
    BY <1>2 DEF Queued
  <2>2. Queued(task[r][i]) => Live(r)
    BY DEF Live, Queued
  <2>3. Enqueue(r) \/ ReviveCancelled(r) => Live(r)
    BY DEF Enqueue, ReviveCancelled, Executing, Live, Unfinished
  <2> QED  BY <2>1, <2>2, <2>3, QueueFrame
<1> QED  BY <1>1, <1>2 DEF Live

(* A goroutine or a worker keeps its run alive, and a run not yet minted   *)
(* is not.                                                                 *)
LEMMA Alive ==
  ASSUME TypeOK, Held, Numbered, Executing, Begun, NEW r \in Runs
  PROVE  /\ go[r].pc # "idle" => Live(r)
         /\ \A i \in Slots : work[r][i].at # "idle" => Live(r)
         /\ status[r] = "NONE" => ~Live(r)
<1>1. go[r].pc # "idle" => Live(r)
  BY DEF Executing, Live, Unfinished
<1>2. \A i \in Slots : work[r][i].at # "idle" => Live(r)
  BY DEF Held, Live
<1>3. status[r] = "NONE" => ~Live(r)
  BY DEF Begun, Numbered, Live, Unfinished
<1> QED  BY <1>1, <1>2, <1>3

(* Every step that starts no rival preserves Alone: at most one run of a   *)
(* tree is alive.                                                          *)
LEMMA AloneNext ==
  ASSUME TypeOK, Held, Numbered, Executing, Begun, Alone, [Next]_vars, ~rivals'
  PROVE  Alone'
<1> SUFFICES ASSUME NEW r \in Runs, NEW q \in Runs, owner'[r] = owner'[q],
                    Live(r)', Live(q)', r # q
             PROVE  FALSE
  BY DEF Alone
<1>1. CASE UNCHANGED <<owner, rivals>> /\ ~StartRun
  BY <1>1, LiveFrame DEF Alone
<1>2. CASE StartRun
  <2>1. PICK s \in Runs : /\ owner' = [owner EXCEPT ![s] = cli.target]
                          /\ status' = [status EXCEPT ![s] = "PENDING"]
    BY <1>2 DEF StartRun
  <2>2. \A p \in Runs : owner[p] = cli.target => ~Live(p)
    BY <1>2 DEF StartRun
  <2>3. \A p \in Runs : p # s /\ Live(p)' => Live(p)
    BY <1>2, <2>1 DEF StartRun, Live, TypeOK
  <2>4. \A p \in Runs : p # s => owner'[p] = owner[p]
    BY <2>1 DEF TypeOK
  <2>5. owner'[s] = cli.target
    BY <2>1 DEF TypeOK
  <2> QED  BY <2>2, <2>3, <2>4, <2>5 DEF Alone
<1> QED  BY <1>1, <1>2, Writers

(* A worker publishes nothing older than its run's walk saw, stamped with  *)
(* the run's coordinate.                                                   *)
LEMMA Publishes ==
  ASSUME TypeOK, Held, Numbered, Sited, Stamped, Since, NEW r \in Runs, NEW i \in Slots,
         WriteArtifact(r, i)
  PROVE  LET f == task[r][i].file
             a == [ver |-> work[r][i].ver, coord |-> task[r][i].coord]
         IN  /\ art' = [art EXCEPT ![owner[r]][f] = a] /\ f \in Files
             /\ a # NoFacts /\ a.coord = log[r].site /\ base[r][f] <= a.ver
<1>1. work[r][i].at = "read" /\ task[r][i].status # "NONE"
  BY DEF WriteArtifact, Held
<1>2. log[r].walked /\ task[r][i].file \in Files
  BY <1>1, TaskFile
<1>3. log[r].site # 0 /\ task[r][i].coord = log[r].site
  BY <1>1, <1>2 DEF Sited, Stamped
<1>4. base[r][task[r][i].file] <= work[r][i].ver
  BY <1>1, <1>2 DEF Since
<1> QED  BY <1>2, <1>3, <1>4 DEF WriteArtifact, NoFacts

(* A map task that is about to checkpoint its key, or has, was enqueued by *)
(* a run that is alive.                                                    *)
LEMMA ReadyLives ==
  ASSUME TypeOK, Held, Numbered, Stamped, NEW r \in Runs, NEW i \in Slots, Ready(r, i)
  PROVE  Live(r) /\ task[r][i].status # "NONE"
  BY DEF Ready, Held, Live, Stamped

(* A key is checkpointed only by a worker that has published its artifact. *)
LEMMA ReadyFrame ==
  ASSUME TypeOK, Held, Numbered, Executing, Begun, Stamped, [Next]_vars,
         NEW r \in Runs, NEW i \in Slots, Ready(r, i)'
  PROVE  Ready(r, i) \/ WriteArtifact(r, i)
<1>1. CASE work'[r][i].at = "written"
  <2>1. ReadFile(r, i) => work'[r][i].at = "read"
    BY DEF ReadFile, TypeOK
  <2> QED  BY <1>1, <2>1, WorkFrame DEF Ready
<1>2. CASE status'[r] \in Unfinished /\ task'[r][i].ck = "key"
  <2>1. ~(Enqueue(r) /\ i = go[r].pos /\ task[r][i].status = "NONE")
    BY <1>2 DEF Enqueue, TypeOK
  <2>2. ~CheckpointParseError(r, i)
    BY <1>2 DEF CheckpointParseError, TypeOK, Child
  <2>3. CASE CheckpointKey(r, i)
    BY <2>3 DEF CheckpointKey, Ready
  <2>4. CASE task[r][i].ck = "key"
    <3>1. status[r] # "NONE"
      BY <2>4 DEF Begun, Numbered, Stamped
    <3> QED  BY <1>2, <2>4, <3>1, UnfinishedFrame DEF Ready
  <2> QED  BY <1>2, <2>1, <2>2, <2>3, <2>4, ChildFrame
<1> QED  BY <1>1, <1>2 DEF Ready

(* The tasks of a run whose verdicts are all in are over.                  *)
LEMMA Rests ==
  ASSUME TypeOK, Held, Numbered, Judged, NEW r \in Runs, log[r].walked, Settled(r),
         NEW i \in Slots
  PROVE  work[r][i].at = "idle"
<1>1. SUFFICES ASSUME work[r][i].at # "idle" PROVE FALSE
  OBVIOUS
<1>2. task[r][i].status = "PENDING" /\ i \in 1..Len(log[r].walk)
  BY <1>1, TaskFile DEF Held
<1> QED  BY <1>2 DEF Settled, Judged, Earned

(* Every step preserves Kept: what a key names is there until its batch    *)
(* has committed, and was made for the run that holds the key.             *)
LEMMA KeptNext ==
  ASSUME Inductive, Executing, Begun, Sited, Stamped, Since, Alone, Kept, [Next]_vars
  PROVE  Kept'
<1> USE DEF Inductive
<1> SUFFICES ASSUME NEW r \in Runs, NEW i \in Slots, Ready(r, i)'
             PROVE  LET f == task'[r][i].file
                        a == art'[owner'[r]][f] IN
                    IF a = NoFacts THEN r \in committed'
                                   ELSE a.coord = log'[r].site /\ base'[r][f] <= a.ver
  BY DEF Kept
<1> DEFINE f == task[r][i].file
           a == art[owner[r]][f]
<1>1. CASE WriteArtifact(r, i)
  <2>1. UNCHANGED <<task, owner, log, base, committed>>
    BY <1>1 DEF WriteArtifact
  <2>2. owner[r] \in Targets
    BY DEF TypeOK
  <2> DEFINE b == [ver |-> work[r][i].ver, coord |-> task[r][i].coord]
  <2>3. /\ art' = [art EXCEPT ![owner[r]][f] = b] /\ f \in Files
        /\ b # NoFacts /\ b.coord = log[r].site /\ base[r][f] <= b.ver
    BY <1>1, Publishes
  <2> HIDE DEF b
  <2>4. art'[owner[r]][f] = b
    BY <2>2, <2>3 DEF TypeOK
  <2> QED  BY <2>1, <2>3, <2>4
<1>2. CASE Ready(r, i)
  <2>1. Live(r) /\ task[r][i].status # "NONE" /\ f \in Files /\ log[r].walked
    BY <1>2, ReadyLives, TaskFile
  <2>2. task'[r][i].file = f
    BY <2>1, TaskFrame DEF Keeps
  <2>3. owner'[r] = owner[r] /\ base'[r] = base[r] /\ owner[r] \in Targets
    BY <2>1, WalkedFrame DEF TypeOK
  <2>4. log'[r].site = log[r].site
    BY <2>1, SiteFrame DEF Sited
  <2>5. committed \subseteq committed'
    BY StatusFrame
  <2>6. IF a = NoFacts THEN r \in committed
                       ELSE a.coord = log[r].site /\ base[r][f] <= a.ver
    BY <1>2 DEF Kept
  <2> DEFINE Good == IF art'[owner[r]][f] = NoFacts THEN r \in committed
                     ELSE art'[owner[r]][f].coord = log[r].site /\ base[r][f] <= art'[owner[r]][f].ver
  <2>7. UNCHANGED art => Good
    BY <2>6
  <2>8. ASSUME NEW q \in Runs, NEW j \in Slots, WriteArtifact(q, j) PROVE Good
    <3>1. CASE owner[q] = owner[r] /\ task[q][j].file = f
      <4>1. work[q][j].at # "idle"
        BY <2>8 DEF WriteArtifact
      <4>2. q = r
        BY <2>1, <3>1, <4>1, Alive DEF Alone
      <4> DEFINE b == [ver |-> work[r][j].ver, coord |-> task[r][j].coord]
      <4>3. WriteArtifact(r, j) /\ task[r][j].file = f
        BY <2>8, <3>1, <4>2
      <4>4. /\ art' = [art EXCEPT ![owner[r]][f] = b]
            /\ b # NoFacts /\ b.coord = log[r].site /\ base[r][f] <= b.ver
        BY <4>3, Publishes
      <4> HIDE DEF b
      <4>5. art'[owner[r]][f] = b
        BY <2>1, <2>3, <4>4 DEF TypeOK
      <4> QED  BY <4>4, <4>5
    <3>2. CASE ~(owner[q] = owner[r] /\ task[q][j].file = f)
      <4>1. art'[owner[r]][f] = a
        BY <2>1, <2>3, <2>8, <3>2 DEF WriteArtifact, TypeOK
      <4> QED  BY <2>6, <4>1
    <3> QED  BY <3>1, <3>2
  <2>9. ASSUME NEW q \in Runs, Collect(q) PROVE Good
    <3>1. CASE owner[q] = owner[r]
      <4>1. go[q].pc = "collect" /\ q = r
        BY <2>1, <2>9, <3>1, Alive DEF Alone, Collect
      <4>2. r \in committed
        BY <4>1 DEF Reduced
      <4>3. art'[owner[r]][f] \in {a, NoFacts}
        BY <2>1, <2>3, <2>9 DEF Collect, TypeOK
      <4> QED  BY <2>6, <4>2, <4>3
    <3>2. CASE owner[q] # owner[r]
      <4>1. art'[owner[r]][f] = a
        BY <2>1, <2>3, <2>9, <3>2 DEF Collect, TypeOK
      <4> QED  BY <2>6, <4>1
    <3> QED  BY <3>1, <3>2
  <2>10. Good
    BY <2>7, <2>8, <2>9, Writers
  <2> QED  BY <2>2, <2>3, <2>4, <2>5, <2>10
<1> QED  BY <1>1, <1>2, ReadyFrame

(* What is in a batch was published by a task of its run that is over.     *)
LEMMA BatchTask ==
  ASSUME TypeOK, Numbered, Judged, NEW r \in Runs, NEW f \in Batch(r)
  PROVE  \E i \in Slots : /\ i \in 1..Len(log[r].walk) /\ log[r].await[i] = "key"
                          /\ task[r][i].file = f /\ task[r][i].ck = "key"
                          /\ task[r][i].status = "SUCCESS"
<1>1. PICK i \in Slots : log[r].await[i] = "key" /\ task[r][i].file = f
  BY DEF Batch
<1>2. task[r][i].ck = "key" /\ task[r][i].status = "SUCCESS"
  BY <1>1 DEF Judged, Earned
<1> QED  BY <1>1, <1>2, TaskFile

(* The batch of a run whose verdicts are all in is fixed.                  *)
LEMMA SettledBatch ==
  ASSUME Inductive, Inductive', [Next]_vars, NEW r \in Runs, log[r].walked, Settled(r)
  PROVE  Batch(r)' = Batch(r)
<1> USE DEF Inductive
<1>1. 1..Len(log[r].walk) \subseteq Slots
  BY SlotsNat DEF TypeOK, Ledger, Frozen, Slots
<1>2. log'[r].walk = log[r].walk /\ \A i \in 1..Len(log[r].walk) : log'[r].await[i] = log[r].await[i]
  BY <1>1, LedgerFrame DEF Settled
<1>3. \A i \in 1..Len(log[r].walk) : task'[r][i].file = task[r][i].file
  <2> TAKE i \in 1..Len(log[r].walk)
  <2>1. task[r][i].status # "NONE"
    BY <1>1 DEF Settled, Judged, Earned
  <2> QED  BY <1>1, <2>1, TaskFrame DEF Keeps
<1>4. ASSUME NEW f \in Batch(r) PROVE f \in Batch(r)'
  <2>1. PICK i \in Slots : i \in 1..Len(log[r].walk) /\ log[r].await[i] = "key" /\ task[r][i].file = f
    BY BatchTask
  <2>2. log'[r].await[i] = "key" /\ task'[r][i].file = f /\ f \in Files
    BY <1>2, <1>3, <2>1, BatchType
  <2> QED  BY <2>2 DEF Batch
<1>5. ASSUME NEW f \in Batch(r)' PROVE f \in Batch(r)
  <2>1. PICK i \in Slots : log'[r].await[i] = "key" /\ task'[r][i].file = f
    BY DEF Batch
  <2>2. i \in 1..Len(log'[r].walk)
    <3>1. task'[r][i].status = "SUCCESS"
      BY <2>1 DEF Judged, Earned
    <3>2. i <= Len(log'[r].walk)
      BY <3>1 DEF Numbered
    <3>3. i \in Nat \ {0} /\ Len(log'[r].walk) \in Nat
      BY <1>2, SlotsNat DEF TypeOK, Ledger
    <3> QED  BY <3>2, <3>3
  <2>3. log[r].await[i] = "key" /\ task[r][i].file = f /\ f \in Files
    BY <1>2, <1>3, <2>1, <2>2 DEF Batch
  <2> QED  BY <2>3 DEF Batch
<1> QED  BY <1>4, <1>5

(* While a run is alone on its tree and its tasks are over, an artifact of *)
(* the tree changes only by being removed, and only if the run collects.   *)
LEMMA QuietArtifacts ==
  ASSUME Inductive, Executing, Begun, Sited, Stamped, Since, Alone, [Next]_vars, NEW r \in Runs,
         Live(r), log[r].walked, Settled(r), NEW f \in Files
  PROVE  \/ art'[owner[r]][f] = art[owner[r]][f]
         \/ Collect(r) /\ art'[owner[r]][f] = NoFacts
<1> USE DEF Inductive
<1> DEFINE Fine == \/ art'[owner[r]][f] = art[owner[r]][f]
                   \/ Collect(r) /\ art'[owner[r]][f] = NoFacts
<1>1. owner \in [Runs -> Targets] /\ art \in [Targets -> [Files -> Facts]]
  BY DEF TypeOK
<1>2. ASSUME NEW q \in Runs, NEW j \in Slots, WriteArtifact(q, j) PROVE Fine
  <2>1. work[q][j].at # "idle"
    BY <1>2 DEF WriteArtifact
  <2>2. q # r
    BY <2>1, Rests
  <2>3. owner[q] # owner[r]
    BY <2>1, <2>2, Alive DEF Alone
  <2> QED  BY <1>1, <1>2, <2>3 DEF WriteArtifact
<1>3. ASSUME NEW q \in Runs, Collect(q) PROVE Fine
  <2>1. q # r => owner[q] # owner[r]
    BY <1>3, Alive DEF Alone, Collect
  <2> QED  BY <1>1, <1>3, <2>1 DEF Collect
<1> QED  BY <1>2, <1>3, Writers

(* Every step preserves Staged: what a reduce has read of its batch is     *)
(* what the artifacts hold.                                                *)
LEMMA StagedNext ==
  ASSUME Inductive, Executing, Begun, Sited, Stamped, Since, Alone, Staged, [Next]_vars
  PROVE  Staged'
<1> USE DEF Inductive
<1> SUFFICES ASSUME NEW r \in Runs, go'[r].pc = "load", NEW f \in Batch(r)' \ go'[r].todo
             PROVE  go'[r].staged[f] = art'[owner'[r]][f] /\ art'[owner'[r]][f] # NoFacts
  BY DEF Staged
<1>1. CASE go[r].pc = "load" /\ go'[r] = go[r]
  <2>1. log[r].walked /\ Settled(r) /\ Live(r)
    BY <1>1, Alive DEF Gathered, Reducing
  <2>2. f \in Batch(r) \ go[r].todo /\ f \in Files
    BY <1>1, BatchFrame, BatchType
  <2>3. owner'[r] = owner[r]
    BY <2>1, WalkedFrame
  <2>4. ~Collect(r)
    BY <1>1 DEF Collect
  <2> QED  BY <1>1, <2>1, <2>2, <2>3, <2>4, QuietArtifacts DEF Staged
<1>2. CASE Load(r)
  <2>1. /\ f \in Batch(r) /\ f \in Files /\ go[r].pc = "load"
        /\ UNCHANGED <<art, owner>> /\ owner[r] \in Targets
    BY <1>2, BatchFrame, BatchType DEF Load, TypeOK
  <2>2. f \in go[r].todo => f = Least(go[r].todo)
    BY <1>2 DEF TypeOK, Routine, Load
  <2>3. CASE f \notin go[r].todo
    <3>1. f # Least(go[r].todo)
      BY <1>2, <2>3, FirstOf DEF Load
    <3>2. go'[r].staged[f] = go[r].staged[f]
      BY <1>2, <2>1, <3>1 DEF TypeOK, Routine, Load
    <3> QED  BY <2>1, <2>3, <3>2 DEF Staged
  <2>4. CASE f = Least(go[r].todo) /\ f \in go[r].todo
    <3>1. go'[r].staged[f] = art[owner[r]][f] /\ art[owner[r]][f] # NoFacts
      BY <1>2, <2>1, <2>4 DEF TypeOK, Routine, Load
    <3> QED  BY <2>1, <3>1
  <2> QED  BY <2>2, <2>3, <2>4
<1>3. CASE Reduce(r)
  <2>1. Batch(r)' = Batch(r)
    BY <1>3 DEF Reduce, Batch
  <2>2. go'[r].todo = Batch(r)
    BY <1>3 DEF TypeOK, Routine, Reduce
  <2> QED  BY <2>1, <2>2
<1> QED  BY <1>1, <1>2, <1>3, LoadFrame

(* A batch is committed as its artifacts hold it. *)
LEMMA CommitsStaged ==
  ASSUME TypeOK, Staged, NEW q \in Runs, Commit(q) \/ CommitInDoubt(q), NEW f \in Files
  PROVE  /\ UNCHANGED <<art, owner, log, base>>
         /\ f \notin Batch(q) => graph'[f] = graph[f]
         /\ f \in Batch(q) => /\ art[owner[q]][f] # NoFacts
                              /\ graph'[f] = [run |-> q, ver |-> art[owner[q]][f].ver,
                                              coord |-> art[owner[q]][f].coord]
<1>1. go[q].pc = "load" /\ go[q].todo = {} /\ graph' = Committed(q) /\ UNCHANGED <<art, owner, log, base>>
  BY DEF Commit, CommitInDoubt
<1>2. f \in Batch(q) => go[q].staged[f] = art[owner[q]][f] /\ art[owner[q]][f] # NoFacts
  BY <1>1 DEF Staged
<1> QED  BY <1>1, <1>2 DEF Committed

(* Every step preserves Republished: until a committed run ends, an        *)
(* artifact of its batch is what the graph got from it.                    *)
LEMMA RepublishedNext ==
  ASSUME Inductive, Inductive', Executing, Begun, Sited, Stamped, Since, Concluded, Alone, Staged,
         Republished, [Next]_vars
  PROVE  Republished'
<1> USE DEF Inductive
<1> SUFFICES ASSUME NEW r \in committed', status'[r] \in Unfinished, NEW f \in Batch(r)',
                    graph'[f].run = r, art'[owner'[r]][f] # NoFacts
             PROVE  art'[owner'[r]][f] = [ver |-> graph'[f].ver, coord |-> graph'[f].coord]
  BY DEF Republished
<1>1. f \in Files /\ r \in Runs
  BY DEF Batch, TypeOK
<1>2. ASSUME NEW q \in Runs, Commit(q) \/ CommitInDoubt(q), r = q, f \in Batch(q)
      PROVE  art'[owner'[r]][f] = [ver |-> graph'[f].ver, coord |-> graph'[f].coord]
  <2>1. art[owner[r]][f] \in Facts
    BY <1>1 DEF TypeOK
  <2>2. \A a \in Facts : a = [ver |-> a.ver, coord |-> a.coord]
    BY DEF Facts
  <2>3. art[owner[r]][f] = [ver |-> art[owner[r]][f].ver, coord |-> art[owner[r]][f].coord]
    BY <2>1, <2>2
  <2>4. /\ UNCHANGED <<art, owner>>
        /\ graph'[f] = [run |-> q, ver |-> art[owner[q]][f].ver, coord |-> art[owner[q]][f].coord]
    BY <1>1, <1>2, CommitsStaged
  <2>5. graph'[f].ver = art[owner[r]][f].ver /\ graph'[f].coord = art[owner[r]][f].coord
    BY <1>2, <2>4
  <2> QED  BY <2>3, <2>4, <2>5
<1>3. CASE r \in committed
  <2>1. log[r].walked /\ Settled(r)
    BY <1>3 DEF Concluded
  <2>2. status[r] \in Unfinished
    BY <1>1, <2>1, UnfinishedFrame DEF Begun
  <2>3. f \in Batch(r) /\ owner'[r] = owner[r] /\ Live(r)
    BY <1>1, <2>1, <2>2, SettledBatch, WalkedFrame DEF Live
  <2>4. art'[owner[r]][f] = art[owner[r]][f]
    BY <1>1, <2>1, <2>3, QuietArtifacts
  <2>5. CASE graph'[f] = graph[f]
    BY <1>3, <2>2, <2>3, <2>4, <2>5 DEF Republished
  <2>6. ASSUME NEW q \in Runs, Commit(q) \/ CommitInDoubt(q), graph'[f] # graph[f]
        PROVE  art'[owner'[r]][f] = [ver |-> graph'[f].ver, coord |-> graph'[f].coord]
    <3>1. f \in Batch(q) /\ graph'[f] = [run |-> q, ver |-> art[owner[q]][f].ver,
                                          coord |-> art[owner[q]][f].coord]
      BY <1>1, <2>6, CommitsStaged
    <3>2. graph'[f].run = q
      BY <3>1
    <3>3. r = q
      BY <3>2
    <3> QED  BY <1>2, <2>6, <3>1, <3>3
  <2> QED  BY <2>5, <2>6, Writers
<1>4. CASE r \notin committed
  <2>1. PICK q \in Runs : Commit(q) \/ CommitInDoubt(q)
    BY <1>4, Writers
  <2>2. r = q
    BY <1>4, <2>1 DEF Commit, CommitInDoubt
  <2>3. Batch(r)' = Batch(r)
    BY <2>1, <2>2 DEF Commit, CommitInDoubt, Batch
  <2> QED  BY <1>2, <2>1, <2>2, <2>3
<1> QED  BY <1>3, <1>4

(* Every step preserves LoadedAsFrozen, given the artifacts a batch has    *)
(* staged.                                                                 *)
LEMMA LoadedNext ==
  ASSUME Inductive, Executing, Begun, Sited, Concluded, Recorded, Kept, Staged, LoadedAsFrozen,
         [Next]_vars, ~rivals, ~rivals'
  PROVE  LoadedAsFrozen'
<1> USE DEF Inductive
<1> SUFFICES ASSUME NEW f \in Files, graph'[f].run # NoRun
             PROVE  /\ graph'[f].ver >= base'[graph'[f].run][f]
                    /\ graph'[f].coord = log'[graph'[f].run].site
  BY DEF LoadedAsFrozen
<1>1. CASE graph'[f] = graph[f]
  <2> DEFINE q == graph[f].run
  <2>1. q \in committed /\ q \in Runs
    BY <1>1 DEF Recorded, TypeOK
  <2>2. log[q].walked
    BY <2>1 DEF Concluded
  <2>3. base'[q] = base[q] /\ log'[q].site = log[q].site
    BY <2>1, <2>2, WalkedFrame, SiteFrame DEF Sited
  <2> QED  BY <1>1, <2>3 DEF LoadedAsFrozen
<1>2. ASSUME NEW q \in Runs, Commit(q) \/ CommitInDoubt(q), graph'[f] # graph[f]
      PROVE  /\ graph'[f].ver >= base'[graph'[f].run][f]
             /\ graph'[f].coord = log'[graph'[f].run].site
  <2> DEFINE a == art[owner[q]][f]
  <2>1. /\ f \in Batch(q) /\ a # NoFacts /\ UNCHANGED <<base, log>>
        /\ graph'[f] = [run |-> q, ver |-> a.ver, coord |-> a.coord]
    BY <1>2, CommitsStaged
  <2>2. status[q] \in Unfinished
    BY <1>2 DEF Commit, CommitInDoubt, Executing, Unfinished
  <2>3. PICK i \in Slots : task[q][i].file = f /\ task[q][i].ck = "key"
    BY <2>1, BatchTask
  <2>4. a.coord = log[q].site /\ base[q][f] <= a.ver
    BY <2>1, <2>2, <2>3 DEF Kept, Ready
  <2>5. a.ver \in Nat /\ base[q][f] \in Nat
    <3>1. a \in Facts
      BY DEF TypeOK
    <3> QED  BY <3>1, VersionsNat, ContentNat DEF Facts
  <2> QED  BY <2>1, <2>4, <2>5
<1> QED  BY <1>1, <1>2, Writers

(* Lineage holds when the program starts. *)
LEMMA LineageInit == Init => Lineage
<1> SUFFICES ASSUME Init PROVE Lineage  OBVIOUS
<1>1. Executing /\ Begun /\ Sited /\ Stamped /\ Since
  BY DEF Init, Executing, Begun, Sited, Stamped, Since, Parked, NoLog, NoTask, Walked, Reducing
<1>2. Concluded /\ Recorded
  BY DEF Init, Concluded, Recorded, NoRow
<1>3. \A r \in Runs : ~Live(r) /\ \A i \in Slots : ~Ready(r, i)
  BY DEF Init, Live, Ready, NoTask, Idle, Unfinished
<1>4. Alone /\ Kept
  BY <1>3 DEF Alone, Kept
<1>5. Staged /\ Republished /\ LoadedAsFrozen
  BY DEF Init, Staged, Republished, LoadedAsFrozen, Parked, NoRow
<1> QED  BY <1>1, <1>2, <1>4, <1>5 DEF Lineage, Unrivalled

(* Every step preserves Lineage. *)
LEMMA LineageNext ==
  ASSUME Inductive, Inductive', Lineage, [Next]_vars
  PROVE  Lineage'
<1> USE DEF Inductive, Lineage
<1>1. Executing' /\ Begun' /\ Sited' /\ Stamped'
  BY ExecutingNext, BegunNext, SitedNext, StampedNext
<1>2. Since' /\ Concluded' /\ Recorded'
  BY SinceNext, ConcludedNext, RecordedNext
<1>3. ASSUME ~rivals' PROVE Unrivalled'
  <2>1. ~rivals
    BY <1>3, Writers DEF StartRun
  <2>2. Alone /\ Kept /\ Staged /\ Republished /\ LoadedAsFrozen
    BY <2>1 DEF Unrivalled
  <2>3. Alone'
    BY <1>3, <2>2, AloneNext
  <2>4. Kept'
    BY <2>2, KeptNext
  <2>5. Staged'
    BY <2>2, StagedNext
  <2>6. Republished'
    BY <2>2, RepublishedNext
  <2>7. LoadedAsFrozen'
    BY <1>3, <2>1, <2>2, LoadedNext
  <2> QED  BY <2>3, <2>4, <2>5, <2>6, <2>7 DEF Unrivalled
<1> QED  BY <1>1, <1>2, <1>3

(* While no rival of a run is started, what its rows, its goroutine, its   *)
(* workers and its artifacts have in common holds in every reachable state.*)
THEOREM LineageInvariant == Spec => []Lineage
<1>1. Inductive /\ Inductive' /\ Lineage /\ [Next]_vars => Lineage'
  BY LineageNext
<1> QED  BY <1>1, LineageInit, InductiveInvariant, PTL DEF Spec

(* The key a map task checkpointed names an artifact for as long as its    *)
(* run may still reduce it, whatever crashed in between.                   *)
THEOREM ArtifactsOutliveTasks == Spec => []ArtifactOutlivesTask
<1>1. Lineage => ArtifactOutlivesTask
  BY DEF Lineage, Unrivalled, Kept, Ready, ArtifactOutlivesTask
<1> QED  BY <1>1, LineageInvariant, PTL

(* A file is committed as of its run's walk or later, and stamped with the *)
(* coordinate its run froze, however the tree was edited meanwhile.        *)
THEOREM LoadsAsFrozen == Spec => []LoadedAsFrozen
<1>1. TypeOK /\ Lineage => LoadedAsFrozen
  BY DEF Lineage, Unrivalled, LoadedAsFrozen
<1> QED  BY <1>1, TypeCorrect, LineageInvariant, PTL

(* A reduce replayed after its own commit changes no row that is still     *)
(* its own.                                                                *)
THEOREM SecondReduceChangesNothing == Spec => SecondReduceIsNoOp
<1>1. ASSUME Inductive, Lineage, [Next]_vars
      PROVE  \A r \in Runs :
               (r \in committed /\ ~rivals /\ go[r].pc = "load" /\ go'[r].pc # "load")
                 => \A f \in Files : graph'[f] # graph[f] => graph[f].run # r
  <2> USE <1>1 DEF Inductive, Lineage
  <2> SUFFICES ASSUME NEW r \in Runs, r \in committed, ~rivals,
                      go[r].pc = "load", go'[r].pc # "load",
                      NEW f \in Files, graph'[f] # graph[f], graph[f].run = r
               PROVE  FALSE
    OBVIOUS
  <2>1. PICK q \in Runs : Commit(q) \/ CommitInDoubt(q)
    BY Writers
  <2>2. q = r
    BY <2>1 DEF Commit, CommitInDoubt, Return, TypeOK
  <2>3. /\ f \in Batch(r) /\ art[owner[r]][f] # NoFacts
        /\ graph'[f] = [run |-> r, ver |-> art[owner[r]][f].ver, coord |-> art[owner[r]][f].coord]
    BY <2>1, <2>2, CommitsStaged DEF Unrivalled
  <2>4. status[r] \in Unfinished
    BY DEF Executing, Unfinished
  <2>5. art[owner[r]][f] = [ver |-> graph[f].ver, coord |-> graph[f].coord]
    BY <2>3, <2>4 DEF Unrivalled, Republished
  <2>6. graph[f] = [run |-> graph[f].run, ver |-> graph[f].ver, coord |-> graph[f].coord]
    <3>1. graph[f] \in Row
      BY DEF TypeOK
    <3>2. \A x \in Row : x = [run |-> x.run, ver |-> x.ver, coord |-> x.coord]
      BY DEF Row
    <3> QED  BY <3>1, <3>2
  <2>7. art[owner[r]][f].ver = graph[f].ver /\ art[owner[r]][f].coord = graph[f].coord
    BY <2>5
  <2> QED  BY <2>3, <2>6, <2>7
<1>2. Inductive /\ Lineage /\ [Next]_vars =>
        [\A r \in Runs :
           (r \in committed /\ ~rivals /\ go[r].pc = "load" /\ go'[r].pc # "load")
             => \A f \in Files : graph'[f] # graph[f] => graph[f].run # r]_vars
  BY <1>1
<1> QED  BY <1>2, InductiveInvariant, LineageInvariant, PTL DEF Spec, SecondReduceIsNoOp
-----------------------------------------------------------------------------
(* A run's checkpointed walk is recorded by its walk step and never again, *)
(* so what the run is about is fixed.                                      *)
LEMMA AboutFrame ==
  ASSUME TypeOK, Numbered, Judged, Gathered, [Next]_vars, NEW r \in Runs
  PROVE  /\ log[r].walked => log'[r].walked /\ About(r)' = About(r)
         /\ log[r].walked \/ ~log'[r].walked \/ Walk(r)
<1>1. log[r].walked => log'[r].walked /\ About(r)' = About(r)
  BY LedgerFrame DEF About
<1>2. log[r].walked \/ ~log'[r].walked \/ Walk(r)
  <2>1. Resolve(r) \/ Gather(r) \/ CheckpointReduce(r) => log'[r].walked = log[r].walked
    BY DEF TypeOK, Ledger, Resolve, Gather, CheckpointReduce
  <2>2. Acts(r) => \/ Walk(r) \/ Resolve(r) \/ Gather(r) \/ CheckpointReduce(r)
                   \/ log'[r] = log[r]
    BY DEF Acts, Enqueue, AllEnqueued, ReviveCancelled, AllGathered, Reduce, Conflict, Load, Commit,
        Collect, CollectFails, CollectNothing
  <2>3. Walk(r) \/ log'[r].walked = log[r].walked
    BY <2>1, <2>2, RunFrame
  <2> QED  BY <2>3
<1> QED  BY <1>1, <1>2

(* A run ends when its goroutine returns, and stays as it ended; one that  *)
(* succeeds has committed.                                                 *)
EndsAlone(q) ==
  /\ UNCHANGED log /\ Outcome(q) = "none"
  /\ \A r \in Runs \ {q} : Outcome(r)' = Outcome(r)
  /\ Outcome(q)' = "ERROR" \/ (Outcome(q)' = "SUCCESS" /\ q \in committed)
LEMMA OutcomeFrame ==
  ASSUME TypeOK, Reduced, Executing, [Next]_vars
  PROVE  (\A r \in Runs : Outcome(r)' = Outcome(r)) \/ \E q \in Runs : EndsAlone(q)
<1> DEFINE Same == \A r \in Runs : Outcome(r)' = Outcome(r)
<1>1. UNCHANGED status => Same
  BY DEF Outcome
<1>2. ASSUME NEW q \in Runs, NEW st \in Unfinished, status[q] \in Unfinished \cup {"NONE"},
             status' = [status EXCEPT ![q] = st]
      PROVE  Same
  BY <1>2 DEF TypeOK, Outcome, Unfinished
<1>3. ASSUME NEW q \in Runs, Returns(q) PROVE Same \/ EndsAlone(q)
  <2>1. status[q] = "PENDING" /\ UNCHANGED log
    BY <1>3 DEF Returns, Executing
  <2>2. PICK st \in {"ERROR", "SUCCESS", "CANCELLED"} : status' = [status EXCEPT ![q] = st]
    BY <1>3 DEF Returns, Return
  <2>3. st = "SUCCESS" => q \in committed
    <3>1. st = "SUCCESS" => Complete(q)
      BY <2>1, <2>2, StatusFrame DEF TypeOK
    <3> QED  BY <3>1 DEF Complete, Reduced
  <2> QED  BY <2>1, <2>2, <2>3 DEF TypeOK, Outcome, EndsAlone
<1>4. ASSUME NEW q \in Runs, DequeueRun(q) PROVE Same
  BY <1>4, <1>2 DEF DequeueRun, Unfinished
<1>5. CASE ResumeCancelled
  BY <1>5, <1>2, FoundStatus DEF ResumeCancelled, Unfinished
<1>6. CASE StartRun
  BY <1>6, <1>2 DEF StartRun, Unfinished
<1>7. ASSUME NEW q \in Runs, Acts(q) PROVE Same
  BY <1>7, <1>1, ActsFrame
<1> QED
  BY <1>1, <1>3, <1>4, <1>5, <1>6, <1>7, Turns DEF Launch, Die

(* What a run has loaded is fixed once it has committed.                   *)
LEMMA LoadedFrame ==
  ASSUME Inductive, Inductive', Concluded, [Next]_vars, NEW r \in Runs,
         r \in committed, r \in committed'
  PROVE  Loaded(r)' = Loaded(r)
<1>1. Batch(r)' = Batch(r)
  BY SettledBatch DEF Concluded
<1> QED  BY <1>1 DEF Loaded

(* A batch is part of what its run is about.                               *)
LEMMA BatchIsWalked ==
  ASSUME TypeOK, Numbered, Judged, NEW r \in Runs, log[r].walked
  PROVE  Batch(r) \subseteq About(r)
<1> SUFFICES ASSUME NEW f \in Batch(r) PROVE f \in About(r)
  OBVIOUS
<1>1. PICK i \in Slots : /\ i \in 1..Len(log[r].walk) /\ task[r][i].file = f
                        /\ task[r][i].status = "SUCCESS"
  BY BatchTask
<1>2. log[r].walk[i] = f
  BY <1>1 DEF Numbered
<1> QED  BY <1>1, <1>2, BatchType DEF About

(* A commit publishes the run's batch, whether or not its client hears.    *)
LEMMA CommitPublishes ==
  ASSUME Inductive, Inductive', Executing, Concluded, CleanBatches, [Next]_vars,
         NEW q \in Runs, Commit(q) \/ CommitInDoubt(q)
  PROVE  Batches!Publish(q)
<1> USE DEF Inductive
<1>1. /\ go[q].pc = "load" /\ go[q].todo = {} /\ graph' = Committed(q)
      /\ committed' = committed \cup {q} /\ UNCHANGED <<log, task>>
  BY DEF Commit, CommitInDoubt
<1>2. log[q].walked
  BY <1>1 DEF Frozen, Walked, Reducing
<1>3. /\ Stage(q) # "new" /\ Stage(q)' = "published"
      /\ \A r \in Runs \ {q} : Stage(r)' = Stage(r)
  BY <1>1, <1>2 DEF Stage
<1>4. /\ Loaded(q)' = Batch(q) /\ Batch(q) \subseteq About(q)
      /\ Stage(q) = "published" => Batch(q) = Loaded(q)
      /\ \A r \in Runs \ {q} : Loaded(r)' = Loaded(r)
  <2>1. \A r \in Runs : Batch(r)' = Batch(r)
    BY <1>1 DEF Batch
  <2>2. Stage(q) = "published" => q \in committed
    BY <1>2 DEF Stage
  <2>3. Batch(q) \subseteq About(q)
    BY <1>2, BatchIsWalked
  <2> QED  BY <1>1, <2>1, <2>2, <2>3 DEF Loaded
<1>5. \A r \in Runs : About(r)' = About(r)
  BY <1>1 DEF About
<1>6. graph' \in [Files -> Row]
  BY DEF TypeOK
<1>7. \A f \in Batch(q) : graph'[f].run = q /\ graph'[f].ver \in Content \ Unusable
  <2> TAKE f \in Batch(q)
  <2>1. f \in Files
    BY BatchType
  <2>2. graph'[f].run = q /\ graph'[f].ver = go[q].staged[f].ver
    BY <1>1, <2>1 DEF Committed
  <2>3. graph'[f].ver \in Content
    BY <1>6, <2>1 DEF Row
  <2>4. go[q].staged[f].ver \notin Unusable
    BY <1>1 DEF CleanBatches
  <2> QED  BY <2>2, <2>3, <2>4
<1>8. \A f \in Files \ Batch(q) : graph'[f] = graph[f]
  BY <1>1 DEF Committed
<1>9. /\ Outcome(q) = "none"
      /\ \A r \in Runs \ {q} : Outcome(r)' = Outcome(r)
      /\ Outcome(q)' \in {"none", "ERROR"}
  <2>1. status[q] = "PENDING"
    BY <1>1 DEF Executing
  <2>2. UNCHANGED status \/ status' = [status EXCEPT ![q] = "ERROR"]
    BY DEF Commit, CommitInDoubt, Return
  <2> QED  BY <2>1, <2>2 DEF TypeOK, Outcome
<1> DEFINE stages   == [r \in Runs |-> Stage(r)]
           files    == [r \in Runs |-> About(r)]
           batches  == [r \in Runs |-> Loaded(r)]
           outcomes == [r \in Runs |-> Outcome(r)]
<1>10. stages[q] # "new" /\ stages' = [stages EXCEPT ![q] = "published"]
  BY <1>3
<1>11. \E S \in IF stages[q] = "published" THEN {batches[q]} ELSE SUBSET files[q] :
         /\ batches' = [batches EXCEPT ![q] = S]
         /\ \A f \in S : graph'[f].run = q /\ graph'[f].ver \in Content \ Unusable
         /\ \A f \in Files \ S : graph'[f] = graph[f]
  <2>1. Batch(q) \in IF stages[q] = "published" THEN {batches[q]} ELSE SUBSET files[q]
    BY <1>4
  <2>2. batches' = [batches EXCEPT ![q] = Batch(q)]
    BY <1>4
  <2> QED  BY <2>1, <2>2, <1>7, <1>8
<1>12. outcomes[q] = "none" /\ (outcomes' = outcomes \/ outcomes' = [outcomes EXCEPT ![q] = "ERROR"])
  BY <1>9
<1>13. files' = files
  BY <1>5
<1> QED
  BY <1>6, <1>10, <1>11, <1>12, <1>13 DEF Batches!Publish, Batches!Ends

(* Every step of the index is one of AtomicBatches or none: a commit       *)
(* publishes, the first walk freezes, a return that is not a cancellation  *)
(* ends the run.                                                           *)
LEMMA StepImplements ==
  ASSUME Inductive, Inductive', Executing, Concluded, CleanBatches, [Next]_vars
  PROVE  [Batches!Next]_(Batches!vars)
<1> USE DEF Inductive
<1>1. ASSUME NEW q \in Runs, Commit(q) \/ CommitInDoubt(q) PROVE Batches!Next
  BY <1>1, CommitPublishes DEF Batches!Next
<1>2. CASE UNCHANGED <<graph, committed>>
  <2>1. \A r \in Runs : Loaded(r)' = Loaded(r)
    <3> TAKE r \in Runs
    <3>1. CASE r \in committed
      BY <1>2, <3>1, LoadedFrame
    <3>2. CASE r \notin committed
      BY <1>2, <3>2 DEF Loaded
    <3> QED  BY <3>1, <3>2
  <2>2. \A r \in Runs : log'[r].walked = log[r].walked =>
          Stage(r)' = Stage(r) /\ About(r)' = About(r)
    <3> TAKE r \in Runs
    <3>1. log'[r].walked = log[r].walked => Stage(r)' = Stage(r)
      BY <1>2 DEF Stage
    <3>2. ~log'[r].walked /\ ~log[r].walked => About(r)' = About(r)
      BY DEF About
    <3> QED  BY <3>1, <3>2, AboutFrame
  <2>3. ASSUME NEW q \in Runs, ~log[q].walked, log'[q].walked PROVE Batches!Freeze(q)
    <3>1. Walk(q)
      BY <2>3, AboutFrame
    <3>2. /\ status[q] = "PENDING" /\ UNCHANGED status
          /\ \A r \in Runs \ {q} : log'[r] = log[r]
      BY <3>1 DEF TypeOK, Walk, Executing
    <3>3. q \notin committed
      BY <2>3 DEF Concluded
    <3>4. Stage(q) = "new" /\ Stage(q)' = "frozen" /\ About(q)' \in SUBSET Files
      BY <1>2, <2>3, <3>3 DEF Stage, About
    <3>5. \A r \in Runs \ {q} : Stage(r)' = Stage(r) /\ About(r)' = About(r)
      BY <2>2, <3>2
    <3>6. Outcome(q) = "none" /\ \A r \in Runs : Outcome(r)' = Outcome(r)
      BY <3>2 DEF Outcome
    <3> QED  BY <1>2, <2>1, <3>4, <3>5, <3>6 DEF Batches!Freeze
  <2>4. ASSUME \A r \in Runs : log'[r].walked = log[r].walked
        PROVE  [Batches!Next]_(Batches!vars)
    <3>1. \A r \in Runs : Stage(r)' = Stage(r) /\ About(r)' = About(r)
      BY <2>2, <2>4
    <3>2. CASE \A r \in Runs : Outcome(r)' = Outcome(r)
      BY <1>2, <2>1, <3>1, <3>2 DEF Batches!vars
    <3>3. ASSUME NEW q \in Runs, EndsAlone(q) PROVE Batches!Fail(q) \/ Batches!Succeed(q)
      <4>1. Outcome(q)' = "ERROR" \/ (Outcome(q)' = "SUCCESS" /\ Stage(q) = "published")
        BY <3>3 DEF EndsAlone, Stage
      <4>2. Outcome(q) = "none" /\ \A r \in Runs \ {q} : Outcome(r)' = Outcome(r)
        BY <3>3 DEF EndsAlone
      <4> QED
        BY <1>2, <2>1, <3>1, <4>1, <4>2 DEF Batches!Fail, Batches!Succeed, Batches!Ends
    <3> QED  BY <3>2, <3>3, OutcomeFrame DEF Batches!Next
  <2>5. \A r \in Runs : log[r].walked => log'[r].walked
    BY AboutFrame
  <2>6. \A r \in Runs : log[r].walked \in BOOLEAN /\ log'[r].walked \in BOOLEAN
    BY DEF TypeOK, Ledger
  <2> QED  BY <2>3, <2>4, <2>5, <2>6 DEF Batches!Next
<1> QED  BY <1>1, <1>2, Writers

(* A run is an atomic batch, whatever dies, is cancelled, retried or       *)
(* replayed under it, and whatever other runs do beside it.                *)
THEOREM IndexImplementsAtomicBatches == Spec => PublishesWholeBatches
<1>1. Init => Batches!Init
  <2> SUFFICES ASSUME Init PROVE Batches!Init  OBVIOUS
  <2>1. graph = [f \in Files |-> NoRow]
    BY DEF Init
  <2>2. \A r \in Runs : /\ Stage(r) = "new" /\ About(r) = {}
                        /\ Loaded(r) = {} /\ Outcome(r) = "none"
    BY DEF Init, NoLog, Stage, About, Loaded, Outcome
  <2> QED  BY <2>1, <2>2 DEF Batches!Init
<1>2. Inductive /\ Inductive' /\ Lineage /\ Clean /\ [Next]_vars => [Batches!Next]_(Batches!vars)
  BY StepImplements DEF Lineage, Clean
<1> QED
  BY <1>1, <1>2, InductiveInvariant, LineageInvariant, CleanInvariant, PTL
  DEF Spec, PublishesWholeBatches, Batches!Spec
=============================================================================
