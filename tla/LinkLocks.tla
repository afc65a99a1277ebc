------------------------------ MODULE LinkLocks ------------------------------
(***************************************************************************)
(* The locks of concurrent writers of the graph: the batch of a reduce,    *)
(* the one-file load of index.Run, and the full rebuild.  A transaction is *)
(* the sequence of its statements.  In READ COMMITTED each sees the rows   *)
(* that are committed when it begins, asks for their locks one by one,     *)
(* passes over what another transaction deleted while it waited, and does  *)
(* not see what was inserted since.  PostgreSQL grants the locks, keeps    *)
(* them to the end of the transaction, and aborts a member of a cycle of   *)
(* waits.                                                                  *)
(*                                                                         *)
(* Every file is reloaded with what it held, so Rows are all the rows that *)
(* are ever derived.  A row that is deleted and derived again is another   *)
(* tuple in the same place of the order; and that two batches may derive   *)
(* one key is the subject of BatchRace.                                    *)
(***************************************************************************)
EXTENDS Integers, SequencesExt

CONSTANTS
  Files,
  Batches,     \* transactions of reduceOnce
  Loads,       \* transactions of loadWithRetry, one file each
  Rebuilds,    \* transactions of RebuildAll
  Loaded,      \* the files each of the first two loads, in path order
  Rows,        \* the derived rows, in the order of table and primary key
  MaxAttempts  \* maxLoadAttempts

TableOrder == <<"resolves_to", "calls", "implements", "type_defines", "imports">>
Place(t) == CHOOSE k \in DOMAIN TableOrder : TableOrder[k] = t

Txns    == Batches \cup Loads \cup Rebuilds
Initial == "initial"   \* who inserted what is there from the start
Gone    == "gone"

ASSUME RowsAssumption ==
  /\ Rows \in Seq([table : ToSet(TableOrder), from : Files, to : Files])
  /\ \A i, j \in DOMAIN Rows : i < j => Place(Rows[i].table) <= Place(Rows[j].table)
ASSUME TxnsAssumption ==
  /\ Batches \cap Loads = {} /\ Batches \cap Rebuilds = {} /\ Loads \cap Rebuilds = {}
  /\ Txns \cap {Initial, Gone} = {}
  /\ \A t \in Batches \cup Loads : Loaded[t] \in Seq(Files) /\ Loaded[t] # << >>
ASSUME AttemptsAssumption == MaxAttempts \in Nat \ {0}

VARIABLES
  at,        \* how many of its statements each transaction has begun
  asks,      \* the locks its statement has yet to ask for
  held,      \* the locks it was granted
  attempt,   \* which attempt of withRetry it is
  outcome,   \* "running", "done" or "failed"
  queue,     \* who waits for the link lock, in order of arrival
  xmin       \* who inserted the tuple that is there of each row

vars == <<at, asks, held, attempt, outcome, queue, xmin>>

Link           == <<"link">>            \* LockLinkShared, LockLinkExclusive
Path(f)        == <<"path", f>>         \* LockFilePath
Row(i)         == <<"row", i>>
Occurrences(f) == <<"occurrences", f>>  \* all of a file's, as one
Tuples == {Row(i) : i \in DOMAIN Rows} \cup {Occurrences(f) : f \in Files}

\* The statements.
Take(x, share) == [does |-> "take", on |-> x, share |-> share]
LockRows(S)    == [does |-> "lock", rows |-> S]     \* ... ORDER BY ... FOR UPDATE
DeleteRows(S)  == [does |-> "delete", rows |-> S]
CheckRows(S)   == [does |-> "check", rows |-> S]    \* no row may refer to what was deleted
InsertRows(S)  == [does |-> "insert", rows |-> S]   \* what a row refers to must be there

From(tbl, F) == {i \in DOMAIN Rows : Rows[i].table = tbl /\ Rows[i].from \in F}
To(tbl, F)   == {i \in DOMAIN Rows : Rows[i].table = tbl /\ Rows[i].to \in F}

\* A statement that no row can be in is left out.
Unless(S, s) == IF S = {} THEN << >> ELSE s

\* Mutant: each side is locked in its order, before the ordered lock was one.
RowsByFile_Unordered(tbl, f) ==
  Unless(From(tbl, {f}) \cup To(tbl, {f}),
         <<LockRows(From(tbl, {f})), LockRows(To(tbl, {f})),
           DeleteRows(From(tbl, {f})), DeleteRows(To(tbl, {f}))>>)

\* One table of deleteFile: a file's rows from both sides, locked in order
\* and then deleted, the source side and the target side.
RowsByFile(tbl, f) ==
  Unless(From(tbl, {f}) \cup To(tbl, {f}),
         <<LockRows(From(tbl, {f}) \cup To(tbl, {f})),
           DeleteRows(From(tbl, {f})), DeleteRows(To(tbl, {f}))>>)

EdgesByFile(f) ==
  RowsByFile("resolves_to", f) \o RowsByFile("calls", f)
    \o RowsByFile("implements", f) \o RowsByFile("type_defines", f)
    \o Unless(From("imports", {f}), <<DeleteRows(From("imports", {f}))>>)

\* Its occurrences, which no derived row may refer to any more.
OccurrencesByFile(f) ==
  <<Take(Occurrences(f), FALSE),
    CheckRows({i \in DOMAIN Rows : f \in {Rows[i].from, Rows[i].to} /\ Rows[i].table # "imports"})>>

\* Mutant: the link lock after the rows, when it is the edges' turn.
ReplaceFile_LateLock(f) ==
  <<Take(Path(f), FALSE)>> \o EdgesByFile(f) \o <<Take(Link, TRUE)>> \o OccurrencesByFile(f)

\* ReplaceFile: the link lock, the path, the derived rows, the occurrences.
ReplaceFile(f) ==
  <<Take(Link, TRUE), Take(Path(f), FALSE)>> \o EdgesByFile(f) \o OccurrencesByFile(f)

\* The files a batch loads, and those with a reference to what they define.
Owners(t) ==
  LET F == ToSet(Loaded[t])
  IN F \cup {Rows[i].from : i \in {k \in DOMAIN Rows : /\ Rows[k].to \in F
                                                       /\ Rows[k].table # "implements"}}

\* What a transaction derives again of a table.
Relinked(t, tbl) == IF tbl = "implements" THEN From(tbl, Files) ELSE From(tbl, Owners(t))

\* One table of Batch.Relink.
RelinkTable(t, tbl) ==
  Unless(Relinked(t, tbl),
         <<LockRows(Relinked(t, tbl)), DeleteRows(Relinked(t, tbl))>>
           \o Unless({tbl} \ {"imports"}, <<InsertRows(Relinked(t, tbl))>>))

\* Mutant: the batch takes the link lock when it re-links, after its writes.
Batch_LateLock(t) ==
  FlattenSeq([k \in DOMAIN Loaded[t] |-> Tail(ReplaceFile(Loaded[t][k]))])
    \o <<Take(Link, TRUE)>>
    \o FlattenSeq([k \in DOMAIN TableOrder |-> RelinkTable(t, TableOrder[k])])

\* reduceOnce: NewBatch, every file in order, Relink.
Batch(t) ==
  <<Take(Link, TRUE)>>
    \o FlattenSeq([k \in DOMAIN Loaded[t] |-> ReplaceFile(Loaded[t][k])])
    \o FlattenSeq([k \in DOMAIN TableOrder |-> RelinkTable(t, TableOrder[k])])

RebuildTable(tbl) ==
  Unless(From(tbl, Files), <<DeleteRows(From(tbl, Files))>>
                             \o Unless({tbl} \ {"imports"}, <<InsertRows(From(tbl, Files))>>))

\* RebuildAll: no ordered locks, there is no one to wait for.
Rebuild ==
  <<Take(Link, FALSE)>> \o RebuildTable("resolves_to") \o RebuildTable("imports")
    \o RebuildTable("calls") \o RebuildTable("implements") \o RebuildTable("type_defines")

Statements(t) == CASE t \in Batches  -> Batch(t)
                   [] t \in Loads    -> ReplaceFile(Loaded[t][1])
                   [] t \in Rebuilds -> Rebuild
Program == [t \in Txns |-> Statements(t)]
-----------------------------------------------------------------------------
(* The locks. *)
Version(x) == IF x \in Tuples THEN xmin[x] ELSE Gone   \* advisory locks have none

Ask(x, share, by) == [on |-> x, xmin |-> Version(x), share |-> share, by |-> by]

Running(t) == outcome[t] = "running"
Asking(t)  == Running(t) /\ asks[t] # << >>
Wanted(t)  == Head(asks[t])
There(r)   == Version(r.on) = r.xmin

Same(r, q)     == r.on = q.on /\ r.xmin = q.xmin
Conflict(r, q) == Same(r, q) /\ ~(r.share /\ q.share)
Has(t, r)      == \E q \in held[t] : Same(r, q) /\ (r.share \/ ~q.share)

\* The rows that are in S, in their order.
InOrder(S) ==
  LET upTo[n \in 0..Len(Rows)] == IF n = 0 THEN << >>
                                  ELSE IF n \in S THEN Append(upTo[n - 1], n) ELSE upTo[n - 1]
  IN upTo[Len(Rows)]

\* Of the rows in S, those a statement of t sees and has no lock of.
Seen(t, S) == {i \in S : xmin[Row(i)] # Gone /\ ~Has(t, Ask(Row(i), FALSE, "lock"))}

AskRows(s, share, by) == [k \in DOMAIN s |-> Ask(Row(s[k]), share, by)]
AskEnds(s) == FlattenSeq([k \in DOMAIN s |-> <<Ask(Occurrences(Rows[s[k]].from), TRUE, "insert"),
                                               Ask(Occurrences(Rows[s[k]].to), TRUE, "insert")>>])

\* What a statement asks for, from what it sees as it begins.  Only the
\* ordered lock says in which order.
Requests(t, s) ==
  CASE s.does = "take"   -> {<<Ask(s.on, s.share, "take")>>}
    [] s.does = "lock"   -> {AskRows(InOrder(Seen(t, s.rows)), FALSE, "lock")}
    [] s.does = "delete" -> {AskRows(p, FALSE, "delete") : p \in SetToSeqs(Seen(t, s.rows))}
    [] s.does = "check"  -> {AskRows(p, TRUE, "check") : p \in SetToSeqs(Seen(t, s.rows))}
    [] s.does = "insert" -> {AskEnds(InOrder(s.rows))}

Ahead(u, t) ==
  \E j \in DOMAIN queue : /\ queue[j] = u
                          /\ \A k \in DOMAIN queue : queue[k] = t => j < k

\* u keeps t waiting: it holds what t wants, or asked for the link lock before.
WaitsFor(t, u) ==
  /\ Asking(t) /\ ~Has(t, Wanted(t)) /\ t # u
  /\ \/ \E q \in held[u] : Conflict(Wanted(t), q)
     \/ Wanted(t).on = Link /\ Asking(u) /\ Ahead(u, t) /\ Conflict(Wanted(t), Wanted(u))

Blocked(t) == \E u \in Txns : WaitsFor(t, u)

\* t is in a cycle of waits: it is among those it waits for, and they, ...
Waits      == {e \in Txns \X Txns : WaitsFor(e[1], e[2])}
InCycle(t) == Blocked(t) /\ \E W \in {Waits} :
  \A S \in SUBSET Txns : (\A e \in W : e[1] \in S \cup {t} => e[2] \in S) => t \in S
-----------------------------------------------------------------------------
Init ==
  /\ at = [t \in Txns |-> 0] /\ asks = [t \in Txns |-> << >>] /\ held = [t \in Txns |-> {}]
  /\ attempt = [t \in Txns |-> 1] /\ outcome = [t \in Txns |-> "running"]
  /\ queue = << >> /\ xmin = [x \in Tuples |-> Initial]

Leave(t) == queue' = RemoveFirst(queue, t)

Begin(t) ==
  /\ Running(t) /\ asks[t] = << >> /\ at[t] < Len(Program[t])
  /\ at' = [at EXCEPT ![t] = @ + 1]
  /\ \E s \in Requests(t, Program[t][at[t] + 1]) : asks' = [asks EXCEPT ![t] = s]
  /\ UNCHANGED <<held, attempt, outcome, queue, xmin>>

Grant(t) ==
  /\ Asking(t) /\ ~Blocked(t) /\ There(Wanted(t)) /\ Wanted(t).by # "check"
  /\ held' = [held EXCEPT ![t] = @ \cup {Wanted(t)}]
  /\ asks' = [asks EXCEPT ![t] = Tail(@)] /\ Leave(t)
  /\ UNCHANGED <<at, attempt, outcome, xmin>>

\* The row was deleted while the statement waited for it.
Skip(t) ==
  /\ Asking(t) /\ ~There(Wanted(t)) /\ Wanted(t).by # "insert"
  /\ asks' = [asks EXCEPT ![t] = Tail(@)]
  /\ UNCHANGED <<at, held, attempt, outcome, queue, xmin>>

Wait(t) ==
  /\ Asking(t) /\ Wanted(t).on = Link /\ Blocked(t) /\ t \notin ToSet(queue)
  /\ queue' = Append(queue, t)
  /\ UNCHANGED <<at, asks, held, attempt, outcome, xmin>>

\* The transaction is over, and so are its locks.
End(t) ==
  /\ at' = [at EXCEPT ![t] = 0] /\ asks' = [asks EXCEPT ![t] = << >>]
  /\ held' = [held EXCEPT ![t] = {}] /\ Leave(t)

\* The rows a transaction derives, and the occurrences it loads.
Inserted(t) ==
  CASE t \in Batches  -> {Row(i) : i \in UNION {Relinked(t, tbl) : tbl \in ToSet(TableOrder)}}
                           \cup {Occurrences(f) : f \in ToSet(Loaded[t])}
    [] t \in Loads    -> {Occurrences(Loaded[t][1])}
    [] t \in Rebuilds -> {Row(i) : i \in DOMAIN Rows}
Deleted(t) == {x \in Tuples : \E q \in held[t] : q.on = x /\ ~q.share}

Commit(t) ==
  /\ Running(t) /\ asks[t] = << >> /\ at[t] = Len(Program[t])
  /\ xmin' = [x \in Tuples |-> IF x \in Inserted(t) THEN t
                               ELSE IF x \in Deleted(t) THEN Gone ELSE xmin[x]]
  /\ End(t) /\ outcome' = [outcome EXCEPT ![t] = "done"]
  /\ UNCHANGED attempt

\* foreign_key_violation, which is not retried: a row refers to what is being
\* deleted, or was derived from what has been.
Refused(t) ==
  /\ Asking(t) /\ ~Blocked(t)
  /\ \/ Wanted(t).by = "check" /\ There(Wanted(t))
     \/ Wanted(t).by = "insert" /\ ~There(Wanted(t))
  /\ End(t) /\ outcome' = [outcome EXCEPT ![t] = "failed"]
  /\ UNCHANGED <<attempt, xmin>>

\* Mutant: every failure is retried, however often it was.
DeadlockVictim_Forever(t) ==
  /\ Running(t) /\ InCycle(t) /\ End(t)
  /\ UNCHANGED <<attempt, outcome, xmin>>

\* Mutant: one attempt more than the cap.
DeadlockVictim_Late(t) ==
  /\ Running(t) /\ InCycle(t) /\ End(t)
  /\ IF t \in Rebuilds \/ attempt[t] > MaxAttempts
     THEN outcome' = [outcome EXCEPT ![t] = "failed"] /\ UNCHANGED attempt
     ELSE attempt' = [attempt EXCEPT ![t] = @ + 1] /\ UNCHANGED outcome
  /\ UNCHANGED xmin

\* deadlock_detected: the transaction is rolled back, and withRetry runs the
\* whole of it again, except that nothing retries a rebuild.
DeadlockVictim(t) ==
  /\ Running(t) /\ InCycle(t) /\ End(t)
  /\ IF t \in Rebuilds \/ attempt[t] = MaxAttempts
     THEN outcome' = [outcome EXCEPT ![t] = "failed"] /\ UNCHANGED attempt
     ELSE attempt' = [attempt EXCEPT ![t] = @ + 1] /\ UNCHANGED outcome
  /\ UNCHANGED xmin

\* Mutant: the locks belong to the session and outlive the transaction.
Disconnect_Holding(t) ==
  /\ t \notin Rebuilds /\ Running(t)
  /\ outcome' = [outcome EXCEPT ![t] = "failed"] /\ Leave(t)
  /\ UNCHANGED <<at, asks, held, attempt, xmin>>

\* A loader dies, or meets any other error: its locks go with it.
Disconnect(t) ==
  /\ t \notin Rebuilds /\ Running(t) /\ End(t)
  /\ outcome' = [outcome EXCEPT ![t] = "failed"]
  /\ UNCHANGED <<attempt, xmin>>

Step(t) == Begin(t) \/ Grant(t) \/ Skip(t) \/ Wait(t) \/ Commit(t) \/ Refused(t) \/ DeadlockVictim(t)
Next == \E t \in Txns : Step(t) \/ Disconnect(t)

Spec     == Init /\ [][Next]_vars
FairSpec == Spec /\ \A t \in Txns : WF_vars(Step(t))
-----------------------------------------------------------------------------
(* What the locks promise. *)
Locks == [on : Tuples \cup {Link} \cup {Path(f) : f \in Files},
          xmin : Txns \cup {Initial, Gone}, share : BOOLEAN,
          by : {"take", "lock", "delete", "check", "insert"}]

(* A transaction is somewhere in its statements, in one of the attempts    *)
(* withRetry allows, and queues for the link lock at most once.            *)
TypeOK ==
  /\ at \in [Txns -> Nat] /\ \A t \in Txns : at[t] <= Len(Program[t])
  /\ asks \in [Txns -> Seq(Locks)] /\ held \in [Txns -> SUBSET Locks]
  /\ attempt \in [Txns -> 1..MaxAttempts]
  /\ outcome \in [Txns -> {"running", "done", "failed"}]
  /\ queue \in Seq(Txns)
  /\ \A j, k \in DOMAIN queue : queue[j] = queue[k] => j = k
  /\ xmin \in [Tuples -> Txns \cup {Initial, Gone}]

(* RebuildAll "cannot run beside a loader replacing the occurrences those  *)
(* tables point at" (link/rebuild.go): while a rebuild has the link lock,  *)
(* no other writer of the graph holds a lock of any kind.                  *)
RebuildAlone ==
  \A r \in Rebuilds : held[r] # {} => \A t \in Txns \ {r} : held[t] = {}

(* "A waiter that holds nothing cannot be half of a cycle"                 *)
(* (link/rebuild.go): no rebuild is ever in a deadlock, whatever the       *)
(* batches around it do.                                                   *)
RebuildNeverInCycle == \A r \in Rebuilds : ~InCycle(r)

Cyclic(S) == S # {} /\ \A t \in S : \E u \in S : WaitsFor(t, u)

(* What store.deleteFile says of its ordered locks, "every transaction     *)
(* acquires in one global order and no cycle can form", for the loads of   *)
(* single files.  TLC refutes it: a load locks out of order what a batch   *)
(* derived again while it waited.                                          *)
LoadsNeverInCycle == \A S \in SUBSET Loads : ~Cyclic(S)

(* What the ordered locks do give: loads wait for each other in a cycle    *)
(* only if one of them has come, past its ordered lock, upon a row that a  *)
(* batch or a rebuild derived again and committed since.                   *)
Overtaken(t) == Wanted(t).by # "lock" /\ Wanted(t).xmin \in Batches \cup Rebuilds

LoadsCycleOverNewRows == \A S \in SUBSET Loads : Cyclic(S) => \E t \in S : Overtaken(t)

(* A rebuild is always granted the link lock in the end, and completes,    *)
(* whatever the loads around it do, deadlock with each other or die.       *)
RebuildsEnd == <>(\A r \in Rebuilds : outcome[r] = "done")

(* Every load and every batch ends, committed or reported as failed: "the  *)
(* cap exists to turn a pathological case into an error rather than a      *)
(* hang" (index/index.go).                                                 *)
LoadersEnd == <>(\A t \in Txns \ Rebuilds : outcome[t] # "running")
=============================================================================
