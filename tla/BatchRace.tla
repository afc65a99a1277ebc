----------------------------- MODULE BatchRace -----------------------------
(***************************************************************************)
(* The reduce batches of different runs, which share the link lock and so  *)
(* run side by side, statement by statement over READ COMMITTED tables.    *)
(* Locks are Store's and LinkLocks's subject; here is what two batches make*)
(* of the derived rows: each derives from what was committed when its      *)
(* statement started, the foreign keys wait for an end another transaction *)
(* deletes, the primary keys for a row another one inserts, and what is    *)
(* then broken is an error nobody retries.                                 *)
(*                                                                         *)
(* resolves_to stands for the tables between two occurrences that are      *)
(* re-linked by owner.                                                     *)
(***************************************************************************)
EXTENDS Naturals, Sequences, FiniteSets, SequencesExt

CONSTANTS
  Batches,
  Files,
  Types,     \* symbols whose descriptor ends in '#'
  Methods,   \* member suffixes that end in '().'
  Plans      \* what the batches load, and what was loaded before them:
             \* functions to sequences of [file, text]

Loads == Batches \cup {"before"}

ASSUME PlansAssumption ==
  \A P \in Plans : \A b \in Loads :
    /\ P[b] \in Seq(Range(P[b]))
    /\ \A i \in DOMAIN P[b] : P[b][i].file \in Files
    /\ \A i, j \in DOMAIN P[b] : P[b][i].file = P[b][j].file => i = j

VARIABLES
  db,          \* the committed rows, by table
  plan,        \* what the batches load, and what was loaded before
  txn,         \* a batch's transaction
  outcome,     \* "running", "done", or "refused" by a constraint
  overlapped   \* history: the pairs of batches that committed side by side

vars == <<db, plan, txn, outcome, overlapped>>

LinkTables == <<"resolves_to", "implements", "imports">>
Tables     == Range(LinkTables) \cup {"occurrence"}
Empty      == [t \in Tables |-> {}]

\* An occurrence: the file, the load that minted its id, what it says.  Its
\* descriptor is that of a symbol and a member suffix, "" for the symbol itself.
Rows(file, load, text) == { [file |-> file, load |-> load, says |-> s] : s \in text }
Says(x, role)          == x.says.role = role

-----------------------------------------------------------------------------
(* The queries, over what a transaction sees. *)
Linked(v, U) ==
  { j \in v.occurrence \X v.occurrence :
      /\ Says(j[1], "reference") /\ Says(j[2], "definition") /\ j[1].says.desc = j[2].says.desc
      /\ j[1].file \in U /\ j[1].file # j[2].file }

\* Structural method-set containment, wherever the members are.
Defines(x, n)   == Says(x, "definition") /\ x.says.desc.of = n
TypeDefs(v)     == { x \in v.occurrence : /\ Says(x, "definition") /\ x.says.desc.of \in Types
                                          /\ x.says.desc.member = "" }
Members(v, x)   == { m \in v.occurrence : Defines(m, x.says.desc.of) /\ m.says.desc.member \in Methods }
MethodSet(v, x) == { m.says.desc.member : m \in Members(v, x) }

Satisfies(v) ==
  { j \in TypeDefs(v) \X TypeDefs(v) :
      /\ j[1].file # j[2].file /\ j[1].says.kind # "interface" /\ j[2].says.kind = "interface"
      /\ MethodSet(v, j[2]) # {} /\ MethodSet(v, j[2]) \subseteq MethodSet(v, j[1]) }
Overrides(v) ==
  { m \in v.occurrence \X v.occurrence : \E j \in Satisfies(v) :
      /\ m[1] \in Members(v, j[1]) /\ m[2] \in Members(v, j[2])
      /\ m[1].says.desc.member = m[2].says.desc.member }

Derived(v, t, U) ==
  CASE t = "resolves_to" -> Linked(v, U)
    [] t = "imports"     -> { <<j[1].file, j[2].file>> :
                                j \in { j \in Linked(v, U) : j[2].says.kind = "package" } }
    [] t = "implements"  -> Satisfies(v) \cup Overrides(v)

Rebuilt(d) == [t \in Tables |-> IF t = "occurrence" THEN d[t] ELSE Derived(d, t, Files)]

File(t, end) == IF t = "imports" THEN end ELSE end.file

RelinkOwners(v, f) ==
  {f} \cup { r.file : r \in { r \in v.occurrence :
     Says(r, "reference") /\ \E d \in v.occurrence :
       d.file = f /\ Says(d, "definition") /\ d.says.desc = r.says.desc } }

\* The rows a batch re-links of a table; implements has no owner.
Owned(v, t, U) == { r \in v[t] : t = "implements" \/ File(t, r[1]) \in U }
\* The rows deleteFile clears: both sides, imports its own only.
OfFile(v, t, f) == { r \in v[t] : File(t, r[1]) = f \/ (t # "imports" /\ File(t, r[2]) = f) }

-----------------------------------------------------------------------------
(* Transactions. *)
Idle    == [stage |-> "idle"]
Open(b) == txn[b].stage # "idle"
View(x) == [t \in Tables |-> (db[t] \ x.dels[t]) \cup x.adds[t]]

Delete(x, t, rows) == [x EXCEPT !.dels[t] = @ \cup (rows \cap db[t]), !.adds[t] = @ \ rows]
Insert(x, t, rows) == [x EXCEPT !.adds[t] = @ \cup rows]

Other(b)        == { c \in Batches \ {b} : Open(c) }
Deleted(c, t)   == txn[c].dels[t]
Inserted(c, t)  == txn[c].adds[t]
RefersTo(rows, occs) == \E r \in rows : r[1] \in occs \/ r[2] \in occs

At(b)    == plan[b][txn[b].at]
Table(b) == LinkTables[txn[b].at]
Old(b)   == { o \in View(txn[b]).occurrence : o.file = At(b).file }

\* What a statement of b waits for: c holds what b deletes, refers to it, or
\* deletes or inserts what b's rows need.
Stage(b, stage) == txn[b].stage = stage
ToClear(b) ==
  [t \in Range(LinkTables) |->
     IF Stage(b, "rows") THEN OfFile(View(txn[b]), t, At(b).file)
     ELSE IF t = Table(b) THEN Owned(View(txn[b]), t, txn[b].owners) ELSE {}]

Ends(t, rows) == IF t = "imports" THEN {} ELSE UNION { {r[1], r[2]} : r \in rows }

WaitsFor(b, c) ==
  \/ Stage(b, "path") /\ At(b).file \in txn[c].paths
  \/ Stage(b, "rows") /\ \E t \in Range(LinkTables) : ToClear(b)[t] \cap Deleted(c, t) # {}
  \/ Stage(b, "clear") /\ ToClear(b)[Table(b)] \cap Deleted(c, Table(b)) # {}
  \/ Stage(b, "replace") /\ \E t \in {"resolves_to", "implements"} : RefersTo(Inserted(c, t), Old(b))
  \/ /\ Stage(b, "insert")
     /\ \/ txn[b].rows \cap Inserted(c, Table(b)) # {}
        \/ Ends(Table(b), txn[b].rows) \cap Deleted(c, "occurrence") # {}

Blocked(b) == \E c \in Other(b) : WaitsFor(b, c)

Init ==
  /\ plan \in Plans
  /\ db = Rebuilt([Empty EXCEPT !.occurrence =
                      UNION { Rows(l.file, "before", l.text) : l \in Range(plan["before"]) }])
  /\ txn = [b \in Batches |-> Idle]
  /\ outcome = [b \in Batches |-> "running"]
  /\ overlapped = {}

Step(b, from, x) ==
  /\ Stage(b, from) /\ ~Blocked(b)
  /\ txn' = [txn EXCEPT ![b] = x]
  /\ UNCHANGED <<db, plan, outcome, overlapped>>

Close(b, how) == txn' = [txn EXCEPT ![b] = Idle] /\ outcome' = [outcome EXCEPT ![b] = how]
Refused(b)    == ~Blocked(b) /\ Close(b, "refused") /\ UNCHANGED <<db, plan, overlapped>>

NewBatch(b) ==
  /\ outcome[b] = "running" /\ Stage(b, "idle")
  /\ txn' = [txn EXCEPT ![b] =
       [stage |-> IF plan[b] = << >> THEN "clear" ELSE "before", at |-> 1, owners |-> {},
        paths |-> {}, rows |-> {}, dels |-> Empty, adds |-> Empty, beside |-> {}]]
  /\ UNCHANGED <<db, plan, outcome, overlapped>>

(* Mutant: only the state after the load is asked for its references. *)
Before_Skipped(b) == Step(b, "before", [txn[b] EXCEPT !.stage = "path"])

\* Batch.Touch, on either side of the load.
Before(b) ==
  Step(b, "before", [txn[b] EXCEPT !.owners = @ \cup RelinkOwners(View(txn[b]), At(b).file),
                                   !.stage = "path"])

LockFilePath(b) == Step(b, "path", [txn[b] EXCEPT !.paths = @ \cup {At(b).file}, !.stage = "rows"])

DeleteRows(b) ==
  LET x == txn[b]
      gone == [t \in Tables |-> IF t = "occurrence" THEN {} ELSE ToClear(b)[t]]
  IN Step(b, "rows", [x EXCEPT !.dels = [t \in Tables |-> x.dels[t] \cup (gone[t] \cap db[t])],
                               !.adds = [t \in Tables |-> x.adds[t] \ gone[t]],
                               !.stage = "replace"])

\* The occurrences go and come with new ids; no row may name the old ones.
ReplaceOccurrences(b) ==
  LET x == txn[b]
      named == \E t \in {"resolves_to", "implements"} : RefersTo(View(x)[t], Old(b))
      y == Insert(Delete(x, "occurrence", Old(b)), "occurrence", Rows(At(b).file, b, At(b).text))
  IN /\ Stage(b, "replace")
     /\ IF named THEN Refused(b) ELSE Step(b, "replace", [y EXCEPT !.stage = "after"])

After(b) ==
  LET x == txn[b]
      last == x.at = Len(plan[b])
  IN Step(b, "after", [x EXCEPT !.owners = @ \cup RelinkOwners(View(x), At(b).file),
                                !.at = IF last THEN 1 ELSE @ + 1,
                                !.stage = IF last THEN "clear" ELSE "before"])

(* Mutant: what the owners had is left in place, as if it were theirs no more. *)
Clear_Kept(b) == Step(b, "clear", [txn[b] EXCEPT !.stage = "derive"])

\* Batch.Relink, a table at a time: lock and delete, derive, insert.
Clear(b) ==
  Step(b, "clear", [Delete(txn[b], Table(b), ToClear(b)[Table(b)]) EXCEPT !.stage = "derive"])

Derive(b) ==
  Step(b, "derive", [txn[b] EXCEPT !.rows = Derived(View(txn[b]), Table(b), txn[b].owners),
                                   !.stage = "insert"])

(* Mutant: the table's ends are not declared to reference occurrences. *)
Breaks_Unreferenced(v, t, rows) == rows \cap v[t] # {}

\* A row that is there already, or an end that is not.
Breaks(v, t, rows) == rows \cap v[t] # {} \/ ~ Ends(t, rows) \subseteq v.occurrence

InsertRows(b) ==
  LET x == txn[b]
      t == Table(b)
      last == x.at = Len(LinkTables)
  IN /\ Stage(b, "insert")
     /\ IF Breaks(View(x), t, x.rows) THEN Refused(b)
        ELSE Step(b, "insert", [Insert(x, t, x.rows) EXCEPT
                                  !.rows = {}, !.at = IF last THEN @ ELSE @ + 1,
                                  !.stage = IF last THEN "linked" ELSE "clear"])

Commit(b) ==
  /\ Stage(b, "linked")
  /\ db' = View(txn[b])
  /\ txn' = [c \in Batches |-> IF c = b THEN Idle
                               ELSE IF Open(c) THEN [txn[c] EXCEPT !.beside = @ \cup {b}] ELSE txn[c]]
  /\ outcome' = [outcome EXCEPT ![b] = "done"]
  /\ overlapped' = overlapped \cup { {b, c} : c \in txn[b].beside }
  /\ UNCHANGED plan

\* A deadlock's victim, or a process that ends: the reduce runs the whole again.
Rollback(b) ==
  /\ Open(b)
  /\ txn' = [txn EXCEPT ![b] = Idle]
  /\ UNCHANGED <<db, plan, outcome, overlapped>>

\* The scheduled rebuild has the link lock to itself.
RebuildAll ==
  /\ \A b \in Batches : ~Open(b)
  /\ db' = Rebuilt(db)
  /\ overlapped' = {}
  /\ UNCHANGED <<plan, txn, outcome>>

Next ==
  \/ RebuildAll
  \/ \E b \in Batches :
       \/ NewBatch(b) \/ Before(b) \/ LockFilePath(b) \/ DeleteRows(b) \/ ReplaceOccurrences(b)
       \/ After(b) \/ Clear(b) \/ Derive(b) \/ InsertRows(b) \/ Commit(b) \/ Rollback(b)

Spec == Init /\ [][Next]_vars
-----------------------------------------------------------------------------
FilesOf(b) == { plan[b][i].file : i \in DOMAIN plan[b] }
Off(t)     == (db[t] \ Rebuilt(db)[t]) \cup (Rebuilt(db)[t] \ db[t])

(* Rows are of their tables, and every end a derived row names is there,    *)
(* whatever ran beside the batch that wrote it.                             *)
TypeOK ==
  /\ DOMAIN db = Tables
  /\ \A o \in db.occurrence : o.file \in Files /\ o.load \in Batches \cup {"before"}
  /\ \A t \in {"resolves_to", "implements"} : Ends(t, db[t]) \subseteq db.occurrence
  /\ db.imports \subseteq Files \X Files
  /\ outcome \in [Batches -> {"running", "done", "refused"}]

(* The files a row rests on: those of its ends, and under implements every   *)
(* file that at one time or another defines either type or a member of it.   *)
DefinesEver(f, n) ==
  \E c \in Loads : \E i \in DOMAIN plan[c] :
    plan[c][i].file = f /\ \E s \in plan[c][i].text : s.role = "definition" /\ s.desc.of = n
RestsOn(t, r) ==
  IF t = "implements"
  THEN { f \in Files : \E k \in {1, 2} : DefinesEver(f, r[k].says.desc.of) }
  ELSE {File(t, r[1]), File(t, r[2])}

(* Two batches that each loaded a file the row rests on committed side by    *)
(* side.                                                                     *)
Concerns(b, t, r)  == RestsOn(t, r) \cap FilesOf(b) # {}
BothOverlapped(t, r) == \E p \in overlapped : \A b \in p : Concerns(b, t, r)

(* A batch that loaded none of them ran beside two that did, one after the   *)
(* other: it derived the row from the first one's text and inserts it when   *)
(* the second one has gone.  A row of resolves_to, whose two ends are all it *)
(* rests on, would be refused by its keys.                                   *)
Outrun(t, r) ==
  /\ t # "resolves_to"
  /\ \E a, b, c \in Batches : /\ a # b /\ Concerns(a, t, r) /\ Concerns(b, t, r)
                              /\ {a, c} \in overlapped /\ {b, c} \in overlapped

(* "The rows it leaves behind must be the rows a full rebuild would have     *)
(* left behind" (link/incremental.go) of a batch by itself.  Batches side by *)
(* side may miss a row, or keep one, when each of the two loaded a file the  *)
(* row rests on -- different files, its two ends or two that hold methods of *)
(* a type, or the same file, since Touch asks for the state before the load  *)
(* ahead of the lock on the path -- or when a third saw one of them and not  *)
(* the other, and nothing else: every other owner they share is exact, and a *)
(* rebuild puts the rest right.                                              *)
DriftBetweenOverlapped ==
  \A t \in Range(LinkTables) : \A r \in Off(t) : BothOverlapped(t, r) \/ Outrun(t, r)

(* A constraint refuses a batch -- an error withRetry does not retry, so    *)
(* the run fails -- only when another one committed beside it: alone, its   *)
(* statements are in an order no foreign key and no primary key minds.      *)
RefusedBesideAnother ==
  [][\A b \in Batches : outcome'[b] = "refused" /\ outcome[b] = "running" =>
       txn[b].beside # {}]_vars
=============================================================================
