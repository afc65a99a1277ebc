-------------------------- MODULE BatchRaceProofs --------------------------
(***************************************************************************)
(* Proofs, for any files, texts and batches side by side, of what          *)
(* BatchRace says of them: Shape, Sound and Lone are about the keys, Exact *)
(* and Drifts about the rows a rebuild would leave.                        *)
(***************************************************************************)
EXTENDS BatchRace, TLAPS

Linking   == {"resolves_to", "implements", "imports"}
Occurring == {"resolves_to", "implements"}
Fields    == {"stage", "at", "owners", "paths", "rows", "dels", "adds", "beside"}
Loading   == {"before", "path", "rows", "replace", "after"}
Relinking == {"clear", "derive", "insert"}

\* Every variable has its shape, and a transaction its place in the plan.
Shaped(b) ==
  \/ txn[b] = Idle
  \/ /\ DOMAIN txn[b] = Fields
     /\ txn[b].stage \in Loading \cup Relinking \cup {"linked"}
     /\ DOMAIN txn[b].dels = Tables /\ DOMAIN txn[b].adds = Tables
     /\ txn[b].stage \in Loading => txn[b].at \in DOMAIN plan[b]
     /\ txn[b].stage \in Relinking => txn[b].at \in 1..3
     /\ outcome[b] = "running"
     /\ \A c \in txn[b].beside : c \in Batches /\ outcome[c] = "done"

Shape ==
  /\ plan \in Plans /\ DOMAIN txn = Batches /\ DOMAIN db = Tables
  /\ outcome \in [Batches -> {"running", "done", "refused"}]
  /\ \A b \in Batches : Shaped(b)

(* The tables of a re-link, in its order. *)
LEMMA TableNames ==
  /\ Range(LinkTables) = Linking /\ Tables = Linking \cup {"occurrence"}
  /\ DOMAIN LinkTables = 1..3 /\ Len(LinkTables) = 3
  /\ LinkTables[1] = "resolves_to" /\ LinkTables[2] = "implements" /\ LinkTables[3] = "imports"
<1>1. DOMAIN LinkTables = 1..3 /\ Len(LinkTables) = 3
  BY DEF LinkTables
<1>2. LinkTables[1] = "resolves_to" /\ LinkTables[2] = "implements" /\ LinkTables[3] = "imports"
  BY DEF LinkTables
<1>3. \A i : i \in 1..3 <=> i = 1 \/ i = 2 \/ i = 3
  OBVIOUS
<1>4. Range(LinkTables) = Linking
  BY <1>1, <1>2, <1>3 DEF Range, Linking
<1> QED  BY <1>1, <1>2, <1>4 DEF Tables

(* A plan is a sequence of loads of different files. *)
LEMMA PlanShape ==
  ASSUME plan \in Plans, NEW b \in Batches
  PROVE  /\ Len(plan[b]) \in Nat /\ DOMAIN plan[b] = 1..Len(plan[b])
         /\ plan[b] # << >> => 1 \in DOMAIN plan[b]
         /\ \A i \in DOMAIN plan[b] : plan[b][i].file \in Files /\ plan[b][i].file \in FilesOf(b)
         /\ \A i, j \in DOMAIN plan[b] : plan[b][i].file = plan[b][j].file => i = j
<1> DEFINE p == plan[b]
<1>1. /\ p \in Seq(Range(p))
      /\ \A i \in DOMAIN p : p[i].file \in Files
      /\ \A i, j \in DOMAIN p : p[i].file = p[j].file => i = j
  BY PlansAssumption DEF Loads
<1> HIDE DEF p
<1>2. Len(p) \in Nat /\ DOMAIN p = 1..Len(p) /\ (p # << >> => 1 \in DOMAIN p)
  BY <1>1
<1>3. \A i \in DOMAIN p : p[i].file \in FilesOf(b)
  BY DEF FilesOf, p
<1> QED  BY <1>1, <1>2, <1>3 DEF p

(* And so is what was loaded before. *)
LEMMA FilesBefore ==
  ASSUME plan \in Plans
  PROVE  \A l \in Range(plan["before"]) :
           l.file \in Files /\ \E i \in DOMAIN plan["before"] : l = plan["before"][i]
<1>1. \A i \in DOMAIN plan["before"] : plan["before"][i].file \in Files
  BY PlansAssumption DEF Loads
<1> QED  BY <1>1 DEF Range

-----------------------------------------------------------------------------
(* What each action does to its batch's transaction. *)
Moves(b, from) ==
  /\ txn[b].stage = from /\ DOMAIN txn[b] = Fields /\ ~Blocked(b)
  /\ db' = db /\ plan' = plan /\ outcome' = outcome /\ overlapped' = overlapped
  /\ DOMAIN txn' = Batches /\ \A c \in Batches : c # b => txn'[c] = txn[c]
  /\ DOMAIN txn'[b] = Fields
  /\ txn'[b].beside = txn[b].beside

Same(b, S) == \A k \in S : txn'[b][k] = txn[b][k]

(* Batch.Touch ahead of a load: owners are added, nothing is written. *)
LEMMA BeforeMoves ==
  ASSUME Shape, NEW b \in Batches, Before(b)
  PROVE  /\ Moves(b, "before") /\ txn'[b].stage = "path"
         /\ Same(b, {"at", "paths", "rows", "dels", "adds"})
         /\ txn'[b].owners = txn[b].owners \cup RelinkOwners(View(txn[b]), At(b).file)
<1> DEFINE O == RelinkOwners(View(txn[b]), At(b).file)
<1>1. txn' = [txn EXCEPT ![b] = [txn[b] EXCEPT !.owners = @ \cup O, !.stage = "path"]]
  BY DEF Before, Step
<1> HIDE DEF O
<1>2. DOMAIN txn[b] = Fields /\ DOMAIN txn = Batches
  BY DEF Before, Step, Stage, Shape, Shaped, Idle
<1>3. txn'[b] = [txn[b] EXCEPT !.owners = @ \cup O, !.stage = "path"]
  BY <1>1, <1>2
<1>4. /\ DOMAIN txn'[b] = Fields /\ txn'[b].stage = "path" /\ txn'[b].owners = txn[b].owners \cup O
      /\ txn'[b].beside = txn[b].beside /\ Same(b, {"at", "paths", "rows", "dels", "adds"})
  BY <1>2, <1>3 DEF Fields, Same
<1> QED  BY <1>1, <1>2, <1>4 DEF Moves, Before, Step, Stage, O

(* The lock on a path: nothing is written. *)
LEMMA PathMoves ==
  ASSUME Shape, NEW b \in Batches, LockFilePath(b)
  PROVE  /\ Moves(b, "path") /\ txn'[b].stage = "rows"
         /\ Same(b, {"at", "owners", "rows", "dels", "adds"})
         /\ txn'[b].paths = txn[b].paths \cup {At(b).file}
<1>1. txn' = [txn EXCEPT ![b] = [txn[b] EXCEPT !.paths = @ \cup {At(b).file}, !.stage = "rows"]]
  BY DEF LockFilePath, Step
<1>2. DOMAIN txn[b] = Fields /\ DOMAIN txn = Batches
  BY DEF LockFilePath, Step, Stage, Shape, Shaped, Idle
<1>3. txn'[b] = [txn[b] EXCEPT !.paths = @ \cup {At(b).file}, !.stage = "rows"]
  BY <1>1, <1>2
<1>4. /\ DOMAIN txn'[b] = Fields /\ txn'[b].stage = "rows" /\ txn'[b].paths = txn[b].paths \cup {At(b).file}
      /\ txn'[b].beside = txn[b].beside /\ Same(b, {"at", "owners", "rows", "dels", "adds"})
  BY <1>2, <1>3 DEF Fields, Same
<1> QED  BY <1>1, <1>2, <1>4 DEF Moves, LockFilePath, Step, Stage

(* The rows of the file being loaded go, and no occurrence yet. *)
LEMMA RowsMoves ==
  ASSUME Shape, NEW b \in Batches, DeleteRows(b)
  PROVE  /\ Moves(b, "rows") /\ txn'[b].stage = "replace"
         /\ Same(b, {"at", "owners", "paths", "rows"})
         /\ DOMAIN txn'[b].dels = Tables /\ DOMAIN txn'[b].adds = Tables
         /\ \A t \in Linking :
              /\ txn'[b].dels[t] = txn[b].dels[t] \cup (ToClear(b)[t] \cap db[t])
              /\ txn'[b].adds[t] = txn[b].adds[t] \ ToClear(b)[t]
         /\ txn'[b].dels["occurrence"] = txn[b].dels["occurrence"]
         /\ txn'[b].adds["occurrence"] = txn[b].adds["occurrence"]
<1> DEFINE gone == [t \in Tables |-> IF t = "occurrence" THEN {} ELSE ToClear(b)[t]]
           D    == [t \in Tables |-> txn[b].dels[t] \cup (gone[t] \cap db[t])]
           A    == [t \in Tables |-> txn[b].adds[t] \ gone[t]]
<1>1. txn' = [txn EXCEPT ![b] = [txn[b] EXCEPT !.dels = D, !.adds = A, !.stage = "replace"]]
  BY DEF DeleteRows, Step
<1>2. DOMAIN txn[b] = Fields /\ DOMAIN txn = Batches
  BY DEF DeleteRows, Step, Stage, Shape, Shaped, Idle
<1>3. /\ DOMAIN D = Tables /\ DOMAIN A = Tables
      /\ \A t \in Linking : /\ D[t] = txn[b].dels[t] \cup (ToClear(b)[t] \cap db[t])
                            /\ A[t] = txn[b].adds[t] \ ToClear(b)[t]
      /\ D["occurrence"] = txn[b].dels["occurrence"] /\ A["occurrence"] = txn[b].adds["occurrence"]
  BY TableNames DEF Linking
<1> HIDE DEF gone, D, A
<1>4. txn'[b] = [txn[b] EXCEPT !.dels = D, !.adds = A, !.stage = "replace"]
  BY <1>1, <1>2
<1>5. /\ DOMAIN txn'[b] = Fields /\ txn'[b].stage = "replace" /\ txn'[b].dels = D /\ txn'[b].adds = A
      /\ txn'[b].beside = txn[b].beside /\ Same(b, {"at", "owners", "paths", "rows"})
  BY <1>2, <1>4 DEF Fields, Same
<1> QED  BY <1>1, <1>2, <1>3, <1>5 DEF Moves, DeleteRows, Step, Stage

(* A batch that ends without a commit leaves nothing but its outcome. *)
Ends_(b) ==
  /\ txn[b].stage # "idle" /\ db' = db /\ plan' = plan /\ overlapped' = overlapped
  /\ txn' = [txn EXCEPT ![b] = Idle]
  /\ outcome' = outcome \/ outcome' = [outcome EXCEPT ![b] = "refused"]

\* A derived row names an occurrence of the file being loaded.
Named(b) == \E t \in Occurring : RefersTo(View(txn[b])[t], Old(b))

(* Its occurrences are replaced, or the batch is refused. *)
LEMMA ReplaceMoves ==
  ASSUME Shape, NEW b \in Batches, ReplaceOccurrences(b)
  PROVE  \/ Ends_(b) /\ txn[b].stage = "replace" /\ Named(b) /\ outcome' = [outcome EXCEPT ![b] = "refused"]
         \/ /\ Moves(b, "replace") /\ txn'[b].stage = "after" /\ ~Named(b)
            /\ Same(b, {"at", "owners", "paths", "rows"})
            /\ DOMAIN txn'[b].dels = Tables /\ DOMAIN txn'[b].adds = Tables
            /\ \A t \in Linking : txn'[b].dels[t] = txn[b].dels[t] /\ txn'[b].adds[t] = txn[b].adds[t]
            /\ txn'[b].dels["occurrence"] = txn[b].dels["occurrence"] \cup (Old(b) \cap db["occurrence"])
            /\ txn'[b].adds["occurrence"] =
                 (txn[b].adds["occurrence"] \ Old(b)) \cup Rows(At(b).file, b, At(b).text)
<1> DEFINE x == txn[b]
           new == Rows(At(b).file, b, At(b).text)
           y == Insert(Delete(x, "occurrence", Old(b)), "occurrence", new)
<1>1. DOMAIN txn[b] = Fields /\ DOMAIN txn = Batches /\ txn[b].stage = "replace"
  BY DEF ReplaceOccurrences, Stage, Shape, Shaped, Idle
<1>2. CASE Named(b)
  <2>1. Refused(b)
    BY <1>2 DEF ReplaceOccurrences, Named, Occurring
  <2> QED  BY <1>1, <1>2, <2>1 DEF Refused, Close, Ends_
<1>3. CASE ~Named(b)
  <2>1. Step(b, "replace", [y EXCEPT !.stage = "after"])
    BY <1>3 DEF ReplaceOccurrences, Named, Occurring
  <2>2. txn'[b] = [y EXCEPT !.stage = "after"]
    BY <1>1, <2>1 DEF Step
  <2>3. DOMAIN x.dels = Tables /\ DOMAIN x.adds = Tables /\ "occurrence" \in Tables
        /\ \A t \in Linking : t \in Tables /\ t # "occurrence"
    BY <1>1, TableNames DEF Shape, Shaped, Idle, Linking
  <2> DEFINE z == Delete(x, "occurrence", Old(b))
  <2>4. DOMAIN z = Fields /\ z.dels = [x.dels EXCEPT !["occurrence"] = @ \cup (Old(b) \cap db["occurrence"])]
        /\ z.adds = [x.adds EXCEPT !["occurrence"] = @ \ Old(b)]
        /\ \A k \in {"at", "owners", "paths", "rows", "beside"} : z[k] = x[k]
    BY <1>1 DEF Delete, Fields
  <2> HIDE DEF z
  <2>5. DOMAIN y = Fields /\ y.dels = z.dels
        /\ y.adds = [z.adds EXCEPT !["occurrence"] = @ \cup new]
        /\ \A k \in {"at", "owners", "paths", "rows", "beside"} : y[k] = z[k]
    BY <2>4 DEF Insert, Fields, z
  <2> HIDE DEF y
  <2>6. /\ DOMAIN txn'[b] = Fields /\ txn'[b].stage = "after" /\ txn'[b].dels = y.dels /\ txn'[b].adds = y.adds
        /\ \A k \in {"at", "owners", "paths", "rows", "beside"} : txn'[b][k] = y[k]
    BY <2>2, <2>5 DEF Fields
  <2>7. /\ DOMAIN txn'[b].dels = Tables /\ DOMAIN txn'[b].adds = Tables
        /\ \A t \in Linking : txn'[b].dels[t] = x.dels[t] /\ txn'[b].adds[t] = x.adds[t]
        /\ txn'[b].dels["occurrence"] = x.dels["occurrence"] \cup (Old(b) \cap db["occurrence"])
        /\ txn'[b].adds["occurrence"] = (x.adds["occurrence"] \ Old(b)) \cup new
    BY <2>3, <2>4, <2>5, <2>6
  <2>8. Same(b, {"at", "owners", "paths", "rows"}) /\ txn'[b].beside = x.beside
    BY <2>4, <2>5, <2>6 DEF Same
  <2>9. Moves(b, "replace")
    BY <1>1, <2>1, <2>6, <2>8 DEF Step, Moves
  <2> QED  BY <1>3, <2>6, <2>7, <2>8, <2>9
<1> QED  BY <1>2, <1>3

(* Batch.Touch behind a load: on to the next one, or to the re-link. *)
LEMMA AfterMoves ==
  ASSUME Shape, NEW b \in Batches, After(b)
  PROVE  /\ Moves(b, "after")
         /\ Same(b, {"paths", "rows", "dels", "adds"})
         /\ txn'[b].owners = txn[b].owners \cup RelinkOwners(View(txn[b]), At(b).file)
         /\ IF txn[b].at = Len(plan[b]) THEN txn'[b].stage = "clear" /\ txn'[b].at = 1
            ELSE txn'[b].stage = "before" /\ txn'[b].at = txn[b].at + 1
<1> DEFINE O == RelinkOwners(View(txn[b]), At(b).file)
           last == txn[b].at = Len(plan[b])
           y == [txn[b] EXCEPT !.owners = @ \cup O, !.at = IF last THEN 1 ELSE @ + 1,
                               !.stage = IF last THEN "clear" ELSE "before"]
<1>1. txn' = [txn EXCEPT ![b] = y]
  BY DEF After, Step
<1> HIDE DEF O, last
<1>2. DOMAIN txn[b] = Fields /\ DOMAIN txn = Batches
  BY DEF After, Step, Stage, Shape, Shaped, Idle
<1>3. /\ DOMAIN y = Fields /\ y.owners = txn[b].owners \cup O
      /\ y.at = (IF last THEN 1 ELSE txn[b].at + 1) /\ y.stage = (IF last THEN "clear" ELSE "before")
      /\ \A k \in {"paths", "rows", "dels", "adds", "beside"} : y[k] = txn[b][k]
  BY <1>2 DEF Fields
<1>4. txn'[b] = y
  BY <1>1, <1>2
<1> HIDE DEF y
<1> QED  BY <1>1, <1>2, <1>3, <1>4 DEF Moves, After, Step, Stage, Same, O, last

(* The table's rows the batch owns go. *)
LEMMA ClearMoves ==
  ASSUME Shape, NEW b \in Batches, Clear(b)
  PROVE  /\ Moves(b, "clear") /\ txn'[b].stage = "derive"
         /\ Same(b, {"at", "owners", "paths", "rows"})
         /\ DOMAIN txn'[b].dels = Tables /\ DOMAIN txn'[b].adds = Tables
         /\ \A t \in Tables :
              IF t = Table(b)
              THEN /\ txn'[b].dels[t] = txn[b].dels[t] \cup (ToClear(b)[t] \cap db[t])
                   /\ txn'[b].adds[t] = txn[b].adds[t] \ ToClear(b)[t]
              ELSE txn'[b].dels[t] = txn[b].dels[t] /\ txn'[b].adds[t] = txn[b].adds[t]
<1> DEFINE x == txn[b]
           u == Table(b)
           C == ToClear(b)[u]
           z == Delete(x, u, C)
           y == [z EXCEPT !.stage = "derive"]
<1>1. txn' = [txn EXCEPT ![b] = y]
  BY DEF Clear, Step
<1>2. DOMAIN txn[b] = Fields /\ DOMAIN txn = Batches
  BY DEF Clear, Step, Stage, Shape, Shaped, Idle
<1>3. DOMAIN x.dels = Tables /\ DOMAIN x.adds = Tables /\ u \in Tables
  BY TableNames DEF Clear, Step, Stage, Shape, Shaped, Idle, Relinking, Loading, Table, Linking
<1> HIDE DEF C, u
<1>4. DOMAIN z = Fields /\ z.dels = [x.dels EXCEPT ![u] = @ \cup (C \cap db[u])]
      /\ z.adds = [x.adds EXCEPT ![u] = @ \ C]
      /\ \A k \in {"at", "owners", "paths", "rows", "beside"} : z[k] = x[k]
  BY <1>2 DEF Delete, Fields
<1> HIDE DEF z
<1>5. /\ DOMAIN y = Fields /\ y.stage = "derive" /\ y.dels = z.dels /\ y.adds = z.adds
      /\ \A k \in {"at", "owners", "paths", "rows", "beside"} : y[k] = z[k]
  BY <1>4 DEF Fields
<1> HIDE DEF y
<1>6. txn'[b] = y
  BY <1>1, <1>2
<1>7. /\ DOMAIN y.dels = Tables /\ DOMAIN y.adds = Tables
      /\ \A t \in Tables :
           IF t = u THEN y.dels[t] = x.dels[t] \cup (C \cap db[t]) /\ y.adds[t] = x.adds[t] \ C
           ELSE y.dels[t] = x.dels[t] /\ y.adds[t] = x.adds[t]
  BY <1>3, <1>4, <1>5
<1>8. Same(b, {"at", "owners", "paths", "rows"}) /\ txn'[b].beside = x.beside
  BY <1>4, <1>5, <1>6 DEF Same
<1>9. Moves(b, "clear")
  BY <1>1, <1>2, <1>5, <1>6, <1>8 DEF Moves, Clear, Step, Stage
<1> QED  BY <1>5, <1>6, <1>7, <1>8, <1>9 DEF C, u

(* What it will insert is derived, nothing is written. *)
LEMMA DeriveMoves ==
  ASSUME Shape, NEW b \in Batches, Derive(b)
  PROVE  /\ Moves(b, "derive") /\ txn'[b].stage = "insert"
         /\ Same(b, {"at", "owners", "paths", "dels", "adds"})
         /\ txn'[b].rows = Derived(View(txn[b]), Table(b), txn[b].owners)
<1> DEFINE D == Derived(View(txn[b]), Table(b), txn[b].owners)
<1>1. txn' = [txn EXCEPT ![b] = [txn[b] EXCEPT !.rows = D, !.stage = "insert"]]
  BY DEF Derive, Step
<1> HIDE DEF D
<1>2. DOMAIN txn[b] = Fields /\ DOMAIN txn = Batches
  BY DEF Derive, Step, Stage, Shape, Shaped, Idle
<1>3. txn'[b] = [txn[b] EXCEPT !.rows = D, !.stage = "insert"]
  BY <1>1, <1>2
<1>4. /\ DOMAIN txn'[b] = Fields /\ txn'[b].stage = "insert" /\ txn'[b].rows = D
      /\ txn'[b].beside = txn[b].beside /\ Same(b, {"at", "owners", "paths", "dels", "adds"})
  BY <1>2, <1>3 DEF Fields, Same
<1> QED  BY <1>1, <1>2, <1>4 DEF Moves, Derive, Step, Stage, D

(* What was derived is inserted, or the batch is refused. *)
LEMMA InsertMoves ==
  ASSUME Shape, NEW b \in Batches, InsertRows(b)
  PROVE  \/ /\ Ends_(b) /\ txn[b].stage = "insert" /\ outcome' = [outcome EXCEPT ![b] = "refused"]
            /\ Breaks(View(txn[b]), Table(b), txn[b].rows)
         \/ /\ Moves(b, "insert") /\ ~Breaks(View(txn[b]), Table(b), txn[b].rows)
            /\ Same(b, {"owners", "paths", "dels"})
            /\ DOMAIN txn'[b].adds = Tables
            /\ \A t \in Tables : txn'[b].adds[t] =
                 IF t = Table(b) THEN txn[b].adds[t] \cup txn[b].rows ELSE txn[b].adds[t]
            /\ IF txn[b].at = 3 THEN txn'[b].stage = "linked" /\ txn'[b].at = 3
               ELSE txn'[b].stage = "clear" /\ txn'[b].at = txn[b].at + 1
<1> DEFINE x == txn[b]
           u == Table(b)
           last == x.at = Len(LinkTables)
           z == Insert(x, u, x.rows)
           y == [z EXCEPT !.rows = {}, !.at = IF last THEN @ ELSE @ + 1,
                          !.stage = IF last THEN "linked" ELSE "clear"]
<1>1. DOMAIN txn[b] = Fields /\ DOMAIN txn = Batches /\ txn[b].stage = "insert"
  BY DEF InsertRows, Stage, Shape, Shaped, Idle
<1>2. CASE Breaks(View(txn[b]), Table(b), txn[b].rows)
  <2>1. Refused(b)
    BY <1>2 DEF InsertRows
  <2> QED  BY <1>1, <1>2, <2>1 DEF Refused, Close, Ends_
<1>3. CASE ~Breaks(View(txn[b]), Table(b), txn[b].rows)
  <2>1. Step(b, "insert", y)
    BY <1>3 DEF InsertRows
  <2>2. txn'[b] = y
    BY <1>1, <2>1 DEF Step
  <2>3. DOMAIN x.dels = Tables /\ DOMAIN x.adds = Tables /\ u \in Tables
    BY <1>1, TableNames DEF Shape, Shaped, Idle, Relinking, Table, Linking
  <2>4. last <=> x.at = 3
    BY TableNames
  <2> HIDE DEF u, last
  <2>5. DOMAIN z = Fields /\ z.adds = [x.adds EXCEPT ![u] = @ \cup x.rows]
        /\ \A k \in {"at", "owners", "paths", "dels", "beside"} : z[k] = x[k]
    BY <1>1 DEF Insert, Fields
  <2> HIDE DEF z
  <2>6. /\ DOMAIN y = Fields /\ y.adds = z.adds
        /\ y.at = (IF last THEN x.at ELSE x.at + 1) /\ y.stage = (IF last THEN "linked" ELSE "clear")
        /\ \A k \in {"owners", "paths", "dels", "beside"} : y[k] = z[k]
    BY <2>5 DEF Fields
  <2> HIDE DEF y
  <2>7. DOMAIN y.adds = Tables
        /\ \A t \in Tables : y.adds[t] = IF t = u THEN x.adds[t] \cup x.rows ELSE x.adds[t]
    BY <2>3, <2>5, <2>6
  <2>8. Same(b, {"owners", "paths", "dels"}) /\ txn'[b].beside = x.beside
    BY <2>2, <2>5, <2>6 DEF Same
  <2>9. Moves(b, "insert")
    BY <1>1, <2>1, <2>2, <2>6, <2>8 DEF Step, Moves
  <2> QED  BY <1>3, <2>2, <2>4, <2>6, <2>7, <2>8, <2>9 DEF u
<1> QED  BY <1>2, <1>3

(* A batch opens at its first load, or at the re-link if it has none. *)
LEMMA NewMoves ==
  ASSUME Shape, NEW b \in Batches, NewBatch(b)
  PROVE  /\ txn[b] = Idle /\ outcome[b] = "running"
         /\ db' = db /\ plan' = plan /\ outcome' = outcome /\ overlapped' = overlapped
         /\ DOMAIN txn' = Batches /\ \A c \in Batches : c # b => txn'[c] = txn[c]
         /\ DOMAIN txn'[b] = Fields
         /\ txn'[b].stage = (IF plan[b] = << >> THEN "clear" ELSE "before") /\ txn'[b].at = 1
         /\ txn'[b].owners = {} /\ txn'[b].paths = {} /\ txn'[b].rows = {} /\ txn'[b].beside = {}
         /\ txn'[b].dels = Empty /\ txn'[b].adds = Empty
<1>1. txn[b] = Idle
  BY DEF NewBatch, Stage, Shape, Shaped, Loading, Relinking
<1> QED  BY <1>1 DEF NewBatch, Shape, Fields

(* A commit: everyone else's transaction notes it. *)
LEMMA CommitMoves ==
  ASSUME Shape, NEW b \in Batches, Commit(b)
  PROVE  /\ txn[b].stage = "linked" /\ DOMAIN txn[b] = Fields
         /\ db' = View(txn[b]) /\ plan' = plan /\ outcome' = [outcome EXCEPT ![b] = "done"]
         /\ overlapped' = overlapped \cup { {b, c} : c \in txn[b].beside }
         /\ DOMAIN txn' = Batches /\ txn'[b] = Idle
         /\ \A c \in Batches : c # b =>
              IF txn[c] = Idle THEN txn'[c] = Idle
              ELSE /\ DOMAIN txn'[c] = Fields /\ DOMAIN txn[c] = Fields
                   /\ Same(c, {"stage", "at", "owners", "paths", "rows", "dels", "adds"})
                   /\ txn'[c].beside = txn[c].beside \cup {b}
<1>1. txn[b].stage = "linked" /\ DOMAIN txn[b] = Fields
  BY DEF Commit, Stage, Shape, Shaped, Idle
<1>2. ASSUME NEW c \in Batches, c # b
      PROVE  IF txn[c] = Idle THEN txn'[c] = Idle
             ELSE /\ DOMAIN txn'[c] = Fields /\ DOMAIN txn[c] = Fields
                  /\ Same(c, {"stage", "at", "owners", "paths", "rows", "dels", "adds"})
                  /\ txn'[c].beside = txn[c].beside \cup {b}
  <2>1. txn'[c] = IF Open(c) THEN [txn[c] EXCEPT !.beside = @ \cup {b}] ELSE txn[c]
    BY <1>2 DEF Commit
  <2>2. CASE txn[c] = Idle
    BY <2>1, <2>2 DEF Open, Idle
  <2>3. CASE txn[c] # Idle
    <3>1. DOMAIN txn[c] = Fields /\ Open(c)
      BY <2>3 DEF Shape, Shaped, Open, Loading, Relinking
    <3>2. txn'[c] = [txn[c] EXCEPT !.beside = @ \cup {b}]
      BY <2>1, <3>1
    <3>3. DOMAIN txn'[c] = Fields /\ txn'[c].beside = txn[c].beside \cup {b}
          /\ \A k \in {"stage", "at", "owners", "paths", "rows", "dels", "adds"} : txn'[c][k] = txn[c][k]
      BY <3>1, <3>2 DEF Fields
    <3> QED  BY <2>3, <3>1, <3>3 DEF Same
  <2> QED  BY <2>2, <2>3
<1> QED  BY <1>1, <1>2 DEF Commit

(* A rollback leaves the tables as they are. *)
LEMMA RollbackMoves ==
  ASSUME NEW b \in Batches, Rollback(b)
  PROVE  Ends_(b) /\ outcome' = outcome
BY DEF Rollback, Ends_, Open

-----------------------------------------------------------------------------
(* The graph starts in shape. *)
LEMMA ShapeInit == Init => Shape
<1> SUFFICES ASSUME Init PROVE Shape  OBVIOUS
<1>1. DOMAIN db = Tables
  <2>1. \E v : db = Rebuilt(v)
    BY DEF Init
  <2> QED  BY <2>1 DEF Rebuilt
<1>2. outcome \in [Batches -> {"running", "done", "refused"}]
  BY DEF Init
<1> QED  BY <1>1, <1>2 DEF Init, Shape, Shaped

\* A batch that moved keeps its shape, and the others theirs.
LEMMA MovesShape ==
  ASSUME Shape, NEW b \in Batches, NEW from, Moves(b, from),
         DOMAIN txn'[b].dels = Tables, DOMAIN txn'[b].adds = Tables,
         txn'[b].stage \in Loading \cup Relinking \cup {"linked"},
         txn'[b].stage \in Loading => txn'[b].at \in DOMAIN plan[b],
         txn'[b].stage \in Relinking => txn'[b].at \in 1..3
  PROVE  Shape'
<1>1. Shaped(b)'
  BY DEF Shape, Shaped, Moves, Idle, Fields
<1>2. \A c \in Batches : c # b => Shaped(c)'
  BY DEF Shape, Shaped, Moves
<1> QED  BY <1>1, <1>2 DEF Shape, Moves

(* A batch that ends leaves the others their shapes. *)
LEMMA EndsShape ==
  ASSUME Shape, NEW b \in Batches, Ends_(b)
  PROVE  Shape'
<1>1. outcome' \in [Batches -> {"running", "done", "refused"}]
  BY DEF Shape, Ends_
<1>2. outcome[b] = "running"
  BY DEF Shape, Shaped, Ends_, Idle
<1>3. \A c \in Batches : outcome[c] = "done" => outcome'[c] = "done"
  BY <1>2 DEF Shape, Ends_
<1>4. \A c \in Batches : c # b => outcome'[c] = outcome[c]
  BY DEF Shape, Ends_
<1>5. ASSUME NEW c \in Batches PROVE Shaped(c)'
  <2>1. CASE c = b
    BY <2>1 DEF Shaped, Ends_, Shape
  <2>2. CASE c # b
    <3>1. txn'[c] = txn[c] /\ plan' = plan
      BY <2>2 DEF Ends_
    <3> QED  BY <1>3, <1>4, <2>2, <3>1 DEF Shape, Shaped
  <2> QED  BY <2>1, <2>2
<1> QED  BY <1>1, <1>5 DEF Shape, Ends_

(* Every step keeps the shapes. *)
LEMMA ShapeNext == Shape /\ [Next]_vars => Shape'
<1> SUFFICES ASSUME Shape, [Next]_vars PROVE Shape'  OBVIOUS
<1>1. \A b \in Batches : txn[b].stage # "idle" =>
        DOMAIN txn[b] = Fields /\ DOMAIN txn[b].dels = Tables /\ DOMAIN txn[b].adds = Tables
  BY DEF Shape, Shaped, Idle
<1>2. \A b \in Batches : txn[b].stage \in Loading => txn[b].at \in DOMAIN plan[b]
  BY DEF Shape, Shaped, Idle, Loading
<1>3. \A b \in Batches : txn[b].stage \in Relinking => txn[b].at \in 1..3
  BY DEF Shape, Shaped, Idle, Relinking
<1>4. ASSUME NEW b \in Batches, NewBatch(b) PROVE Shape'
  <2>1. plan[b] # << >> => 1 \in DOMAIN plan[b]
    BY PlanShape DEF Shape
  <2>2. Shaped(b)'
    BY <1>4, <2>1, NewMoves DEF Shaped, Loading, Relinking, Empty
  <2>3. \A c \in Batches : c # b => Shaped(c)'
    BY <1>4, NewMoves DEF Shape, Shaped
  <2> QED  BY <1>4, <2>2, <2>3, NewMoves DEF Shape
<1>5. ASSUME NEW b \in Batches, Before(b) PROVE Shape'
  BY <1>1, <1>2, <1>5, BeforeMoves, MovesShape DEF Moves, Same, Loading, Relinking
<1>6. ASSUME NEW b \in Batches, LockFilePath(b) PROVE Shape'
  BY <1>1, <1>2, <1>6, PathMoves, MovesShape DEF Moves, Same, Loading, Relinking
<1>7. ASSUME NEW b \in Batches, DeleteRows(b) PROVE Shape'
  BY <1>1, <1>2, <1>7, RowsMoves, MovesShape DEF Moves, Same, Loading, Relinking
<1>8. ASSUME NEW b \in Batches, ReplaceOccurrences(b) PROVE Shape'
  BY <1>1, <1>2, <1>8, ReplaceMoves, MovesShape, EndsShape DEF Moves, Same, Loading, Relinking
<1>9. ASSUME NEW b \in Batches, After(b) PROVE Shape'
  <2>1. txn[b].at \in DOMAIN plan[b] /\ Len(plan[b]) \in Nat /\ DOMAIN plan[b] = 1..Len(plan[b])
    BY <1>2, <1>9, PlanShape DEF Shape, After, Step, Stage, Loading
  <2>2. txn[b].at # Len(plan[b]) => txn[b].at + 1 \in DOMAIN plan[b]
    BY <2>1
  <2>3. Moves(b, "after") /\ Same(b, {"paths", "rows", "dels", "adds"})
        /\ IF txn[b].at = Len(plan[b]) THEN txn'[b].stage = "clear" /\ txn'[b].at = 1
           ELSE txn'[b].stage = "before" /\ txn'[b].at = txn[b].at + 1
    BY <1>9, AfterMoves
  <2> QED  BY <1>1, <2>2, <2>3, MovesShape DEF Moves, Same, Loading, Relinking
<1>10. ASSUME NEW b \in Batches, Clear(b) PROVE Shape'
  BY <1>1, <1>3, <1>10, ClearMoves, MovesShape DEF Moves, Same, Loading, Relinking
<1>11. ASSUME NEW b \in Batches, Derive(b) PROVE Shape'
  BY <1>1, <1>3, <1>11, DeriveMoves, MovesShape DEF Moves, Same, Loading, Relinking
<1>12. ASSUME NEW b \in Batches, InsertRows(b) PROVE Shape'
  BY <1>1, <1>3, <1>12, InsertMoves, MovesShape, EndsShape DEF Moves, Same, Loading, Relinking
<1>13. ASSUME NEW b \in Batches, Commit(b) PROVE Shape'
  <2>1. /\ db' = View(txn[b]) /\ plan' = plan /\ outcome' = [outcome EXCEPT ![b] = "done"]
        /\ DOMAIN txn' = Batches /\ txn'[b] = Idle
        /\ \A c \in Batches : c # b =>
              IF txn[c] = Idle THEN txn'[c] = Idle
              ELSE /\ DOMAIN txn'[c] = Fields /\ DOMAIN txn[c] = Fields
                   /\ Same(c, {"stage", "at", "owners", "paths", "rows", "dels", "adds"})
                   /\ txn'[c].beside = txn[c].beside \cup {b}
    BY <1>13, CommitMoves
  <2>2. DOMAIN db' = Tables
    BY <2>1 DEF View
  <2>3. outcome' \in [Batches -> {"running", "done", "refused"}]
        /\ (\A c \in Batches : outcome[c] = "done" => outcome'[c] = "done")
        /\ outcome'[b] = "done" /\ (\A c \in Batches : c # b => outcome'[c] = outcome[c])
    BY <2>1 DEF Shape
  <2>4. ASSUME NEW c \in Batches, c # b PROVE Shaped(c)'
    BY <2>1, <2>3, <2>4 DEF Shape, Shaped, Same
  <2> QED  BY <2>1, <2>2, <2>3, <2>4 DEF Shape, Shaped
<1>14. ASSUME NEW b \in Batches, Rollback(b) PROVE Shape'
  BY <1>14, RollbackMoves, EndsShape
<1>15. CASE RebuildAll
  BY <1>15 DEF RebuildAll, Rebuilt, Shape, Shaped
<1>16. CASE UNCHANGED vars
  BY <1>16 DEF vars, Shape, Shaped
<1> QED  BY <1>4, <1>5, <1>6, <1>7, <1>8, <1>9, <1>10, <1>11, <1>12, <1>13, <1>14, <1>15, <1>16 DEF Next

-----------------------------------------------------------------------------
(* Foreign keys and row locks: what transactions side by side have deleted  *)
(* and inserted.                                                            *)
\* The load at i is behind the batch, or at one of the stages S.
Past(b, i, S)  == \/ txn[b].stage \notin Loading
                  \/ i < txn[b].at
                  \/ i = txn[b].at /\ txn[b].stage \in S
Replaced(b, f) == \E i \in DOMAIN plan[b] : plan[b][i].file = f /\ Past(b, i, {"after"})
\* The table t is re-linked.
Behind(b, t)   == \/ txn[b].stage = "linked"
                  \/ txn[b].stage \in Relinking /\ \E k \in 1..3 : k < txn[b].at /\ LinkTables[k] = t
Sees(b, o)     == \/ o \in db["occurrence"] /\ o \notin txn[b].dels["occurrence"]
                  \/ o \in txn[b].adds["occurrence"]

\* Only the files of its plan are replaced, and rows are inserted table by table.
Mine(b) ==
  /\ \A o \in txn[b].dels["occurrence"] : Replaced(b, o.file)
  /\ \A o \in txn[b].adds["occurrence"] : Replaced(b, o.file) /\ o.load = b
  /\ \A t \in Linking : ~Behind(b, t) => txn[b].adds[t] = {}

\* What a table of imports holds or is about to.
Imported(b) ==
  /\ txn[b].adds["imports"] \subseteq Files \X Files
  /\ txn[b].stage = "insert" /\ Table(b) = "imports" => txn[b].rows \subseteq Files \X Files

Committed ==
  /\ \A o \in db["occurrence"] : o.file \in Files /\ o.load \in Batches \cup {"before"}
  /\ db["imports"] \subseteq Files \X Files
  /\ \A t \in Occurring : \A r \in db[t] : r[1] \in db["occurrence"] /\ r[2] \in db["occurrence"]

\* A row b inserted has its ends; one that loses an end is deleted with it.
Anchored(b) ==
  \A t \in Occurring :
    /\ \A r \in txn[b].adds[t] : Sees(b, r[1]) /\ Sees(b, r[2])
    /\ \A r \in db[t] :
         r[1] \in txn[b].dels["occurrence"] \/ r[2] \in txn[b].dels["occurrence"] => r \in txn[b].dels[t]

\* No other transaction deletes an end of it, or the same row.
Apart(b, c) ==
  /\ \A t \in Occurring : \A r \in txn[b].adds[t] :
       r[1] \notin txn[c].dels["occurrence"] /\ r[2] \notin txn[c].dels["occurrence"]
  /\ \A t \in Linking : \A r \in txn[b].dels[t] : r \notin txn[c].dels[t]
There(b) == \A t \in Linking : txn[b].dels[t] \subseteq db[t]

Sound ==
  /\ Committed
  /\ \A b \in Batches : Open(b) => Mine(b) /\ Imported(b) /\ Anchored(b) /\ There(b)
  /\ \A b, c \in Batches : Open(b) /\ Open(c) /\ b # c => Apart(b, c)

(* The occurrences rows of a table name. *)
LEMMA EndsOf ==
  ASSUME NEW t \in Occurring, NEW R
  PROVE  \A o : o \in Ends(t, R) <=> \E r \in R : o = r[1] \/ o = r[2]
BY DEF Ends, Occurring

(* A transaction sees what is committed, less what it deleted, and what it inserted. *)
LEMMA ViewOf ==
  ASSUME NEW b
  PROVE  /\ \A t \in Tables : \A r : r \in View(txn[b])[t] <=>
               (r \in db[t] /\ r \notin txn[b].dels[t]) \/ r \in txn[b].adds[t]
         /\ \A o : o \in View(txn[b]).occurrence <=> Sees(b, o)
<1>1. \A t \in Tables : View(txn[b])[t] = (db[t] \ txn[b].dels[t]) \cup txn[b].adds[t]
  BY DEF View
<1>2. "occurrence" \in Tables
  BY TableNames
<1> QED  BY <1>1, <1>2 DEF Sees

(* What is derived from occurrences of the graph's files. *)
LEMMA DerivedRows ==
  ASSUME NEW v, NEW U, \A o \in v.occurrence : o.file \in Files
  PROVE  /\ \A t \in Occurring : \A r \in Derived(v, t, U) : r[1] \in v.occurrence /\ r[2] \in v.occurrence
         /\ Derived(v, "imports", U) \subseteq Files \X Files
<1>1. \A j \in Linked(v, U) : j \in v.occurrence \X v.occurrence
  BY DEF Linked
<1>2. Derived(v, "resolves_to", U) = Linked(v, U)
  BY DEF Derived
<1>3. \A r \in Derived(v, "implements", U) : r \in v.occurrence \X v.occurrence
  BY DEF Derived, Satisfies, Overrides, TypeDefs
<1>4. \A r \in Derived(v, "imports", U) : \E j \in Linked(v, U) : r = <<j[1].file, j[2].file>>
  BY DEF Derived
<1>5. \A j \in Linked(v, U) : j[1] \in v.occurrence /\ j[2] \in v.occurrence
  BY <1>1
<1>6. \A r \in Derived(v, "implements", U) : r[1] \in v.occurrence /\ r[2] \in v.occurrence
  BY <1>3
<1> QED  BY <1>2, <1>4, <1>5, <1>6 DEF Occurring

(* The graph starts with its keys in order. *)
LEMMA SoundInit == Init => Sound
<1> SUFFICES ASSUME Init PROVE Sound  OBVIOUS
<1> DEFINE O == UNION { Rows(l.file, "before", l.text) : l \in Range(plan["before"]) }
           v == [Empty EXCEPT !.occurrence = O]
<1>1. db = Rebuilt(v)
  BY DEF Init
<1>2. \A o \in O : o.file \in Files /\ o.load = "before"
  BY FilesBefore DEF Init, Rows
<1> HIDE DEF O
<1>3. v.occurrence = O
  BY TableNames DEF Empty
<1> HIDE DEF v
<1>4. /\ db["occurrence"] = O
      /\ \A t \in Linking : db[t] = Derived(v, t, Files)
  BY <1>1, <1>3, TableNames DEF Rebuilt, Linking
<1>5. Committed
  BY <1>2, <1>3, <1>4, DerivedRows DEF Committed, Occurring, Linking
<1>6. \A b \in Batches : ~Open(b)
  BY DEF Init, Open, Idle
<1> QED  BY <1>5, <1>6 DEF Sound

(* Where a batch is does not depend on the others; nor does what it sees,   *)
(* as long as nothing is committed.                                         *)
LEMMA SamePlace ==
  ASSUME NEW b, txn'[b] = txn[b] \/ Same(b, {"stage", "at", "rows", "dels", "adds"}), plan' = plan
  PROVE  /\ \A f : Replaced(b, f)' <=> Replaced(b, f)
         /\ \A t : Behind(b, t)' <=> Behind(b, t)
         /\ Mine(b)' <=> Mine(b)
         /\ Imported(b)' <=> Imported(b)
         /\ db' = db => /\ \A o : Sees(b, o)' <=> Sees(b, o)
                        /\ Anchored(b)' <=> Anchored(b)
                        /\ There(b)' <=> There(b)
<1>1. /\ txn'[b].stage = txn[b].stage /\ txn'[b].at = txn[b].at /\ txn'[b].rows = txn[b].rows
      /\ txn'[b].dels = txn[b].dels /\ txn'[b].adds = txn[b].adds
  BY DEF Same
<1>2. \A f : Replaced(b, f)' <=> Replaced(b, f)
  BY <1>1 DEF Replaced, Past
<1>3. \A t : Behind(b, t)' <=> Behind(b, t)
  BY <1>1 DEF Behind
<1>4. Mine(b)' <=> Mine(b)
  BY <1>1, <1>2, <1>3 DEF Mine
<1>5. Imported(b)' <=> Imported(b)
  BY <1>1 DEF Imported, Table
<1>6. db' = db => \A o : Sees(b, o)' <=> Sees(b, o)
  BY <1>1 DEF Sees
<1>7. db' = db => (Anchored(b)' <=> Anchored(b))
  BY <1>1, <1>6 DEF Anchored
<1>8. db' = db => (There(b)' <=> There(b))
  BY <1>1 DEF There
<1> QED  BY <1>2, <1>3, <1>4, <1>5, <1>6, <1>7, <1>8

(* The invariant through a step of b that commits nothing: what remains is  *)
(* what b alone deletes and inserts.                                        *)
LEMMA SoundMove ==
  ASSUME Shape, Sound, NEW b \in Batches, NEW from, Moves(b, from), from # "idle",
         Mine(b)', Imported(b)', Anchored(b)', There(b)',
         \A c \in Batches : Open(c) /\ c # b => Apart(b, c)' /\ Apart(c, b)'
  PROVE  Sound'
<1>1. db' = db /\ plan' = plan /\ \A c \in Batches : c # b => txn'[c] = txn[c]
  BY DEF Moves
<1>2. Committed'
  BY <1>1 DEF Sound, Committed
<1>3. ASSUME NEW c \in Batches, Open(c)' PROVE (Mine(c) /\ Imported(c) /\ Anchored(c) /\ There(c))'
  <2>1. CASE c = b
    BY <2>1
  <2>2. CASE c # b
    BY <1>1, <1>3, <2>2, SamePlace DEF Sound, Open
  <2> QED  BY <2>1, <2>2
<1>4. ASSUME NEW c \in Batches, NEW d \in Batches, Open(c)', Open(d)', c # d PROVE Apart(c, d)'
  <2>1. CASE c = b \/ d = b
    BY <1>1, <1>4, <2>1 DEF Open
  <2>2. CASE c # b /\ d # b
    BY <1>1, <1>4, <2>2 DEF Sound, Apart, Open
  <2> QED  BY <2>1, <2>2
<1> QED  BY <1>2, <1>3, <1>4 DEF Sound

\* What a batch has yet to re-link it has not inserted: before its rows are, and while it loads.
LEMMA NotYet ==
  ASSUME NEW b \in Batches, Mine(b)
  PROVE  /\ txn[b].stage \in Loading => \A t \in Linking : txn[b].adds[t] = {}
         /\ txn[b].stage \in Relinking /\ txn[b].at \in 1..3 => txn[b].adds[Table(b)] = {} /\ Table(b) \in Linking
<1>1. txn[b].stage \in Loading => \A t : ~Behind(b, t)
  BY DEF Behind, Loading, Relinking
<1>2. txn[b].stage \in Relinking /\ txn[b].at \in 1..3 => ~Behind(b, Table(b)) /\ Table(b) \in Linking
  <2> SUFFICES ASSUME txn[b].stage \in Relinking, txn[b].at \in 1..3
               PROVE  ~Behind(b, Table(b)) /\ Table(b) \in Linking
    OBVIOUS
  <2>1. \A k, l \in 1..3 : LinkTables[k] = LinkTables[l] => k = l
    BY TableNames
  <2>2. Table(b) = LinkTables[txn[b].at]
    BY DEF Table
  <2>3. txn[b].stage # "linked"
    BY DEF Relinking
  <2>4. LinkTables[txn[b].at] \in Linking
    BY TableNames DEF Linking
  <2> QED  BY <2>1, <2>2, <2>3, <2>4 DEF Behind
<1> QED  BY <1>1, <1>2 DEF Mine

(* A step that writes nothing. *)
LEMMA SoundStays ==
  ASSUME Shape, Sound, NEW b \in Batches, NEW from, Moves(b, from), from # "idle", Same(b, {"dels", "adds"}),
         \A f : Replaced(b, f) => Replaced(b, f)',
         \A t : Behind(b, t) => Behind(b, t)',
         Imported(b)'
  PROVE  Sound'
<1>1. /\ db' = db /\ plan' = plan /\ Open(b) /\ \A c \in Batches : c # b => txn'[c] = txn[c]
      /\ txn'[b].dels = txn[b].dels /\ txn'[b].adds = txn[b].adds
  BY DEF Moves, Open, Same
<1>2. Mine(b) /\ Anchored(b) /\ There(b)
  BY <1>1 DEF Sound
<1>3. Mine(b)'
  BY <1>1, <1>2 DEF Mine
<1>4. \A o : Sees(b, o)' <=> Sees(b, o)
  BY <1>1 DEF Sees
<1>5. Anchored(b)' /\ There(b)'
  BY <1>1, <1>2, <1>4 DEF Anchored, There
<1>6. \A c \in Batches : Open(c) /\ c # b => Apart(b, c)' /\ Apart(c, b)'
  BY <1>1 DEF Sound, Apart
<1> QED  BY <1>3, <1>5, <1>6, SoundMove

(* A batch that ends writes nothing. *)
LEMMA SoundEnds ==
  ASSUME Shape, Sound, NEW b \in Batches, Ends_(b)
  PROVE  Sound'
<1>1. /\ db' = db /\ plan' = plan /\ txn'[b] = Idle
      /\ \A c \in Batches : c # b => txn'[c] = txn[c]
  BY DEF Ends_, Shape
<1>2. Committed'
  BY <1>1 DEF Sound, Committed
<1>3. ~Open(b)'
  BY <1>1 DEF Open, Idle
<1>4. ASSUME NEW c \in Batches, Open(c)' PROVE (Mine(c) /\ Imported(c) /\ Anchored(c) /\ There(c))'
  BY <1>1, <1>3, <1>4, SamePlace DEF Sound, Open
<1>5. ASSUME NEW c \in Batches, NEW d \in Batches, Open(c)', Open(d)', c # d PROVE Apart(c, d)'
  BY <1>1, <1>3, <1>5 DEF Sound, Apart, Open
<1> QED  BY <1>2, <1>4, <1>5 DEF Sound

(* A batch that opens has written nothing. *)
LEMMA SoundNew ==
  ASSUME Shape, Sound, NEW b \in Batches, NewBatch(b)
  PROVE  Sound'
<1>1. /\ db' = db /\ plan' = plan
      /\ \A c \in Batches : c # b => txn'[c] = txn[c]
      /\ txn'[b].dels = Empty /\ txn'[b].adds = Empty
      /\ txn'[b].stage \in {"clear", "before"}
  BY NewMoves
<1>2. Committed'
  BY <1>1 DEF Sound, Committed
<1>3. \A t \in Tables : Empty[t] = {}
  BY DEF Empty
<1>4. \A t \in Linking : t \in Tables
  BY TableNames DEF Linking
<1>5. "occurrence" \in Tables /\ Occurring \subseteq Linking /\ "imports" \in Linking
  BY TableNames DEF Linking, Occurring
<1>6. \A t \in Tables : txn'[b].dels[t] = {} /\ txn'[b].adds[t] = {}
  BY <1>1, <1>3
<1>7. (Mine(b) /\ Imported(b) /\ Anchored(b) /\ There(b))'
  BY <1>1, <1>4, <1>5, <1>6 DEF Mine, Imported, Anchored, There
<1>8. ASSUME NEW c \in Batches, c # b, Open(c)' PROVE (Mine(c) /\ Imported(c) /\ Anchored(c) /\ There(c))'
  BY <1>1, <1>8, SamePlace DEF Sound, Open
<1>9. ASSUME NEW c \in Batches, NEW d \in Batches, Open(c)', Open(d)', c # d PROVE Apart(c, d)'
  <2>1. CASE c = b \/ d = b
    BY <1>4, <1>5, <1>6, <1>9, <2>1 DEF Apart
  <2>2. CASE c # b /\ d # b
    BY <1>1, <1>9, <2>2 DEF Sound, Apart, Open
  <2> QED  BY <2>1, <2>2
<1> QED  BY <1>2, <1>7, <1>8, <1>9 DEF Sound

(* The rows of a file are deleted: nobody else deletes them. *)
LEMMA SoundRows ==
  ASSUME Shape, Sound, NEW b \in Batches, DeleteRows(b)
  PROVE  Sound'
<1> DEFINE C == ToClear(b)
<1>1. /\ Moves(b, "rows") /\ txn'[b].stage = "replace"
      /\ Same(b, {"at", "owners", "paths", "rows"})
      /\ \A t \in Linking : /\ txn'[b].dels[t] = txn[b].dels[t] \cup (C[t] \cap db[t])
                            /\ txn'[b].adds[t] = txn[b].adds[t] \ C[t]
      /\ txn'[b].dels["occurrence"] = txn[b].dels["occurrence"]
      /\ txn'[b].adds["occurrence"] = txn[b].adds["occurrence"]
  BY RowsMoves
<1>2. \A c \in Batches : Open(c) /\ c # b => \A t \in Linking : C[t] \cap txn[c].dels[t] = {}
  <2>1. ~Blocked(b) /\ txn[b].stage = "rows"
    BY <1>1 DEF Moves
  <2>2. \A c \in Batches : Open(c) /\ c # b => ~WaitsFor(b, c)
    BY <2>1 DEF Blocked, Other
  <2> QED  BY <2>1, <2>2, TableNames DEF WaitsFor, Stage, Deleted
<1> HIDE DEF C
<1>3. /\ db' = db /\ plan' = plan /\ Open(b) /\ txn[b].stage = "rows"
      /\ \A c \in Batches : c # b => txn'[c] = txn[c]
      /\ txn'[b].at = txn[b].at /\ txn'[b].rows = txn[b].rows
  BY <1>1 DEF Moves, Open, Same
<1>4. Mine(b) /\ Anchored(b) /\ There(b) /\ Imported(b)
  BY <1>3 DEF Sound
<1>5. \A t \in Linking : txn'[b].adds[t] = {} /\ txn[b].adds[t] = {}
  BY <1>1, <1>3, <1>4, NotYet DEF Loading
<1>6. Occurring \subseteq Linking /\ "imports" \in Linking
  BY DEF Linking, Occurring
<1>7. \A f : Replaced(b, f)' <=> Replaced(b, f)
  BY <1>1, <1>3 DEF Replaced, Past, Loading
<1>8. Mine(b)'
  BY <1>1, <1>4, <1>5, <1>7 DEF Mine
<1>9. Imported(b)'
  BY <1>1, <1>5, <1>6 DEF Imported
<1>10. Anchored(b)'
  BY <1>1, <1>3, <1>4, <1>5, <1>6 DEF Anchored
<1>11. There(b)'
  BY <1>1, <1>3, <1>4 DEF There
<1>12. ASSUME NEW c \in Batches, Open(c), c # b PROVE Apart(b, c)' /\ Apart(c, b)'
  <2>1. Apart(b, c) /\ Apart(c, b) /\ txn'[c] = txn[c]
    BY <1>3, <1>12 DEF Sound
  <2>2. \A t \in Linking : C[t] \cap txn[c].dels[t] = {}
    BY <1>2, <1>12
  <2>3. Apart(b, c)'
    BY <1>1, <1>5, <1>6, <2>1, <2>2 DEF Apart
  <2>4. Apart(c, b)'
    BY <1>1, <1>6, <2>1, <2>2 DEF Apart
  <2> QED  BY <2>3, <2>4
<1> QED  BY <1>1, <1>8, <1>9, <1>10, <1>11, <1>12, SoundMove

(* The occurrences of a file are replaced: no row names the old ones. *)
LEMMA SoundReplace ==
  ASSUME Shape, Sound, NEW b \in Batches, ReplaceOccurrences(b), Moves(b, "replace")
  PROVE  Sound'
<1> DEFINE new == Rows(At(b).file, b, At(b).text)
           old == Old(b)
<1>1. /\ txn'[b].stage = "after" /\ ~Named(b)
      /\ Same(b, {"at", "owners", "paths", "rows"})
      /\ \A t \in Linking : txn'[b].dels[t] = txn[b].dels[t] /\ txn'[b].adds[t] = txn[b].adds[t]
      /\ txn'[b].dels["occurrence"] = txn[b].dels["occurrence"] \cup (old \cap db["occurrence"])
      /\ txn'[b].adds["occurrence"] = (txn[b].adds["occurrence"] \ old) \cup new
  <2>1. ~Ends_(b) \/ txn[b] # Idle
    BY DEF Moves, Idle
  <2>2. ~Ends_(b)
    BY DEF Moves, Ends_, Idle, Shape, Fields
  <2> QED  BY <2>2, ReplaceMoves
<1>2. /\ db' = db /\ plan' = plan /\ Open(b) /\ txn[b].stage = "replace"
      /\ \A c \in Batches : c # b => txn'[c] = txn[c]
      /\ txn'[b].at = txn[b].at /\ txn'[b].rows = txn[b].rows
  BY <1>1 DEF Moves, Open, Same
<1>3. Mine(b) /\ Anchored(b) /\ There(b) /\ Imported(b)
  BY <1>2 DEF Sound
<1>4. \A o \in old : o.file = At(b).file
  BY DEF Old
<1>5. \A o \in new : o.file = At(b).file /\ o.load = b
  BY DEF Rows
<1>6. txn[b].at \in DOMAIN plan[b] /\ At(b) = plan[b][txn[b].at]
  BY <1>2 DEF Shape, Shaped, Idle, Loading, At
<1>7. \A c \in Batches : Open(c) /\ c # b =>
        \A t \in Occurring : \A r \in txn[c].adds[t] : r[1] \notin old /\ r[2] \notin old
  <2>1. \A c \in Batches : Open(c) /\ c # b => ~WaitsFor(b, c)
    BY DEF Moves, Blocked, Other
  <2> QED  BY <1>2, <2>1 DEF WaitsFor, Stage, RefersTo, Inserted, Occurring
<1>8. \A t \in Occurring : \A r \in db[t] : r \notin txn[b].dels[t] => r[1] \notin old /\ r[2] \notin old
  <2>1. \A t \in Occurring : t \in Tables
    BY TableNames DEF Occurring, Linking
  <2>2. \A t \in Occurring : \A r \in View(txn[b])[t] : r[1] \notin old /\ r[2] \notin old
    BY <1>1 DEF Named, RefersTo
  <2> QED  BY <2>1, <2>2, ViewOf
<1> HIDE DEF new, old
<1>9. Occurring \subseteq Linking /\ "imports" \in Linking
  BY DEF Linking, Occurring
<1>10. \A t \in Linking : txn'[b].adds[t] = {}
  BY <1>1, <1>2, <1>3, NotYet DEF Loading
<1>11. \A f : Replaced(b, f) \/ f = At(b).file => Replaced(b, f)'
  BY <1>1, <1>2, <1>6 DEF Replaced, Past, Loading
<1>12. Mine(b)'
  <2>1. \A o \in txn'[b].dels["occurrence"] : Replaced(b, o.file)'
    BY <1>1, <1>3, <1>4, <1>11 DEF Mine
  <2>2. \A o \in txn'[b].adds["occurrence"] : Replaced(b, o.file)' /\ o.load = b
    BY <1>1, <1>3, <1>5, <1>11 DEF Mine
  <2> QED  BY <1>10, <2>1, <2>2 DEF Mine
<1>13. Imported(b)'
  BY <1>1, <1>9, <1>10 DEF Imported
<1>14. Anchored(b)'
  BY <1>1, <1>2, <1>3, <1>8, <1>9, <1>10 DEF Anchored
<1>15. There(b)'
  BY <1>1, <1>2, <1>3 DEF There
<1>16. ASSUME NEW c \in Batches, Open(c), c # b PROVE Apart(b, c)' /\ Apart(c, b)'
  <2>1. Apart(b, c) /\ Apart(c, b) /\ txn'[c] = txn[c]
    BY <1>2, <1>16 DEF Sound
  <2>2. Apart(b, c)'
    BY <1>1, <1>9, <1>10, <2>1 DEF Apart
  <2>3. Apart(c, b)'
    BY <1>1, <1>7, <1>16, <2>1 DEF Apart
  <2> QED  BY <2>2, <2>3
<1> QED  BY <1>12, <1>13, <1>14, <1>15, <1>16, SoundMove

\* Transactions see occurrences of the graph's files.
LEMMA ViewFiles ==
  ASSUME Shape, Sound, NEW b \in Batches, Open(b)
  PROVE  /\ \A o \in View(txn[b]).occurrence : o.file \in Files
         /\ \A f : Replaced(b, f) => f \in Files /\ f \in FilesOf(b)
<1>1. \A f : Replaced(b, f) => f \in Files /\ f \in FilesOf(b)
  BY PlanShape DEF Replaced, Shape
<1>2. Mine(b) /\ Committed
  BY DEF Sound
<1> QED  BY <1>1, <1>2, ViewOf DEF Sees, Mine, Committed

(* The rows of a table's owners are deleted: nobody else deletes them. *)
LEMMA SoundClear ==
  ASSUME Shape, Sound, NEW b \in Batches, Clear(b)
  PROVE  Sound'
<1> DEFINE u == Table(b)
           C == ToClear(b)[u]
<1>1. /\ Moves(b, "clear") /\ txn'[b].stage = "derive"
      /\ Same(b, {"at", "owners", "paths", "rows"})
      /\ \A t \in Tables :
           IF t = u THEN txn'[b].dels[t] = txn[b].dels[t] \cup (C \cap db[t]) /\ txn'[b].adds[t] = txn[b].adds[t] \ C
           ELSE txn'[b].dels[t] = txn[b].dels[t] /\ txn'[b].adds[t] = txn[b].adds[t]
  BY ClearMoves
<1>2. /\ db' = db /\ plan' = plan /\ Open(b) /\ txn[b].stage = "clear"
      /\ \A c \in Batches : c # b => txn'[c] = txn[c]
      /\ txn'[b].at = txn[b].at /\ txn'[b].rows = txn[b].rows
  BY <1>1 DEF Moves, Open, Same
<1>3. Mine(b) /\ Anchored(b) /\ There(b) /\ Imported(b)
  BY <1>2 DEF Sound
<1>4. txn[b].at \in 1..3
  BY <1>2 DEF Shape, Shaped, Idle, Relinking
<1>5. u \in Linking /\ txn[b].adds[u] = {}
  BY <1>2, <1>3, <1>4, NotYet DEF Relinking
<1>6. \A c \in Batches : Open(c) /\ c # b => C \cap txn[c].dels[u] = {}
  <2>1. \A c \in Batches : Open(c) /\ c # b => ~WaitsFor(b, c)
    BY <1>1 DEF Moves, Blocked, Other
  <2> QED  BY <1>2, <2>1 DEF WaitsFor, Stage, Deleted
<1> HIDE DEF u, C
<1>7. Occurring \subseteq Linking /\ "imports" \in Linking /\ Linking \subseteq Tables
      /\ "occurrence" \in Tables /\ "occurrence" \notin Linking
  BY TableNames DEF Linking, Occurring
<1>8. /\ \A t \in Linking : /\ txn'[b].adds[t] = txn[b].adds[t]
                            /\ txn[b].dels[t] \subseteq txn'[b].dels[t]
                            /\ txn'[b].dels[t] \subseteq txn[b].dels[t] \cup (IF t = u THEN C \cap db[t] ELSE {})
      /\ txn'[b].dels["occurrence"] = txn[b].dels["occurrence"]
      /\ txn'[b].adds["occurrence"] = txn[b].adds["occurrence"]
  BY <1>1, <1>5, <1>7
<1>9. (\A f : Replaced(b, f)' <=> Replaced(b, f)) /\ (\A t : Behind(b, t)' <=> Behind(b, t))
  BY <1>1, <1>2 DEF Replaced, Past, Behind, Loading, Relinking
<1>10. Mine(b)'
  BY <1>3, <1>8, <1>9 DEF Mine
<1>11. Imported(b)'
  BY <1>1, <1>3, <1>7, <1>8 DEF Imported
<1>12. \A o : Sees(b, o)' <=> Sees(b, o)
  BY <1>2, <1>8 DEF Sees
<1>13. Anchored(b)'
  BY <1>2, <1>3, <1>7, <1>8, <1>12 DEF Anchored
<1>14. There(b)'
  BY <1>2, <1>3, <1>8 DEF There
<1>15. ASSUME NEW c \in Batches, Open(c), c # b PROVE Apart(b, c)' /\ Apart(c, b)'
  <2>1. Apart(b, c) /\ Apart(c, b) /\ txn'[c] = txn[c]
    BY <1>2, <1>15 DEF Sound
  <2>2. C \cap txn[c].dels[u] = {}
    BY <1>6, <1>15
  <2>3. \A t \in Linking : \A r \in txn'[b].dels[t] : r \in txn[b].dels[t] \/ (t = u /\ r \in C)
    BY <1>8
  <2>4. Apart(b, c)'
    BY <1>7, <1>8, <2>1, <2>2, <2>3 DEF Apart
  <2>5. Apart(c, b)'
    BY <1>7, <1>8, <2>1, <2>2, <2>3 DEF Apart
  <2> QED  BY <2>4, <2>5
<1> QED  BY <1>1, <1>10, <1>11, <1>13, <1>14, <1>15, SoundMove

(* What is derived is inserted: its ends are there, and nobody deletes them. *)
LEMMA SoundInsert ==
  ASSUME Shape, Sound, NEW b \in Batches, InsertRows(b), Moves(b, "insert")
  PROVE  Sound'
<1> DEFINE u == Table(b)
           R == txn[b].rows
<1>1. /\ ~Breaks(View(txn[b]), u, R)
      /\ Same(b, {"owners", "paths", "dels"})
      /\ \A t \in Tables : txn'[b].adds[t] = IF t = u THEN txn[b].adds[t] \cup R ELSE txn[b].adds[t]
      /\ IF txn[b].at = 3 THEN txn'[b].stage = "linked" /\ txn'[b].at = 3
         ELSE txn'[b].stage = "clear" /\ txn'[b].at = txn[b].at + 1
  <2>1. ~Ends_(b)
    BY DEF Moves, Ends_, Idle, Shape, Fields
  <2> QED  BY <2>1, InsertMoves
<1>2. /\ db' = db /\ plan' = plan /\ Open(b) /\ txn[b].stage = "insert"
      /\ \A c \in Batches : c # b => txn'[c] = txn[c]
      /\ txn'[b].dels = txn[b].dels
  BY <1>1 DEF Moves, Open, Same
<1>3. Mine(b) /\ Anchored(b) /\ There(b) /\ Imported(b)
  BY <1>2 DEF Sound
<1>4. txn[b].at \in 1..3 /\ LinkTables[txn[b].at] = u
  BY <1>2 DEF Shape, Shaped, Idle, Relinking, Table
<1>5. u \in Linking
  BY <1>2, <1>3, <1>4, NotYet DEF Relinking
<1>6. u = "imports" => R \subseteq Files \X Files
  BY <1>2, <1>3 DEF Imported
<1>7. u \in Occurring => \A r \in R : /\ Sees(b, r[1]) /\ Sees(b, r[2])
                                     /\ \A c \in Batches : Open(c) /\ c # b =>
                                          r[1] \notin txn[c].dels["occurrence"] /\ r[2] \notin txn[c].dels["occurrence"]
  <2> SUFFICES ASSUME u \in Occurring, NEW r \in R
               PROVE  /\ Sees(b, r[1]) /\ Sees(b, r[2])
                      /\ \A c \in Batches : Open(c) /\ c # b =>
                           r[1] \notin txn[c].dels["occurrence"] /\ r[2] \notin txn[c].dels["occurrence"]
    OBVIOUS
  <2>1. r[1] \in Ends(u, R) /\ r[2] \in Ends(u, R)
    BY EndsOf
  <2>2. Sees(b, r[1]) /\ Sees(b, r[2])
    <3>1. Ends(u, R) \subseteq View(txn[b]).occurrence
      BY <1>1 DEF Breaks
    <3> QED  BY <2>1, <3>1, ViewOf
  <2>3. \A c \in Batches : Open(c) /\ c # b => Ends(u, R) \cap txn[c].dels["occurrence"] = {}
    <3>1. \A c \in Batches : Open(c) /\ c # b => ~WaitsFor(b, c)
      BY DEF Moves, Blocked, Other
    <3> QED  BY <1>2, <3>1 DEF WaitsFor, Stage, Deleted
  <2> QED  BY <2>1, <2>2, <2>3
<1> HIDE DEF u, R
<1>8. Occurring \subseteq Linking /\ "imports" \in Linking /\ Linking \subseteq Tables
      /\ "occurrence" \in Tables /\ "occurrence" \notin Linking
  BY TableNames DEF Linking, Occurring
<1>9. /\ \A t \in Linking : txn'[b].adds[t] = IF t = u THEN txn[b].adds[t] \cup R ELSE txn[b].adds[t]
      /\ txn'[b].adds["occurrence"] = txn[b].adds["occurrence"]
  BY <1>1, <1>5, <1>8
<1>10. \A f : Replaced(b, f)' <=> Replaced(b, f)
  BY <1>1, <1>2 DEF Replaced, Past, Loading
<1>11. \A t : Behind(b, t) \/ t = u => Behind(b, t)'
  BY <1>1, <1>2, <1>4 DEF Behind, Relinking
<1>12. Mine(b)'
  BY <1>2, <1>3, <1>9, <1>10, <1>11 DEF Mine
<1>13. Imported(b)'
  BY <1>1, <1>3, <1>6, <1>8, <1>9 DEF Imported
<1>14. \A o : Sees(b, o)' <=> Sees(b, o)
  BY <1>2, <1>9 DEF Sees
<1>15. Anchored(b)'
  BY <1>2, <1>3, <1>7, <1>8, <1>9, <1>14 DEF Anchored
<1>16. There(b)'
  BY <1>2, <1>3 DEF There
<1>17. ASSUME NEW c \in Batches, Open(c), c # b PROVE Apart(b, c)' /\ Apart(c, b)'
  <2>1. Apart(b, c) /\ Apart(c, b) /\ txn'[c] = txn[c]
    BY <1>2, <1>17 DEF Sound
  <2>2. Apart(b, c)'
    BY <1>2, <1>7, <1>8, <1>9, <1>17, <2>1 DEF Apart
  <2>3. Apart(c, b)'
    BY <1>2, <2>1 DEF Apart
  <2> QED  BY <2>2, <2>3
<1> QED  BY <1>12, <1>13, <1>15, <1>16, <1>17, SoundMove

(* What a batch commits has its ends, and leaves the others theirs. *)
LEMMA SoundCommit ==
  ASSUME Shape, Sound, NEW b \in Batches, Commit(b)
  PROVE  Sound'
<1>1. /\ txn[b].stage = "linked" /\ db' = View(txn[b]) /\ plan' = plan /\ txn'[b] = Idle
      /\ \A c \in Batches : c # b =>
              IF txn[c] = Idle THEN txn'[c] = Idle
              ELSE Same(c, {"stage", "at", "owners", "paths", "rows", "dels", "adds"})
  BY CommitMoves
<1>2. Open(b) /\ ~Open(b)'
  BY <1>1 DEF Open, Idle
<1>3. Mine(b) /\ Imported(b) /\ Anchored(b) /\ There(b) /\ Committed
  BY <1>2 DEF Sound
<1>4. Occurring \subseteq Linking /\ "imports" \in Linking /\ Linking \subseteq Tables /\ "occurrence" \in Tables
  BY TableNames DEF Linking, Occurring
<1>5. /\ \A t \in Tables : \A r : r \in db'[t] <=> (r \in db[t] /\ r \notin txn[b].dels[t]) \/ r \in txn[b].adds[t]
      /\ \A o : o \in db'["occurrence"] <=> Sees(b, o)
  BY <1>1, <1>4, ViewOf DEF Sees
<1>6. Committed'
  <2>1. \A o \in db'["occurrence"] : o.file \in Files /\ o.load \in Batches \cup {"before"}
    BY <1>2, <1>3, <1>5, ViewFiles DEF Sees, Mine, Committed
  <2>2. db'["imports"] \subseteq Files \X Files
    BY <1>3, <1>4, <1>5 DEF Committed, Imported
  <2>3. \A t \in Occurring : \A r \in db'[t] : r[1] \in db'["occurrence"] /\ r[2] \in db'["occurrence"]
    BY <1>3, <1>4, <1>5 DEF Committed, Anchored, Sees
  <2> QED  BY <2>1, <2>2, <2>3 DEF Committed
<1>7. ASSUME NEW c \in Batches, Open(c)'
      PROVE  /\ c # b /\ Open(c) /\ txn'[c].dels = txn[c].dels /\ txn'[c].adds = txn[c].adds
             /\ Same(c, {"stage", "at", "rows", "dels", "adds"})
  <2>1. c # b /\ txn'[c] # Idle
    BY <1>2, <1>7 DEF Open, Idle
  <2>2. Same(c, {"stage", "at", "owners", "paths", "rows", "dels", "adds"})
    BY <1>1, <2>1
  <2> QED  BY <1>7, <2>1, <2>2 DEF Same, Open
<1>8. ASSUME NEW c \in Batches, Open(c)' PROVE (Mine(c) /\ Imported(c) /\ Anchored(c) /\ There(c))'
  <2>1. /\ c # b /\ Open(c) /\ txn'[c].dels = txn[c].dels /\ txn'[c].adds = txn[c].adds
        /\ Same(c, {"stage", "at", "rows", "dels", "adds"})
    BY <1>7, <1>8
  <2>2. Mine(c) /\ Imported(c) /\ Anchored(c) /\ There(c) /\ Apart(b, c) /\ Apart(c, b)
    BY <1>2, <2>1 DEF Sound
  <2>3. Mine(c)' /\ Imported(c)'
    BY <1>1, <2>1, <2>2, SamePlace
  <2>4. \A t \in Occurring : \A r \in txn'[c].adds[t] : Sees(c, r[1])' /\ Sees(c, r[2])'
    <3> TAKE t \in Occurring
    <3> TAKE r \in txn'[c].adds[t]
    <3>1. Sees(c, r[1]) /\ Sees(c, r[2])
      BY <2>1, <2>2 DEF Anchored
    <3>2. r[1] \notin txn[b].dels["occurrence"] /\ r[2] \notin txn[b].dels["occurrence"]
      BY <2>1, <2>2 DEF Apart
    <3>3. \A o : Sees(c, o) /\ o \notin txn[b].dels["occurrence"] => Sees(c, o)'
      BY <1>4, <1>5, <2>1 DEF Sees
    <3> QED  BY <3>1, <3>2, <3>3
  <2>5. \A t \in Occurring : \A r \in db'[t] :
          r[1] \in txn'[c].dels["occurrence"] \/ r[2] \in txn'[c].dels["occurrence"] => r \in txn'[c].dels[t]
    BY <1>4, <1>5, <2>1, <2>2 DEF Anchored, Apart
  <2>6. There(c)'
    BY <1>4, <1>5, <2>1, <2>2 DEF There, Apart
  <2> QED  BY <2>3, <2>4, <2>5, <2>6 DEF Anchored
<1>9. ASSUME NEW c \in Batches, NEW d \in Batches, Open(c)', Open(d)', c # d PROVE Apart(c, d)'
  <2>1. Open(c) /\ Open(d) /\ txn'[c].dels = txn[c].dels /\ txn'[c].adds = txn[c].adds
        /\ txn'[d].dels = txn[d].dels
    BY <1>7, <1>9
  <2>2. Apart(c, d)
    BY <1>9, <2>1 DEF Sound
  <2> QED  BY <2>1, <2>2 DEF Apart
<1> QED  BY <1>6, <1>8, <1>9 DEF Sound

(* A rebuild derives rows between occurrences that are there. *)
LEMMA SoundRebuild ==
  ASSUME Shape, Sound, RebuildAll
  PROVE  Sound'
<1>1. db' = Rebuilt(db) /\ txn' = txn /\ \A b \in Batches : ~Open(b)
  BY DEF RebuildAll
<1>2. Committed
  BY DEF Sound
<1>3. db'["occurrence"] = db["occurrence"] /\ \A t \in Linking : db'[t] = Derived(db, t, Files)
  BY <1>1, TableNames DEF Rebuilt, Linking
<1>4. db["occurrence"] = db.occurrence
  OBVIOUS
<1>5. Committed'
  BY <1>2, <1>3, <1>4, DerivedRows DEF Committed, Occurring, Linking
<1>6. \A b \in Batches : ~Open(b)'
  BY <1>1 DEF Open
<1> QED  BY <1>5, <1>6 DEF Sound

(* Every step keeps the keys and the rows in order. *)
LEMMA SoundNext == Shape /\ Sound /\ [Next]_vars => Sound'
<1> SUFFICES ASSUME Shape, Sound, [Next]_vars PROVE Sound'  OBVIOUS
<1>1. ASSUME NEW b \in Batches, NEW from, Moves(b, from), from # "idle"
      PROVE  Open(b) /\ plan' = plan /\ Imported(b) /\ Mine(b) /\ Shaped(b)
  BY <1>1 DEF Moves, Sound, Open, Shape
<1>2. ASSUME NEW b \in Batches, Before(b) PROVE Sound'
  <2>1. /\ Moves(b, "before") /\ txn'[b].stage = "path"
        /\ Same(b, {"at", "paths", "rows", "dels", "adds"})
    BY <1>2, BeforeMoves
  <2>2. /\ \A f : Replaced(b, f) => Replaced(b, f)'
        /\ \A t : Behind(b, t) => Behind(b, t)'
    BY <2>1 DEF Moves, Same, Replaced, Past, Behind, Loading, Relinking
  <2>3. Imported(b)'
    BY <1>1, <2>1 DEF Imported, Same
  <2> QED  BY <2>1, <2>2, <2>3, SoundStays DEF Same
<1>3. ASSUME NEW b \in Batches, LockFilePath(b) PROVE Sound'
  <2>1. /\ Moves(b, "path") /\ txn'[b].stage = "rows"
        /\ Same(b, {"at", "owners", "rows", "dels", "adds"})
    BY <1>3, PathMoves
  <2>2. /\ \A f : Replaced(b, f) => Replaced(b, f)'
        /\ \A t : Behind(b, t) => Behind(b, t)'
    BY <2>1 DEF Moves, Same, Replaced, Past, Behind, Loading, Relinking
  <2>3. Imported(b)'
    BY <1>1, <2>1 DEF Imported, Same
  <2> QED  BY <2>1, <2>2, <2>3, SoundStays DEF Same
<1>4. ASSUME NEW b \in Batches, After(b) PROVE Sound'
  <2>1. /\ Moves(b, "after") /\ Same(b, {"paths", "rows", "dels", "adds"})
        /\ IF txn[b].at = Len(plan[b]) THEN txn'[b].stage = "clear" /\ txn'[b].at = 1
           ELSE txn'[b].stage = "before" /\ txn'[b].at = txn[b].at + 1
    BY <1>4, AfterMoves
  <2>2. txn[b].at \in Nat /\ (\A i \in DOMAIN plan[b] : i \in Nat) /\ plan' = plan /\ txn[b].stage = "after"
    BY <2>1, PlanShape DEF Shape, Shaped, Idle, Moves, Loading
  <2>3. /\ \A f : Replaced(b, f) => Replaced(b, f)'
        /\ \A t : Behind(b, t) => Behind(b, t)'
    BY <2>1, <2>2 DEF Replaced, Past, Behind, Loading, Relinking
  <2>4. Imported(b)'
    BY <1>1, <2>1 DEF Imported, Same
  <2> QED  BY <2>1, <2>3, <2>4, SoundStays DEF Same
<1>5. ASSUME NEW b \in Batches, Derive(b) PROVE Sound'
  <2>1. /\ Moves(b, "derive") /\ txn'[b].stage = "insert"
        /\ Same(b, {"at", "owners", "paths", "dels", "adds"})
        /\ txn'[b].rows = Derived(View(txn[b]), Table(b), txn[b].owners)
    BY <1>5, DeriveMoves
  <2>2. /\ \A f : Replaced(b, f) => Replaced(b, f)'
        /\ \A t : Behind(b, t) => Behind(b, t)'
    BY <2>1 DEF Moves, Same, Replaced, Past, Behind, Loading, Relinking
  <2>3. Derived(View(txn[b]), "imports", txn[b].owners) \subseteq Files \X Files
    BY <1>1, <2>1, ViewFiles, DerivedRows
  <2>4. Table(b)' = Table(b) /\ txn'[b].adds = txn[b].adds
    BY <2>1 DEF Same, Table
  <2>5. Imported(b)'
    BY <1>1, <2>1, <2>3, <2>4 DEF Imported
  <2> QED  BY <2>1, <2>2, <2>5, SoundStays DEF Same
<1>6. ASSUME NEW b \in Batches, ReplaceOccurrences(b) PROVE Sound'
  BY <1>6, ReplaceMoves, SoundReplace, SoundEnds
<1>7. ASSUME NEW b \in Batches, InsertRows(b) PROVE Sound'
  BY <1>7, InsertMoves, SoundInsert, SoundEnds
<1>8. ASSUME NEW b \in Batches, Rollback(b) PROVE Sound'
  BY <1>8, RollbackMoves, SoundEnds
<1>9. ASSUME UNCHANGED vars PROVE Sound'
  <2>1. db' = db /\ plan' = plan /\ txn' = txn
    BY <1>9 DEF vars
  <2>2. Committed' /\ (\A b, c \in Batches : Apart(b, c)' <=> Apart(b, c)) /\ (\A b \in Batches : Open(b)' <=> Open(b))
    BY <2>1 DEF Sound, Committed, Apart, Open
  <2>3. \A b \in Batches : Open(b) => (Mine(b) /\ Imported(b) /\ Anchored(b) /\ There(b))'
    BY <2>1, SamePlace DEF Sound
  <2> QED  BY <2>2, <2>3 DEF Sound
<1> QED  BY <1>2, <1>3, <1>4, <1>5, <1>6, <1>7, <1>8, <1>9,
            SoundNew, SoundRows, SoundClear, SoundCommit, SoundRebuild DEF Next

(* Any number of batches side by side, whatever they load: every end a     *)
(* derived row names is there (the REFERENCES clauses of 0001_core_tables, *)
(* as each statement waits for them).                                      *)
THEOREM TypeCorrect == Spec => []TypeOK
<1>1. Shape /\ Sound => TypeOK
  <2> SUFFICES ASSUME Shape, Sound PROVE TypeOK  OBVIOUS
  <2>1. Committed
    BY DEF Sound
  <2>2. \A t \in Occurring : Ends(t, db[t]) \subseteq db["occurrence"]
    BY <2>1, EndsOf DEF Committed
  <2> QED  BY <2>1, <2>2 DEF TypeOK, Shape, Committed, Occurring
<1>2. Init => Shape /\ Sound
  BY ShapeInit, SoundInit
<1>3. Shape /\ Sound /\ [Next]_vars => Shape' /\ Sound'
  BY ShapeNext, SoundNext
<1> QED  BY <1>1, <1>2, <1>3, PTL DEF Spec

-----------------------------------------------------------------------------
(* A batch beside which nobody committed sees what it left: no row names    *)
(* what it replaces, none is in the way of what it derives.                 *)
Lone(b) == txn[b].beside = {} =>
  /\ txn[b].stage = "replace" => \A t \in Occurring : \A r \in View(txn[b])[t] :
       r[1].file # At(b).file /\ r[2].file # At(b).file
  /\ txn[b].stage \in {"derive", "insert"} => Owned(View(txn[b]), Table(b), txn[b].owners) = {}
  /\ txn[b].stage = "insert" => txn[b].rows = Derived(View(txn[b]), Table(b), txn[b].owners)
AllLone == \A b \in Batches : Open(b) => Lone(b)

(* Every step keeps what a batch alone may rely on. *)
LEMMA LoneNext == Shape /\ Sound /\ AllLone /\ [Next]_vars => AllLone'
<1> SUFFICES ASSUME Shape, Sound, AllLone, [Next]_vars, NEW b \in Batches, Open(b)' PROVE Lone(b)'
  BY DEF AllLone
<1>1. CASE Open(b) /\ db' = db /\ plan' = plan /\ txn'[b] = txn[b]
  BY <1>1 DEF AllLone, Lone, View, At, Table
<1>2. ASSUME Open(b), txn'[b].stage \notin {"replace", "derive", "insert"} PROVE Lone(b)'
  BY <1>2 DEF Lone
<1>3. CASE NewBatch(b)
  BY <1>3, NewMoves DEF Lone
<1>4. CASE DeleteRows(b)
  <2> DEFINE f == At(b).file
  <2>1. /\ Moves(b, "rows") /\ txn'[b].stage = "replace" /\ Same(b, {"at", "owners", "paths", "rows"})
        /\ \A t \in Linking : /\ txn'[b].dels[t] = txn[b].dels[t] \cup (ToClear(b)[t] \cap db[t])
                              /\ txn'[b].adds[t] = txn[b].adds[t] \ ToClear(b)[t]
    BY <1>4, RowsMoves
  <2>2. \A t \in Occurring : t \in Linking /\ t \in Tables /\ ToClear(b)[t] = OfFile(View(txn[b]), t, f)
    BY <2>1, TableNames DEF Moves, ToClear, Stage, Linking, Occurring
  <2>3. db' = db /\ At(b)' = At(b)
    BY <2>1 DEF Moves, Same, At
  <2>4. ASSUME NEW t \in Occurring, NEW r \in View(txn[b])'[t] PROVE r[1].file # f /\ r[2].file # f
    <3>1. /\ View(txn[b])[t] = (db[t] \ txn[b].dels[t]) \cup txn[b].adds[t]
          /\ View(txn[b])'[t] = (db'[t] \ txn'[b].dels[t]) \cup txn'[b].adds[t]
      BY <2>2 DEF View
    <3>2. r \in View(txn[b])[t] /\ r \notin ToClear(b)[t]
      BY <2>1, <2>2, <2>3, <2>4, <3>1
    <3> QED  BY <2>2, <3>2 DEF OfFile, File, Occurring
  <2> QED  BY <2>1, <2>3, <2>4 DEF Lone
<1>5. CASE Clear(b)
  <2> DEFINE u == Table(b)
  <2>1. /\ Moves(b, "clear") /\ txn'[b].stage = "derive" /\ Same(b, {"at", "owners", "paths", "rows"})
        /\ \A t \in Tables :
              IF t = Table(b)
              THEN /\ txn'[b].dels[t] = txn[b].dels[t] \cup (ToClear(b)[t] \cap db[t])
                   /\ txn'[b].adds[t] = txn[b].adds[t] \ ToClear(b)[t]
              ELSE txn'[b].dels[t] = txn[b].dels[t] /\ txn'[b].adds[t] = txn[b].adds[t]
    BY <1>5, ClearMoves
  <2>2. u \in Linking /\ u \in Tables
    BY <2>1, TableNames, NotYet DEF Moves, Shape, Shaped, Idle, Relinking, Sound, Open, Table, Linking
  <2>3. ToClear(b)[u] = Owned(View(txn[b]), u, txn[b].owners)
    BY <2>1, <2>2, TableNames DEF Moves, ToClear, Stage
  <2>4. db' = db /\ Table(b)' = u /\ txn'[b].owners = txn[b].owners
    BY <2>1 DEF Moves, Same, Table
  <2>5. ASSUME NEW r \in View(txn[b])'[u] PROVE r \in View(txn[b])[u] /\ r \notin ToClear(b)[u]
    <3>1. /\ View(txn[b])[u] = (db[u] \ txn[b].dels[u]) \cup txn[b].adds[u]
          /\ View(txn[b])'[u] = (db'[u] \ txn'[b].dels[u]) \cup txn'[b].adds[u]
      <4> HIDE DEF u
      <4> QED  BY <2>2 DEF View
    <3> QED  BY <2>1, <2>2, <2>4, <2>5, <3>1
  <2>6. \A r \in View(txn[b])'[u] : ~(u = "implements" \/ File(u, r[1]) \in txn[b].owners)
    BY <2>3, <2>5 DEF Owned
  <2>7. Owned(View(txn[b])', u, txn[b].owners) = {}
    BY <2>6 DEF Owned
  <2>8. Owned(View(txn[b]), Table(b), txn[b].owners)' = {}
    BY <2>4, <2>7
  <2> QED  BY <2>1, <2>8 DEF Lone
<1>6. CASE Derive(b)
  <2>1. /\ Moves(b, "derive") /\ txn'[b].stage = "insert" /\ Same(b, {"at", "owners", "paths", "dels", "adds"})
        /\ txn'[b].rows = Derived(View(txn[b]), Table(b), txn[b].owners)
    BY <1>6, DeriveMoves
  <2>2. View(txn[b])' = View(txn[b]) /\ Table(b)' = Table(b) /\ txn'[b].owners = txn[b].owners
        /\ txn'[b].beside = txn[b].beside /\ txn[b].stage = "derive" /\ Open(b)
    BY <2>1 DEF Moves, Same, View, Table, Open
  <2> QED  BY <2>1, <2>2 DEF AllLone, Lone
<1>7. ASSUME NEW c \in Batches, Commit(c) PROVE Lone(b)'
  <2>1. c # b /\ txn[b] # Idle /\ txn'[b].beside = txn[b].beside \cup {c}
    BY <1>7, CommitMoves DEF Open, Idle
  <2> QED  BY <2>1 DEF Lone
<1>8. CASE RebuildAll
  BY <1>8 DEF RebuildAll, Open
<1>9. CASE UNCHANGED vars
  BY <1>1, <1>9 DEF vars, Open
<1>10. ASSUME NEW c \in Batches, NEW from, c # b, Moves(c, from) PROVE Lone(b)'
  BY <1>1, <1>10 DEF Moves, Open
<1>11. ASSUME NEW c \in Batches, Ends_(c) PROVE Lone(b)'
  <2>1. c # b
    BY <1>11 DEF Ends_, Shape, Open, Idle
  <2> QED  BY <1>1, <1>11, <2>1 DEF Ends_, Open, Shape
<1>12. ASSUME NEW c \in Batches, c # b, NewBatch(c) PROVE Lone(b)'
  BY <1>1, <1>12, NewMoves DEF Open
<1>13. CASE Before(b) \/ LockFilePath(b) \/ After(b)
  BY <1>2, <1>13, BeforeMoves, PathMoves, AfterMoves DEF Moves, Open
<1>14. CASE ReplaceOccurrences(b)
  BY <1>2, <1>11, <1>14, ReplaceMoves DEF Moves, Open
<1>15. CASE InsertRows(b)
  BY <1>2, <1>11, <1>15, InsertMoves DEF Moves, Open
<1>16. ASSUME NEW c \in Batches, c # b,
              \/ Before(c) \/ LockFilePath(c) \/ DeleteRows(c) \/ ReplaceOccurrences(c)
              \/ After(c) \/ Clear(c) \/ Derive(c) \/ InsertRows(c)
       PROVE  Lone(b)'
  BY <1>10, <1>11, <1>16, BeforeMoves, PathMoves, RowsMoves, ReplaceMoves, AfterMoves, ClearMoves,
     DeriveMoves, InsertMoves
<1> QED  BY <1>3, <1>4, <1>5, <1>6, <1>7, <1>8, <1>9, <1>11, <1>12, <1>13, <1>14, <1>15, <1>16,
            RollbackMoves DEF Next

(* What is derived is owned, and between occurrences that are there. *)
LEMMA DerivedIsOwned ==
  ASSUME NEW v, NEW U, NEW t \in Linking
  PROVE  /\ \A r \in Derived(v, t, U) : t = "implements" \/ File(t, r[1]) \in U
         /\ t \in Occurring => \A r \in Derived(v, t, U) : r[1] \in v.occurrence /\ r[2] \in v.occurrence
<1>1. \A j \in Linked(v, U) : j \in v.occurrence \X v.occurrence /\ j[1].file \in U
  BY DEF Linked
<1>2. CASE t = "resolves_to"
  <2>1. Derived(v, t, U) = Linked(v, U)
    BY <1>2 DEF Derived
  <2>2. \A j \in Linked(v, U) : j[1] \in v.occurrence /\ j[2] \in v.occurrence
    BY <1>1
  <2> QED  BY <1>1, <1>2, <2>1, <2>2 DEF File
<1>3. CASE t = "imports"
  <2>1. \A r \in Derived(v, t, U) : \E j \in Linked(v, U) : r = <<j[1].file, j[2].file>>
    BY <1>3 DEF Derived
  <2> QED  BY <1>1, <1>3, <2>1 DEF File, Occurring
<1>4. CASE t = "implements"
  <2>1. \A r \in Derived(v, t, U) : r \in v.occurrence \X v.occurrence
    BY <1>4 DEF Derived, Satisfies, Overrides, TypeDefs
  <2> QED  BY <1>4, <2>1
<1> QED  BY <1>2, <1>3, <1>4 DEF Linking

(* However batches overlap, a constraint refuses one only when another      *)
(* committed while it was open (the pgconn errors withRetry does not retry).*)
THEOREM LoneBatchesAreNotRefused == Spec => RefusedBesideAnother
<1>1. ASSUME Shape, Sound, AllLone, NEW b \in Batches, outcome'[b] = "refused", outcome[b] = "running",
             [Next]_vars
      PROVE  txn[b].beside # {}
  <2>1. ASSUME NEW c \in Batches, outcome' = outcome \/ outcome' = [outcome EXCEPT ![c] = "done"] PROVE FALSE
    BY <1>1, <2>1 DEF Shape
  <2>2. ASSUME NEW c \in Batches, ReplaceOccurrences(c) PROVE c = b /\ txn[b].stage = "replace" /\ Named(b) /\ Open(b)
    BY <1>1, <2>1, <2>2, ReplaceMoves DEF Moves, Shape, Ends_, Open
  <2>3. ASSUME NEW c \in Batches, InsertRows(c)
        PROVE  c = b /\ txn[b].stage = "insert" /\ Breaks(View(txn[b]), Table(b), txn[b].rows) /\ Open(b)
    BY <1>1, <2>1, <2>3, InsertMoves DEF Moves, Shape, Ends_, Open
  <2>4. \E c \in Batches : ReplaceOccurrences(c) \/ InsertRows(c)
    <3>1. CASE RebuildAll \/ UNCHANGED vars
      BY <1>1, <3>1 DEF RebuildAll, vars
    <3>2. ASSUME NEW c \in Batches, \/ NewBatch(c) \/ Before(c) \/ LockFilePath(c) \/ DeleteRows(c)
                                    \/ After(c) \/ Clear(c) \/ Derive(c) \/ Commit(c) \/ Rollback(c)
          PROVE  FALSE
      BY <1>1, <2>1, <3>2, NewMoves, BeforeMoves, PathMoves, RowsMoves, AfterMoves, ClearMoves, DeriveMoves,
         CommitMoves, RollbackMoves DEF Moves
    <3> QED  BY <1>1, <3>1, <3>2 DEF Next
  <2>5. CASE txn[b].stage = "replace" /\ Named(b) /\ Open(b)
    <3>1. PICK t \in Occurring : \E r \in View(txn[b])[t] : r[1] \in Old(b) \/ r[2] \in Old(b)
      BY <2>5 DEF Named, RefersTo
    <3>2. \E r \in View(txn[b])[t] : r[1].file = At(b).file \/ r[2].file = At(b).file
      BY <3>1 DEF Old
    <3> QED  BY <1>1, <2>5, <3>1, <3>2 DEF AllLone, Lone
  <2>6. CASE txn[b].stage = "insert" /\ Breaks(View(txn[b]), Table(b), txn[b].rows) /\ Open(b)
    <3> SUFFICES ASSUME txn[b].beside = {} PROVE FALSE
      OBVIOUS
    <3> DEFINE v == View(txn[b])
               t == Table(b)
               U == txn[b].owners
    <3>1. Owned(v, t, U) = {} /\ txn[b].rows = Derived(v, t, U)
      BY <1>1, <2>6 DEF AllLone, Lone
    <3>2. t \in Linking
      BY <1>1, <2>6, TableNames DEF Shape, Shaped, Idle, Relinking, Table, Linking
    <3> HIDE DEF v, t, U
    <3>3. txn[b].rows \cap v[t] = {}
      BY <3>1, <3>2, DerivedIsOwned DEF Owned
    <3>4. Ends(t, txn[b].rows) \subseteq v.occurrence
      <4>1. CASE t = "imports"
        BY <4>1 DEF Ends
      <4>2. CASE t \in Occurring
        BY <3>1, <3>2, <4>2, DerivedIsOwned, EndsOf
      <4> QED  BY <3>2, <4>1, <4>2 DEF Linking, Occurring
    <3>5. Breaks(v, t, txn[b].rows)
      BY <2>6 DEF v, t
    <3> QED  BY <3>3, <3>4, <3>5 DEF Breaks
  <2> QED  BY <2>2, <2>3, <2>4, <2>5, <2>6
<1>2. Init => Shape /\ Sound /\ AllLone
  <2>1. Init => AllLone
    BY DEF Init, AllLone, Open, Idle
  <2> QED  BY <2>1, ShapeInit, SoundInit
<1>3. Shape /\ Sound /\ AllLone /\ [Next]_vars => Shape' /\ Sound' /\ AllLone'
  BY ShapeNext, SoundNext, LoneNext
<1>4. Shape /\ Sound /\ AllLone /\ [Next]_vars =>
        [\A b \in Batches : outcome'[b] = "refused" /\ outcome[b] = "running" => txn[b].beside # {}]_vars
  BY <1>1
<1> QED  BY <1>2, <1>3, <1>4, PTL DEF Spec, RefusedBesideAnother

-----------------------------------------------------------------------------
(* What a row between a reference and a definition depends on: those two,   *)
(* in the files at its ends.                                                *)
Links(x, y) == /\ Says(x, "reference") /\ Says(y, "definition")
               /\ x.says.desc = y.says.desc /\ x.file # y.file
Makes(t, x, y, r) ==
  \/ t = "resolves_to" /\ Links(x, y) /\ r = <<x, y>>
  \/ t = "imports" /\ Links(x, y) /\ y.says.kind = "package" /\ r = <<x.file, y.file>>

(* A derived row is made by two occurrences that are there. *)
LEMMA DerivedIs ==
  ASSUME NEW v, NEW U, NEW t \in Linking, t # "implements", NEW r
  PROVE  r \in Derived(v, t, U) <=> \E x, y \in v.occurrence : Makes(t, x, y, r) /\ x.file \in U
<1>1. \A j : j \in Linked(v, U) <=> \E x, y \in v.occurrence : j = <<x, y>> /\ Links(x, y) /\ x.file \in U
  <2> TAKE j
  <2>1. j \in Linked(v, U) <=> /\ j \in v.occurrence \X v.occurrence
                               /\ Links(j[1], j[2]) /\ j[1].file \in U
    BY DEF Linked, Links
  <2>2. j \in v.occurrence \X v.occurrence <=> \E x, y \in v.occurrence : j = <<x, y>>
    OBVIOUS
  <2>3. \A x, y : <<x, y>>[1] = x /\ <<x, y>>[2] = y
    OBVIOUS
  <2> QED  BY <2>1, <2>2, <2>3
<1>2. CASE t = "resolves_to"
  BY <1>1, <1>2 DEF Derived, Makes
<1>3. CASE t = "imports"
  <2>1. r \in Derived(v, t, U) <=>
          \E j \in Linked(v, U) : j[2].says.kind = "package" /\ r = <<j[1].file, j[2].file>>
    BY <1>3 DEF Derived
  <2>2. r \in Derived(v, t, U) <=>
          \E x, y \in v.occurrence : /\ Links(x, y) /\ x.file \in U
                                     /\ y.says.kind = "package" /\ r = <<x.file, y.file>>
    <3>1. \A x, y : <<x, y>>[1] = x /\ <<x, y>>[2] = y
      OBVIOUS
    <3>2. ASSUME r \in Derived(v, t, U)
          PROVE  \E x, y \in v.occurrence : /\ Links(x, y) /\ x.file \in U
                                            /\ y.says.kind = "package" /\ r = <<x.file, y.file>>
      <4>1. PICK j \in Linked(v, U) : j[2].says.kind = "package" /\ r = <<j[1].file, j[2].file>>
        BY <2>1, <3>2
      <4>2. PICK x \in v.occurrence, y \in v.occurrence : j = <<x, y>> /\ Links(x, y) /\ x.file \in U
        BY <1>1
      <4>3. j[1] = x /\ j[2] = y
        BY <3>1, <4>2
      <4> QED  BY <4>1, <4>2, <4>3
    <3>3. ASSUME NEW x \in v.occurrence, NEW y \in v.occurrence, Links(x, y), x.file \in U,
                 y.says.kind = "package", r = <<x.file, y.file>>
          PROVE  r \in Derived(v, t, U)
      <4>1. <<x, y>> \in Linked(v, U)
        BY <1>1, <3>3
      <4>2. <<x, y>>[1] = x /\ <<x, y>>[2] = y
        BY <3>1
      <4> HIDE DEF Linked
      <4> QED  BY <2>1, <3>3, <4>1, <4>2
    <3> QED  BY <3>2, <3>3
  <2> QED  BY <1>3, <2>2 DEF Makes
<1> QED  BY <1>2, <1>3 DEF Linking

(* Its ends are their files. *)
LEMMA MadeBetween ==
  ASSUME NEW t \in Linking, NEW x, NEW y, NEW r, Makes(t, x, y, r)
  PROVE  /\ File(t, r[1]) = x.file /\ File(t, r[2]) = y.file
         /\ t \in Occurring => x = r[1] /\ y = r[2]
         /\ t # "implements" /\ Links(x, y)
<1>1. \A a, b : <<a, b>>[1] = a /\ <<a, b>>[2] = b
  OBVIOUS
<1> QED  BY <1>1 DEF Makes, File, Occurring

\* What a row of implements depends on: the definitions of the types at its ends.
DefinesEnd(o, r) == \E k \in {1, 2} : Defines(o, r[k].says.desc.of)
Bears(o, t, r)   == IF t = "implements" THEN DefinesEnd(o, r) ELSE o.file \in {File(t, r[1]), File(t, r[2])}

\* Two views that have the same occurrences a row depends on derive it alike.
Agree(v, w, t, r) == \A o : Bears(o, t, r) => (o \in v.occurrence <=> o \in w.occurrence)

\* The definitions of a symbol are the same in both.
Alike(v, w, n) == \A o : Defines(o, n) => (o \in v.occurrence <=> o \in w.occurrence)

(* A type satisfies an interface by its definitions and the interface's.     *)
LEMMA SatisfiesLocal ==
  ASSUME NEW v, NEW w, NEW j, Alike(v, w, j[1].says.desc.of), Alike(v, w, j[2].says.desc.of), j \in Satisfies(v)
  PROVE  j \in Satisfies(w)
<1> DEFINE x == j[1]
           y == j[2]
<1>1. /\ j \in TypeDefs(v) \X TypeDefs(v) /\ x.file # y.file
      /\ x.says.kind # "interface" /\ y.says.kind = "interface"
      /\ MethodSet(v, y) # {} /\ MethodSet(v, y) \subseteq MethodSet(v, x)
  BY DEF Satisfies
<1>2. j = <<x, y>> /\ x \in TypeDefs(v) /\ y \in TypeDefs(v)
  BY <1>1
<1>3. Alike(v, w, x.says.desc.of) /\ Alike(v, w, y.says.desc.of)
  OBVIOUS
<1> HIDE DEF x, y
<1>4. x \in TypeDefs(w) /\ y \in TypeDefs(w)
  BY <1>2, <1>3 DEF TypeDefs, Alike, Defines
<1>5. Members(w, x) = Members(v, x) /\ Members(w, y) = Members(v, y)
  BY <1>3 DEF Members, Alike
<1>6. MethodSet(w, x) = MethodSet(v, x) /\ MethodSet(w, y) = MethodSet(v, y)
  BY <1>5 DEF MethodSet
<1>7. j \in TypeDefs(w) \X TypeDefs(w)
  BY <1>2, <1>4
<1>8. x = j[1] /\ y = j[2]
  BY DEF x, y
<1> QED  BY <1>1, <1>6, <1>7, <1>8 DEF Satisfies

(* So does a member override another. *)
LEMMA OverridesLocal ==
  ASSUME NEW v, NEW w, NEW m, Alike(v, w, m[1].says.desc.of), Alike(v, w, m[2].says.desc.of), m \in Overrides(v)
  PROVE  m \in Overrides(w)
<1>1. PICK j \in Satisfies(v) : /\ m[1] \in Members(v, j[1]) /\ m[2] \in Members(v, j[2])
                                /\ m[1].says.desc.member = m[2].says.desc.member
  BY DEF Overrides
<1>2. m \in v.occurrence \X v.occurrence
  BY DEF Overrides
<1>3. m[1].says.desc.of = j[1].says.desc.of /\ m[2].says.desc.of = j[2].says.desc.of
  BY <1>1 DEF Members, Defines
<1>4. j \in Satisfies(w)
  BY <1>1, <1>3, SatisfiesLocal
<1>5. m[1] \in Members(w, j[1]) /\ m[2] \in Members(w, j[2])
  BY <1>1, <1>3 DEF Members, Alike
<1>6. m \in w.occurrence \X w.occurrence
  <2>1. m[1] \in w.occurrence /\ m[2] \in w.occurrence
    BY <1>5 DEF Members
  <2> QED  BY <1>2, <2>1
<1> QED  BY <1>1, <1>4, <1>5, <1>6 DEF Overrides

(* Then a rebuild derives the row of both or of neither. *)
LEMMA Local ==
  ASSUME NEW v, NEW w, NEW t \in Linking, NEW r, Agree(v, w, t, r)
  PROVE  r \in Derived(v, t, Files) <=> r \in Derived(w, t, Files)
<1>1. CASE t # "implements"
  <2>1. \A x, y : Makes(t, x, y, r) => File(t, r[1]) = x.file /\ File(t, r[2]) = y.file
    BY MadeBetween
  <2>2. \A o : o.file \in {File(t, r[1]), File(t, r[2])} => (o \in v.occurrence <=> o \in w.occurrence)
    BY <1>1 DEF Agree, Bears
  <2> QED  BY <1>1, <2>1, <2>2, DerivedIs
<1>2. CASE t = "implements"
  <2>1. /\ Alike(v, w, r[1].says.desc.of) /\ Alike(v, w, r[2].says.desc.of)
        /\ Alike(w, v, r[1].says.desc.of) /\ Alike(w, v, r[2].says.desc.of)
    BY <1>2 DEF Agree, Bears, DefinesEnd, Alike
  <2>2. /\ r \in Satisfies(v) <=> r \in Satisfies(w)
        /\ r \in Overrides(v) <=> r \in Overrides(w)
    BY <2>1, SatisfiesLocal, OverridesLocal
  <2> QED  BY <1>2, <2>2 DEF Derived
<1> QED  BY <1>1, <1>2

(* The ends of a row of implements are definitions that are there.           *)
LEMMA ImplementsEnds ==
  ASSUME NEW v, NEW U, NEW r \in Derived(v, "implements", U), NEW k \in {1, 2}
  PROVE  r[k] \in v.occurrence /\ DefinesEnd(r[k], r)
<1>1. r \in Satisfies(v) \/ r \in Overrides(v)
  BY DEF Derived
<1>2. CASE r \in Satisfies(v)
  <2>1. r[k] \in TypeDefs(v)
    BY <1>2 DEF Satisfies
  <2> QED  BY <2>1 DEF TypeDefs, DefinesEnd, Defines
<1>3. CASE r \in Overrides(v)
  <2>1. PICK j \in Satisfies(v) : r[1] \in Members(v, j[1]) /\ r[2] \in Members(v, j[2])
    BY <1>3 DEF Overrides
  <2>2. r[k] \in Members(v, j[k])
    BY <2>1
  <2> QED  BY <2>2 DEF Members, DefinesEnd, Defines
<1> QED  BY <1>1, <1>2, <1>3

\* A re-link of b is about the row.
InScope(b, t, r) == t = "implements" \/ File(t, r[1]) \in txn[b].owners

(* What is derived for some owners is what there is of theirs. *)
LEMMA RelinkScope ==
  ASSUME NEW v, NEW U, NEW t \in Linking, NEW r, \A o \in v.occurrence : o.file \in Files
  PROVE  r \in Derived(v, t, U) <=> r \in Derived(v, t, Files) /\ (t = "implements" \/ File(t, r[1]) \in U)
<1>1. CASE t = "implements"
  BY <1>1 DEF Derived
<1>2. CASE t # "implements"
  <2>1. \A x, y : Makes(t, x, y, r) => File(t, r[1]) = x.file /\ File(t, r[2]) = y.file
    BY MadeBetween
  <2>2. r \in Derived(v, t, U) <=> \E x, y \in v.occurrence : Makes(t, x, y, r) /\ x.file \in U
    BY <1>2, DerivedIs
  <2>3. r \in Derived(v, t, Files) <=> \E x, y \in v.occurrence : Makes(t, x, y, r) /\ x.file \in Files
    BY <1>2, DerivedIs
  <2> QED  BY <1>2, <2>1, <2>2, <2>3
<1> QED  BY <1>1, <1>2

(* The owner of a row is in the neighbourhood of the file at its other end. *)
LEMMA Neighbour ==
  ASSUME NEW v, NEW t \in Linking, t # "implements", NEW r, r \in Derived(v, t, Files)
  PROVE  File(t, r[1]) \in RelinkOwners(v, File(t, r[2]))
<1>1. PICK x \in v.occurrence, y \in v.occurrence : Makes(t, x, y, r)
  BY DerivedIs
<1>2. File(t, r[1]) = x.file /\ File(t, r[2]) = y.file /\ Links(x, y)
  BY <1>1, MadeBetween
<1>3. \E d \in v.occurrence : d.file = y.file /\ Says(d, "definition") /\ d.says.desc = x.says.desc
  BY <1>2 DEF Links
<1> QED  BY <1>2, <1>3 DEF RelinkOwners, Links

\* A row of resolves_to is right wherever its ends are.
Fits(t, r) == Makes(t, r[1], r[2], r) /\ r[1].file \in Files

(* Such a row is derived where both are. *)
LEMMA FitsIs ==
  ASSUME NEW v, NEW t, t = "resolves_to", NEW r
  PROVE  r \in Derived(v, t, Files) <=> r[1] \in v.occurrence /\ r[2] \in v.occurrence /\ Fits(t, r)
<1>1. t \in Linking /\ t \in Occurring /\ t # "implements"
  BY DEF Linking, Occurring
<1>2. \A x, y : Makes(t, x, y, r) => x = r[1] /\ y = r[2]
  BY <1>1, MadeBetween
<1> QED  BY <1>1, <1>2, DerivedIs DEF Fits

-----------------------------------------------------------------------------
(* What is in the graph is in the plan: which load may have written a row's *)
(* ends is known.                                                           *)
PlannedAs(o, c) == \E i \in DOMAIN plan[c] : plan[c][i].file = o.file /\ o.says \in plan[c][i].text
Planned(o)      == o.file \in Files /\ \E c \in Loads : PlannedAs(o, c)
AllPlanned ==
  /\ \A o \in db["occurrence"] : Planned(o)
  /\ \A b \in Batches : Open(b) => \A o \in txn[b].adds["occurrence"] : Planned(o)

(* What was loaded before is. *)
LEMMA PlannedInit == Init => AllPlanned
<1> SUFFICES ASSUME Init PROVE AllPlanned  OBVIOUS
<1> DEFINE O == UNION { Rows(l.file, "before", l.text) : l \in Range(plan["before"]) }
           v == [Empty EXCEPT !.occurrence = O]
<1>1. db = Rebuilt(v)
  BY DEF Init
<1>2. ASSUME NEW o \in O PROVE Planned(o)
  <2>1. PICK l \in Range(plan["before"]) : o \in Rows(l.file, "before", l.text)
    OBVIOUS
  <2>2. o.file = l.file /\ o.says \in l.text
    BY <2>1 DEF Rows
  <2>3. l.file \in Files /\ \E i \in DOMAIN plan["before"] : l = plan["before"][i]
    BY FilesBefore DEF Init
  <2> QED  BY <2>2, <2>3 DEF Planned, PlannedAs, Loads
<1> HIDE DEF O
<1>3. v.occurrence = O
  BY TableNames DEF Empty
<1> HIDE DEF v
<1>4. db["occurrence"] = O
  BY <1>1, <1>3, TableNames DEF Rebuilt
<1>5. \A b \in Batches : ~Open(b)
  BY DEF Init, Open, Idle
<1> QED  BY <1>2, <1>4, <1>5 DEF AllPlanned

(* A step of b that commits nothing: what it inserts is what remains.       *)
LEMMA PlannedMove ==
  ASSUME AllPlanned, NEW b \in Batches, NEW from, Moves(b, from),
         \A o \in txn'[b].adds["occurrence"] : Planned(o)
  PROVE  AllPlanned'
<1>1. db' = db /\ plan' = plan /\ \A c \in Batches : c # b => txn'[c] = txn[c]
  BY DEF Moves
<1>2. \A o : Planned(o)' <=> Planned(o)
  BY <1>1 DEF Planned, PlannedAs
<1> QED  BY <1>1, <1>2 DEF AllPlanned, Open

(* What the loads write is what the plan says. *)
LEMMA PlannedNext == Shape /\ Sound /\ AllPlanned /\ [Next]_vars => AllPlanned'
<1> SUFFICES ASSUME Shape, Sound, AllPlanned, [Next]_vars PROVE AllPlanned'  OBVIOUS
<1>1. ASSUME NEW b \in Batches, NEW from, Moves(b, from), from # "idle",
             txn'[b].adds["occurrence"] = txn[b].adds["occurrence"]
      PROVE  AllPlanned'
  <2>1. Open(b)
    BY <1>1 DEF Moves, Open
  <2> QED  BY <1>1, <2>1, PlannedMove DEF AllPlanned
<1>2. ASSUME NEW b \in Batches, Ends_(b) PROVE AllPlanned'
  <2>1. /\ db' = db /\ plan' = plan /\ txn'[b] = Idle
        /\ \A c \in Batches : c # b => txn'[c] = txn[c]
    BY <1>2 DEF Ends_, Shape
  <2>2. \A o : Planned(o)' <=> Planned(o)
    BY <2>1 DEF Planned, PlannedAs
  <2> QED  BY <2>1, <2>2 DEF AllPlanned, Open, Idle
<1>3. ASSUME NEW b \in Batches, NewBatch(b) PROVE AllPlanned'
  <2>1. /\ db' = db /\ plan' = plan /\ txn'[b].adds = Empty
        /\ \A c \in Batches : c # b => txn'[c] = txn[c]
    BY <1>3, NewMoves
  <2>2. \A o : Planned(o)' <=> Planned(o)
    BY <2>1 DEF Planned, PlannedAs
  <2>3. Empty["occurrence"] = {}
    BY TableNames DEF Empty
  <2> QED  BY <2>1, <2>2, <2>3 DEF AllPlanned, Open
<1>4. ASSUME NEW b \in Batches, Before(b) PROVE AllPlanned'
  BY <1>1, <1>4, BeforeMoves DEF Same
<1>5. ASSUME NEW b \in Batches, LockFilePath(b) PROVE AllPlanned'
  BY <1>1, <1>5, PathMoves DEF Same
<1>6. ASSUME NEW b \in Batches, DeleteRows(b) PROVE AllPlanned'
  BY <1>1, <1>6, RowsMoves
<1>7. ASSUME NEW b \in Batches, After(b) PROVE AllPlanned'
  BY <1>1, <1>7, AfterMoves DEF Same
<1>8. ASSUME NEW b \in Batches, Derive(b) PROVE AllPlanned'
  BY <1>1, <1>8, DeriveMoves DEF Same
<1>9. ASSUME NEW b \in Batches, NEW from \in Relinking, Moves(b, from)
      PROVE  from # "idle" /\ "occurrence" \in Tables /\ Table(b) # "occurrence"
  <2>1. txn[b].stage \in Relinking /\ txn[b].at \in 1..3 /\ Mine(b) /\ from # "idle"
    BY <1>9 DEF Moves, Relinking, Shape, Shaped, Idle, Open, Sound
  <2> QED  BY <2>1, NotYet, TableNames DEF Linking
<1>10. ASSUME NEW b \in Batches, Clear(b) PROVE AllPlanned'
  <2>1. Moves(b, "clear") /\ "clear" \in Relinking
    BY <1>10, ClearMoves DEF Relinking
  <2>2. txn'[b].adds["occurrence"] = txn[b].adds["occurrence"]
    BY <1>9, <1>10, <2>1, ClearMoves
  <2> QED  BY <1>1, <2>1, <2>2
<1>11. ASSUME NEW b \in Batches, InsertRows(b) PROVE AllPlanned'
  <2>1. CASE Ends_(b)
    BY <1>2, <2>1
  <2>2. CASE ~Ends_(b)
    <3>1. Moves(b, "insert") /\ "insert" \in Relinking
      BY <1>11, <2>2, InsertMoves DEF Relinking
    <3>2. txn'[b].adds["occurrence"] = txn[b].adds["occurrence"]
      BY <1>9, <1>11, <2>2, <3>1, InsertMoves
    <3> QED  BY <1>1, <3>1, <3>2
  <2> QED  BY <2>1, <2>2
<1>12. ASSUME NEW b \in Batches, ReplaceOccurrences(b) PROVE AllPlanned'
  <2>1. CASE Ends_(b)
    BY <1>2, <2>1
  <2>2. CASE ~Ends_(b)
    <3>1. /\ Moves(b, "replace")
          /\ txn'[b].adds["occurrence"] =
               (txn[b].adds["occurrence"] \ Old(b)) \cup Rows(At(b).file, b, At(b).text)
      BY <1>12, <2>2, ReplaceMoves
    <3>2. Open(b) /\ txn[b].at \in DOMAIN plan[b] /\ At(b).file \in Files
      <4>1. txn[b].stage = "replace" /\ plan \in Plans
        BY <3>1 DEF Moves, Shape
      <4>2. Open(b) /\ txn[b].at \in DOMAIN plan[b]
        BY <4>1 DEF Open, Shape, Shaped, Idle, Loading
      <4> QED  BY <4>1, <4>2, PlanShape DEF At
    <3>3. \A o \in Rows(At(b).file, b, At(b).text) : o.file = At(b).file /\ o.says \in At(b).text
      BY DEF Rows
    <3>4. \A o \in Rows(At(b).file, b, At(b).text) : Planned(o)
      BY <3>2, <3>3 DEF At, Planned, PlannedAs, Loads
    <3> QED  BY <3>1, <3>2, <3>4, PlannedMove DEF AllPlanned
  <2> QED  BY <2>1, <2>2
<1>13. ASSUME NEW b \in Batches, Commit(b) PROVE AllPlanned'
  <2>1. /\ txn[b].stage = "linked" /\ db' = View(txn[b]) /\ plan' = plan /\ txn'[b] = Idle
        /\ \A c \in Batches : c # b =>
              IF txn[c] = Idle THEN txn'[c] = Idle
              ELSE Same(c, {"stage", "at", "owners", "paths", "rows", "dels", "adds"})
    BY <1>13, CommitMoves
  <2>2. \A o : Planned(o)' <=> Planned(o)
    BY <2>1 DEF Planned, PlannedAs
  <2>3. \A o \in db'["occurrence"] : Planned(o)
    <3>1. Open(b) /\ "occurrence" \in Tables
      BY <2>1, TableNames DEF Open
    <3>2. \A o \in db'["occurrence"] : o \in db["occurrence"] \/ o \in txn[b].adds["occurrence"]
      BY <2>1, <3>1, ViewOf
    <3> QED  BY <3>1, <3>2 DEF AllPlanned
  <2>4. ASSUME NEW c \in Batches, Open(c)' PROVE Open(c) /\ txn'[c].adds = txn[c].adds
    <3>1. c # b /\ txn'[c] # Idle
      BY <2>1, <2>4 DEF Open, Idle
    <3>2. Same(c, {"stage", "at", "owners", "paths", "rows", "dels", "adds"})
      BY <2>1, <3>1
    <3> QED  BY <2>4, <3>2 DEF Same, Open
  <2> QED  BY <2>2, <2>3, <2>4 DEF AllPlanned
<1>14. ASSUME NEW b \in Batches, Rollback(b) PROVE AllPlanned'
  BY <1>2, <1>14, RollbackMoves
<1>15. CASE RebuildAll
  <2>1. db' = Rebuilt(db) /\ txn' = txn /\ plan' = plan /\ \A b \in Batches : ~Open(b)
    BY <1>15 DEF RebuildAll
  <2>2. db'["occurrence"] = db["occurrence"]
    BY <2>1, TableNames DEF Rebuilt
  <2>3. \A o : Planned(o)' <=> Planned(o)
    BY <2>1 DEF Planned, PlannedAs
  <2> QED  BY <2>1, <2>2, <2>3 DEF AllPlanned, Open
<1>16. CASE UNCHANGED vars
  BY <1>16 DEF vars, AllPlanned, Open, Planned, PlannedAs
<1> QED  BY <1>3, <1>4, <1>5, <1>6, <1>7, <1>8, <1>10, <1>11, <1>12, <1>13, <1>14, <1>15, <1>16 DEF Next

(* A planned definition of an end of a row of implements is in a file the   *)
(* row rests on; the other rows rest on the files of their ends.            *)
LEMMA Rests ==
  ASSUME NEW t, NEW r, NEW b
  PROVE  /\ t = "implements" => \A o : Planned(o) /\ DefinesEnd(o, r) => o.file \in RestsOn(t, r)
         /\ t # "implements" =>
              (Concerns(b, t, r) <=> File(t, r[1]) \in FilesOf(b) \/ File(t, r[2]) \in FilesOf(b))
<1>1. ASSUME t = "implements", NEW o, Planned(o), DefinesEnd(o, r) PROVE o.file \in RestsOn(t, r)
  <2>1. PICK k \in {1, 2} : Defines(o, r[k].says.desc.of)
    BY <1>1 DEF DefinesEnd
  <2>2. DefinesEver(o.file, r[k].says.desc.of)
    BY <1>1, <2>1 DEF Planned, PlannedAs, DefinesEver, Defines, Says
  <2> QED  BY <1>1, <2>2 DEF RestsOn, Planned
<1>2. t # "implements" =>
        (Concerns(b, t, r) <=> File(t, r[1]) \in FilesOf(b) \/ File(t, r[2]) \in FilesOf(b))
  BY DEF Concerns, RestsOn
<1> QED  BY <1>1, <1>2

-----------------------------------------------------------------------------
(* Which rows are exact.  A row is loud if the property excuses it.         *)
Loud(t, r)       == BothOverlapped(t, r) \/ Outrun(t, r)
Noted(b, t, r)   == \E c \in txn[b].beside : Concerns(c, t, r)
NotedTwice(b, t, r) == \E c, d \in txn[b].beside : c # d /\ Concerns(c, t, r) /\ Concerns(d, t, r)
Touched(b, f)    == \E i \in DOMAIN plan[b] : plan[b][i].file = f /\ Past(b, i, {"path", "rows", "replace", "after"})
Settled(b, f)    == \E i \in DOMAIN plan[b] : plan[b][i].file = f /\ Past(b, i, {})
Here(b, t, s)    == txn[b].stage = s /\ Table(b) = t
Ahead(b, t)      == ~Behind(b, t) /\ ~Here(b, t, "derive") /\ ~Here(b, t, "insert")

Exact == \A t \in Linking : \A r : ~Loud(t, r) => (r \in db[t] <=> r \in Derived(db, t, Files))

\* A batch re-links what it loads.
Owns(b) == \A f : Touched(b, f) => f \in txn[b].owners

\* A batch that loads nothing r rests on puts back what it deletes.
Restores(b, t, r) ==
  /\ Ahead(b, t) => r \notin txn[b].dels[t]
  /\ Here(b, t, "derive") =>
       /\ r \in txn[b].dels[t] => InScope(b, t, r)
       /\ r \in db[t] /\ r \notin txn[b].dels[t] /\ InScope(b, t, r) => Noted(b, t, r)
  /\ Here(b, t, "insert") =>
       /\ r \in txn[b].dels[t] => r \in txn[b].rows
       /\ r \in txn[b].rows /\ r \notin txn[b].dels[t] =>
            Noted(b, t, r) /\ (r \in db[t] \/ NotedTwice(b, t, r))
       /\ r \in txn[b].rows /\ t = "resolves_to" => Fits(t, r)
  /\ Behind(b, t) =>
       /\ r \in txn[b].dels[t] => r \in txn[b].adds[t]
       /\ r \in txn[b].adds[t] /\ r \notin txn[b].dels[t] => t # "resolves_to" /\ NotedTwice(b, t, r)

\* A batch that loads some of it, beside no other that does, leaves r right.
Rights(b, t, r) ==
  LET v == View(txn[b])
      F == File(t, r[1])
      G == File(t, r[2]) IN
  /\ t # "implements" /\ F \notin FilesOf(b) =>
       /\ Touched(b, G) /\ r \in Derived(db, t, Files) => F \in txn[b].owners
       /\ Settled(b, G) /\ r \in Derived(v, t, Files) => F \in txn[b].owners
  /\ Here(b, t, "derive") => r \notin v[t]
  /\ Here(b, t, "insert") => r \notin v[t] /\ (r \in txn[b].rows <=> r \in Derived(v, t, Files))
  /\ Behind(b, t) => (r \in v[t] <=> r \in Derived(v, t, Files))

Drifts(b) ==
  /\ Owns(b)
  /\ \A t \in Linking : \A r : ~Loud(t, r) =>
       /\ ~Concerns(b, t, r) => Restores(b, t, r)
       /\ Concerns(b, t, r) /\ ~Noted(b, t, r) => Rights(b, t, r)
AllExact == Exact /\ \A b \in Batches : Open(b) => Drifts(b)

-----------------------------------------------------------------------------
(* Plans are what they are; what is loud stays loud while nobody rebuilds.  *)
LEMMA PlansStay ==
  ASSUME plan' = plan
  PROVE  /\ \A b : (FilesOf(b))' = FilesOf(b)
         /\ \A b, t, r : Concerns(b, t, r)' <=> Concerns(b, t, r)
         /\ overlapped \subseteq overlapped' => \A t, r : Loud(t, r) => Loud(t, r)'
         /\ overlapped' = overlapped => \A t, r : Loud(t, r)' <=> Loud(t, r)
<1>1. \A b : (FilesOf(b))' = FilesOf(b)
  BY DEF FilesOf
<1>2. \A b, t, r : Concerns(b, t, r)' <=> Concerns(b, t, r)
  <2>1. \A t, r : RestsOn(t, r)' = RestsOn(t, r)
    BY DEF RestsOn, DefinesEver, File
  <2> QED  BY <1>1, <2>1 DEF Concerns
<1>3. overlapped \subseteq overlapped' => \A t, r : Loud(t, r) => Loud(t, r)'
  BY <1>2 DEF Loud, BothOverlapped, Outrun
<1>4. overlapped' = overlapped => \A t, r : Loud(t, r)' <=> Loud(t, r)
  BY <1>2 DEF Loud, BothOverlapped, Outrun
<1> QED  BY <1>1, <1>2, <1>3, <1>4

(* A batch that did not move is where it was. *)
LEMMA PlaceStays ==
  ASSUME NEW b, plan' = plan, txn'[b] = txn[b] \/ Same(b, {"stage", "at"})
  PROVE  /\ \A f : Touched(b, f)' <=> Touched(b, f)
         /\ \A f : Settled(b, f)' <=> Settled(b, f)
         /\ \A t : Behind(b, t)' <=> Behind(b, t)
         /\ \A t, s : Here(b, t, s)' <=> Here(b, t, s)
         /\ \A t : Ahead(b, t)' <=> Ahead(b, t)
<1>1. txn'[b].stage = txn[b].stage /\ txn'[b].at = txn[b].at
  BY DEF Same
<1>2. \A i, S : Past(b, i, S)' <=> Past(b, i, S)
  BY <1>1 DEF Past
<1>3. \A f : Touched(b, f)' <=> Touched(b, f)
  BY <1>2 DEF Touched
<1>4. \A f : Settled(b, f)' <=> Settled(b, f)
  BY <1>2 DEF Settled
<1>5. \A t : Behind(b, t)' <=> Behind(b, t)
  BY <1>1 DEF Behind
<1>6. \A t, s : Here(b, t, s)' <=> Here(b, t, s)
  BY <1>1 DEF Here, Table
<1> QED  BY <1>3, <1>4, <1>5, <1>6 DEF Ahead

(* A batch that did not move drifts no more than it did. *)
LEMMA DriftsStay ==
  ASSUME NEW b, plan' = plan, db' = db, overlapped' = overlapped, txn'[b] = txn[b], Drifts(b)
  PROVE  Drifts(b)'
<1>1. Owns(b)'
  BY PlaceStays DEF Drifts, Owns
<1>2. ASSUME NEW t \in Linking, NEW r, ~Loud(t, r)', ~Concerns(b, t, r)' PROVE Restores(b, t, r)'
  <2>1. Restores(b, t, r)
    BY <1>2, PlansStay DEF Drifts
  <2>2. /\ Noted(b, t, r)' <=> Noted(b, t, r)
        /\ NotedTwice(b, t, r)' <=> NotedTwice(b, t, r)
        /\ InScope(b, t, r)' <=> InScope(b, t, r)
    BY PlansStay DEF Noted, NotedTwice, InScope
  <2> QED  BY <2>1, <2>2, PlaceStays DEF Restores
<1>3. ASSUME NEW t \in Linking, NEW r, ~Loud(t, r)', Concerns(b, t, r)', ~Noted(b, t, r)' PROVE Rights(b, t, r)'
  <2>1. ~Noted(b, t, r)
    BY <1>3, PlansStay DEF Noted
  <2>2. Rights(b, t, r)
    BY <1>3, <2>1, PlansStay DEF Drifts
  <2>3. View(txn[b])' = View(txn[b])
    BY DEF View
  <2>4. /\ Derived(db, t, Files)' = Derived(db, t, Files)
        /\ Derived(View(txn[b]), t, Files)' = Derived(View(txn[b]), t, Files)
    BY <2>3
  <2> QED  BY <2>2, <2>3, <2>4, PlaceStays, PlansStay DEF Rights
<1> QED  BY <1>1, <1>2, <1>3 DEF Drifts

(* The invariant through a step of b that commits nothing. *)
LEMMA DriftsMove ==
  ASSUME Shape, AllExact, NEW b \in Batches, NEW from, Moves(b, from), from # "idle", Owns(b)',
         \A t \in Linking : \A r : ~Loud(t, r) =>
           /\ ~Concerns(b, t, r) => Restores(b, t, r)'
           /\ Concerns(b, t, r) /\ ~Noted(b, t, r) => Rights(b, t, r)'
  PROVE  AllExact'
<1>1. db' = db /\ plan' = plan /\ overlapped' = overlapped /\ \A c \in Batches : c # b => txn'[c] = txn[c]
  BY DEF Moves
<1>2. Exact'
  <2>1. \A t : Derived(db, t, Files)' = Derived(db, t, Files)
    BY <1>1
  <2> QED  BY <1>1, <2>1, PlansStay DEF AllExact, Exact
<1>3. Drifts(b)'
  <2>1. \A t, r : Noted(b, t, r)' <=> Noted(b, t, r)
    BY <1>1, PlansStay DEF Noted, Moves
  <2> QED  BY <1>1, <2>1, PlansStay DEF Drifts
<1>4. ASSUME NEW c \in Batches, c # b, Open(c)' PROVE Drifts(c)'
  <2>1. Open(c) /\ txn'[c] = txn[c]
    BY <1>1, <1>4 DEF Open
  <2>2. Drifts(c)
    BY <2>1 DEF AllExact
  <2> QED  BY <1>1, <2>1, <2>2, DriftsStay
<1> QED  BY <1>2, <1>3, <1>4 DEF AllExact

(* Only the loads of a batch change what it sees of a file. *)
LEMMA SeesAsIs ==
  ASSUME Shape, Sound, NEW b \in Batches, Open(b), NEW o, ~Replaced(b, o.file)
  PROVE  o \in View(txn[b]).occurrence <=> o \in db.occurrence
<1>1. Mine(b)
  BY DEF Sound
<1>2. o \in View(txn[b]).occurrence <=> Sees(b, o)
  BY ViewOf
<1> QED  BY <1>1, <1>2 DEF Sees, Mine

\* What none of its loads concerns, a batch sees as it is committed.
LEMMA SeesOthers ==
  ASSUME Shape, Sound, AllPlanned, NEW b \in Batches, Open(b), NEW t, NEW r, ~Concerns(b, t, r)
  PROVE  Agree(View(txn[b]), db, t, r)
<1>1. ASSUME NEW o, Bears(o, t, r), o.file \in FilesOf(b), o \in View(txn[b]).occurrence \/ o \in db.occurrence
      PROVE  FALSE
  <2>1. CASE t # "implements"
    BY <1>1, <2>1, Rests DEF Bears
  <2>2. CASE t = "implements"
    <3>1. Sees(b, o) \/ o \in db["occurrence"]
      BY <1>1, ViewOf
    <3>2. Planned(o)
      BY <3>1 DEF Sees, AllPlanned
    <3> QED  BY <1>1, <2>2, <3>2, Rests DEF Bears, Concerns
  <2> QED  BY <2>1, <2>2
<1>2. \A f : f \notin FilesOf(b) => ~Replaced(b, f)
  BY ViewFiles
<1>3. \A o : Bears(o, t, r) => (o \in View(txn[b]).occurrence <=> o \in db.occurrence)
  BY <1>1, <1>2, SeesAsIs
<1> QED  BY <1>3 DEF Agree

-----------------------------------------------------------------------------
(* The statements of a load. *)
\* The load at hand is the only one of its file.
LEMMA AtHand ==
  ASSUME Shape, NEW b \in Batches, txn[b].stage \in Loading
  PROVE  /\ txn[b].at \in DOMAIN plan[b] /\ At(b).file \in FilesOf(b)
         /\ txn[b].at \in 1..Len(plan[b]) /\ Len(plan[b]) \in Nat /\ DOMAIN plan[b] = 1..Len(plan[b])
         /\ \A i \in DOMAIN plan[b] : plan[b][i].file = At(b).file => i = txn[b].at
         /\ ~Settled(b, At(b).file)
         /\ txn[b].stage = "before" => ~Replaced(b, At(b).file)
<1>1. txn[b].at \in DOMAIN plan[b] /\ plan \in Plans
  BY DEF Shape, Shaped, Idle, Loading
<1>2. /\ Len(plan[b]) \in Nat /\ DOMAIN plan[b] = 1..Len(plan[b])
      /\ \A i \in DOMAIN plan[b] : plan[b][i].file \in FilesOf(b)
      /\ \A i, j \in DOMAIN plan[b] : plan[b][i].file = plan[b][j].file => i = j
  BY <1>1, PlanShape
<1>3. At(b).file = plan[b][txn[b].at].file
  BY DEF At
<1>4. \A i \in DOMAIN plan[b] : plan[b][i].file = At(b).file => i = txn[b].at
  BY <1>1, <1>2, <1>3
<1>5. txn[b].at \in Nat
  BY <1>1, <1>2
<1>6. ~Past(b, txn[b].at, {}) /\ (txn[b].stage = "before" => ~Past(b, txn[b].at, {"after"}))
  BY <1>5 DEF Past
<1>7. ~Settled(b, At(b).file)
  BY <1>4, <1>6 DEF Settled
<1>8. txn[b].stage = "before" => ~Replaced(b, At(b).file)
  BY <1>4, <1>6 DEF Replaced
<1> QED  BY <1>1, <1>2, <1>3, <1>4, <1>7, <1>8

\* How a batch goes through its loads, and on to the re-link.
LoadsOn(b, from) ==
  \/ txn'[b].at = txn[b].at /\ \/ from = "before" /\ txn'[b].stage = "path"
                               \/ from = "path" /\ txn'[b].stage = "rows"
                               \/ from = "rows" /\ txn'[b].stage = "replace"
                               \/ from = "replace" /\ txn'[b].stage = "after"
  \/ /\ from = "after"
     /\ IF txn[b].at = Len(plan[b]) THEN txn'[b].stage = "clear" /\ txn'[b].at = 1
        ELSE txn'[b].stage = "before" /\ txn'[b].at = txn[b].at + 1

(* A statement of a load leaves the re-link ahead, and asks or settles its own file only. *)
LEMMA LoadsGoOn ==
  ASSUME Shape, NEW b \in Batches, NEW from \in Loading, Moves(b, from), LoadsOn(b, from)
  PROVE  /\ \A f : Touched(b, f)' => Touched(b, f) \/ (from = "before" /\ f = At(b).file)
         /\ \A f : Settled(b, f)' => Settled(b, f) \/ (from = "after" /\ f = At(b).file)
         /\ \A t \in Linking : Ahead(b, t) /\ Ahead(b, t)' /\ ~Behind(b, t)'
         /\ \A t : ~Here(b, t, "derive")' /\ ~Here(b, t, "insert")'
<1>1. txn[b].stage = from /\ plan' = plan
  BY DEF Moves
<1>2. /\ txn[b].at \in 1..Len(plan[b]) /\ Len(plan[b]) \in Nat /\ DOMAIN plan[b] = 1..Len(plan[b])
      /\ At(b).file = plan[b][txn[b].at].file
  BY <1>1, AtHand DEF At
<1>3. \A i \in 1..Len(plan[b]) : i = txn[b].at \/ i < txn[b].at \/ i > txn[b].at
  BY <1>2
<1> DEFINE T == {"path", "rows", "replace", "after"}
<1>4. \A i \in 1..Len(plan[b]) : Past(b, i, T)' => Past(b, i, T) \/ (from = "before" /\ i = txn[b].at)
  <2> TAKE i \in 1..Len(plan[b])
  <2>1. CASE from # "after"
    BY <1>1, <1>2, <2>1 DEF LoadsOn, Past, Loading
  <2>2. CASE from = "after"
    BY <1>1, <1>2, <2>2 DEF LoadsOn, Past, Loading
  <2> QED  BY <2>1, <2>2
<1>5. \A i \in 1..Len(plan[b]) : Past(b, i, {})' => Past(b, i, {}) \/ (from = "after" /\ i = txn[b].at)
  <2> TAKE i \in 1..Len(plan[b])
  <2>1. CASE from # "after"
    BY <1>1, <1>2, <2>1 DEF LoadsOn, Past, Loading
  <2>2. CASE from = "after"
    BY <1>1, <1>2, <2>2 DEF LoadsOn, Past, Loading
  <2> QED  BY <2>1, <2>2
<1>6. \A f : Touched(b, f)' => Touched(b, f) \/ (from = "before" /\ f = At(b).file)
  BY <1>1, <1>2, <1>4 DEF Touched
<1>7. \A f : Settled(b, f)' => Settled(b, f) \/ (from = "after" /\ f = At(b).file)
  BY <1>1, <1>2, <1>5 DEF Settled
<1>8. \A t : Ahead(b, t)
  BY <1>1 DEF Ahead, Behind, Here, Loading, Relinking
<1>9. txn'[b].stage \in Loading \/ (txn'[b].stage = "clear" /\ txn'[b].at = 1)
  BY DEF LoadsOn, Loading
<1>10. \A t : ~Behind(b, t)' /\ ~Here(b, t, "derive")' /\ ~Here(b, t, "insert")'
  <2>1. \A k \in 1..3 : ~(k < 1)
    OBVIOUS
  <2> QED  BY <1>9, <2>1 DEF Behind, Here, Loading, Relinking
<1> QED  BY <1>6, <1>7, <1>8, <1>10 DEF Ahead

(* What remains of a statement of a load: which rows it deletes, and that   *)
(* the owners are enough.                                                   *)
LEMMA DriftsLoad ==
  ASSUME Shape, AllExact, NEW b \in Batches, NEW from \in Loading, Moves(b, from), LoadsOn(b, from),
         txn[b].owners \subseteq txn'[b].owners, from = "before" => At(b).file \in txn'[b].owners,
         \A t \in Linking : \A r :
           ~Loud(t, r) /\ ~Concerns(b, t, r) /\ r \in txn'[b].dels[t] => r \in txn[b].dels[t],
         \A t \in Linking : \A r :
           t # "implements" /\ File(t, r[1]) \notin FilesOf(b) /\ ~Loud(t, r) /\ Concerns(b, t, r) /\ Rights(b, t, r) =>
             /\ from = "before" /\ File(t, r[2]) = At(b).file /\ r \in Derived(db, t, Files) =>
                  File(t, r[1]) \in txn'[b].owners
             /\ (Settled(b, File(t, r[2])) \/ (from = "after" /\ File(t, r[2]) = At(b).file))
                  /\ r \in Derived(View(txn[b])', t, Files) => File(t, r[1]) \in txn'[b].owners
  PROVE  AllExact'
<1>1. from # "idle" /\ Open(b) /\ db' = db /\ plan' = plan
  BY DEF Moves, Open, Loading
<1>2. Drifts(b)
  BY <1>1 DEF AllExact
<1>3. Owns(b)'
  BY <1>2, LoadsGoOn DEF Drifts, Owns
<1>4. ASSUME NEW t \in Linking, NEW r, ~Loud(t, r), ~Concerns(b, t, r) PROVE Restores(b, t, r)'
  <2>1. Restores(b, t, r)
    BY <1>2, <1>4 DEF Drifts
  <2>2. r \notin txn'[b].dels[t]
    BY <1>4, <2>1, LoadsGoOn DEF Restores
  <2>3. ~Here(b, t, "derive")' /\ ~Here(b, t, "insert")' /\ ~Behind(b, t)'
    BY LoadsGoOn
  <2> QED  BY <2>2, <2>3 DEF Restores
<1>5. ASSUME NEW t \in Linking, NEW r, ~Loud(t, r), Concerns(b, t, r), ~Noted(b, t, r) PROVE Rights(b, t, r)'
  <2>1. Rights(b, t, r)
    BY <1>2, <1>5 DEF Drifts
  <2>2. ~Here(b, t, "derive")' /\ ~Here(b, t, "insert")' /\ ~Behind(b, t)'
    BY LoadsGoOn
  <2>3. (FilesOf(b))' = FilesOf(b)
    BY <1>1, PlansStay
  <2> DEFINE F == File(t, r[1])
             G == File(t, r[2])
  <2>4. ASSUME t # "implements", F \notin FilesOf(b)
        PROVE  /\ Touched(b, G)' /\ r \in Derived(db, t, Files) => F \in txn'[b].owners
               /\ Settled(b, G)' /\ r \in Derived(View(txn[b])', t, Files) => F \in txn'[b].owners
    <3>1. Touched(b, G) /\ r \in Derived(db, t, Files) => F \in txn'[b].owners
      BY <2>1, <2>4 DEF Rights
    <3>2. Touched(b, G)' => Touched(b, G) \/ (from = "before" /\ G = At(b).file)
      BY LoadsGoOn
    <3>3. Settled(b, G)' => Settled(b, G) \/ (from = "after" /\ G = At(b).file)
      BY LoadsGoOn
    <3> QED  BY <1>5, <2>1, <2>4, <3>1, <3>2, <3>3
  <2>5. Derived(db, t, Files)' = Derived(db, t, Files)
    BY <1>1
  <2>6. Derived(View(txn[b]), t, Files)' = Derived(View(txn[b])', t, Files)
    OBVIOUS
  <2> QED  BY <2>2, <2>3, <2>4, <2>5, <2>6 DEF Rights
<1> QED  BY <1>1, <1>3, <1>4, <1>5, DriftsMove

(* What writes nothing leaves the view as it is. *)
LEMMA ViewStays ==
  ASSUME NEW b, db' = db, Same(b, {"dels", "adds"})
  PROVE  View(txn[b])' = View(txn[b])
<1>1. txn'[b].dels = txn[b].dels /\ txn'[b].adds = txn[b].adds
  BY DEF Same
<1> QED  BY <1>1 DEF View

(* Asking ahead of the load finds who refers to what the file has now. *)
LEMMA DriftsBefore ==
  ASSUME Shape, Sound, AllExact, NEW b \in Batches, Before(b)
  PROVE  AllExact'
<1>1. /\ Moves(b, "before") /\ txn'[b].stage = "path"
      /\ Same(b, {"at", "paths", "rows", "dels", "adds"})
      /\ txn'[b].owners = txn[b].owners \cup RelinkOwners(View(txn[b]), At(b).file)
  BY BeforeMoves
<1>2. /\ txn'[b].at = txn[b].at /\ txn'[b].dels = txn[b].dels /\ View(txn[b])' = View(txn[b])
      /\ txn[b].stage = "before" /\ Open(b)
  BY <1>1, ViewStays DEF Same, Moves, Open
<1>3. LoadsOn(b, "before") /\ "before" \in Loading
  BY <1>1, <1>2 DEF LoadsOn, Loading
<1>4. At(b).file \in txn'[b].owners
  BY <1>1 DEF RelinkOwners
<1>5. ASSUME NEW t \in Linking, NEW r, t # "implements", File(t, r[1]) \notin FilesOf(b),
             File(t, r[2]) = At(b).file, r \in Derived(db, t, Files)
      PROVE  File(t, r[1]) \in txn'[b].owners
  <2>1. ~Replaced(b, File(t, r[1])) /\ ~Replaced(b, File(t, r[2]))
    BY <1>2, <1>3, <1>5, AtHand, ViewFiles
  <2>2. r \in Derived(View(txn[b]), t, Files)
    <3>1. Agree(View(txn[b]), db, t, r)
      BY <1>2, <1>5, <2>1, SeesAsIs DEF Agree, Bears
    <3> QED  BY <1>5, <3>1, Local
  <2> QED  BY <1>1, <1>5, <2>2, Neighbour
<1>6. \A t \in Linking : \A r :
        t # "implements" /\ File(t, r[1]) \notin FilesOf(b) /\ Rights(b, t, r)
          /\ Settled(b, File(t, r[2])) /\ r \in Derived(View(txn[b])', t, Files) => File(t, r[1]) \in txn'[b].owners
  BY <1>1, <1>2 DEF Rights
<1> QED  BY <1>1, <1>2, <1>3, <1>4, <1>5, <1>6, DriftsLoad

(* The lock on a path changes no row. *)
LEMMA DriftsPath ==
  ASSUME Shape, Sound, AllExact, NEW b \in Batches, LockFilePath(b)
  PROVE  AllExact'
<1>1. Moves(b, "path") /\ txn'[b].stage = "rows" /\ Same(b, {"at", "owners", "rows", "dels", "adds"})
  BY PathMoves
<1>2. /\ txn'[b].at = txn[b].at /\ txn'[b].owners = txn[b].owners /\ txn'[b].dels = txn[b].dels
      /\ Same(b, {"dels", "adds"}) /\ db' = db
  BY <1>1 DEF Same, Moves
<1>3. LoadsOn(b, "path") /\ "path" \in Loading /\ View(txn[b])' = View(txn[b])
  BY <1>1, <1>2, ViewStays DEF LoadsOn, Loading
<1>4. \A t \in Linking : \A r :
        t # "implements" /\ File(t, r[1]) \notin FilesOf(b) /\ Rights(b, t, r)
          /\ Settled(b, File(t, r[2])) /\ r \in Derived(View(txn[b])', t, Files) => File(t, r[1]) \in txn'[b].owners
  BY <1>2, <1>3 DEF Rights
<1> QED  BY <1>1, <1>2, <1>3, <1>4, DriftsLoad

(* The rows of a file have an end in it. *)
LEMMA DriftsRows ==
  ASSUME Shape, Sound, AllPlanned, AllExact, NEW b \in Batches, DeleteRows(b)
  PROVE  AllExact'
<1>1. /\ Moves(b, "rows") /\ txn'[b].stage = "replace"
      /\ Same(b, {"at", "owners", "paths", "rows"})
      /\ \A t \in Linking : txn'[b].dels[t] = txn[b].dels[t] \cup (ToClear(b)[t] \cap db[t])
      /\ txn'[b].dels["occurrence"] = txn[b].dels["occurrence"]
      /\ txn'[b].adds["occurrence"] = txn[b].adds["occurrence"]
  BY RowsMoves
<1>2. txn'[b].at = txn[b].at /\ txn'[b].owners = txn[b].owners /\ txn[b].stage = "rows" /\ db' = db
  BY <1>1 DEF Same, Moves
<1>3. LoadsOn(b, "rows") /\ "rows" \in Loading
  BY <1>1, <1>2 DEF LoadsOn, Loading
<1>4. At(b).file \in FilesOf(b)
  BY <1>2, <1>3, AtHand
<1>5. ASSUME NEW t \in Linking, NEW r, r \in ToClear(b)[t], r \in db[t], ~Loud(t, r) PROVE Concerns(b, t, r)
  <2>1. t \in Range(LinkTables)
    BY TableNames
  <2>2. ToClear(b)[t] = OfFile(View(txn[b]), t, At(b).file)
    BY <1>2, <2>1 DEF ToClear, Stage
  <2>3. File(t, r[1]) = At(b).file \/ File(t, r[2]) = At(b).file
    BY <1>5, <2>2 DEF OfFile
  <2>4. CASE t # "implements"
    BY <1>4, <2>3, <2>4, Rests
  <2>5. CASE t = "implements"
    <3>1. r \in Derived(db, t, Files)
      BY <1>5 DEF AllExact, Exact
    <3>2. \A k \in {1, 2} : r[k] \in db.occurrence /\ DefinesEnd(r[k], r)
      BY <2>5, <3>1, ImplementsEnds
    <3>3. \A k \in {1, 2} : r[k].file \in RestsOn(t, r)
      BY <2>5, <3>2, Rests DEF AllPlanned
    <3>4. r[1].file = At(b).file \/ r[2].file = At(b).file
      BY <2>3, <2>5 DEF File
    <3>5. At(b).file \in RestsOn(t, r)
      BY <3>3, <3>4
    <3> QED  BY <1>4, <3>5 DEF Concerns
  <2> QED  BY <2>4, <2>5
<1>6. \A t \in Linking : \A r :
        ~Loud(t, r) /\ ~Concerns(b, t, r) /\ r \in txn'[b].dels[t] => r \in txn[b].dels[t]
  BY <1>1, <1>5
<1>7. View(txn[b])'.occurrence = View(txn[b]).occurrence
  <2>1. \A o : o \in View(txn[b]).occurrence <=> Sees(b, o)
    BY ViewOf
  <2>2. View(txn[b])'.occurrence = ((db'["occurrence"] \ txn'[b].dels["occurrence"]) \cup txn'[b].adds["occurrence"])
    BY TableNames DEF View
  <2> QED  BY <1>1, <1>2, <2>1, <2>2 DEF Sees
<1>8. \A t \in Linking : \A r : r \in Derived(View(txn[b])', t, Files) <=> r \in Derived(View(txn[b]), t, Files)
  BY <1>7, Local DEF Agree
<1>9. \A t \in Linking : \A r :
        t # "implements" /\ File(t, r[1]) \notin FilesOf(b) /\ Rights(b, t, r)
          /\ Settled(b, File(t, r[2])) /\ r \in Derived(View(txn[b])', t, Files) => File(t, r[1]) \in txn'[b].owners
  BY <1>2, <1>8 DEF Rights
<1> QED  BY <1>1, <1>2, <1>3, <1>6, <1>9, DriftsLoad

(* What is replaced is in one file, and the rest is seen as it was. *)
LEMMA DriftsReplace ==
  ASSUME Shape, Sound, AllExact, NEW b \in Batches, ReplaceOccurrences(b), Moves(b, "replace")
  PROVE  AllExact'
<1>1. /\ txn'[b].stage = "after" /\ Same(b, {"at", "owners", "paths", "rows"})
      /\ \A t \in Linking : txn'[b].dels[t] = txn[b].dels[t] /\ txn'[b].adds[t] = txn[b].adds[t]
      /\ txn'[b].dels["occurrence"] = txn[b].dels["occurrence"] \cup (Old(b) \cap db["occurrence"])
      /\ txn'[b].adds["occurrence"] = (txn[b].adds["occurrence"] \ Old(b)) \cup Rows(At(b).file, b, At(b).text)
  <2>1. ~Ends_(b)
    <3>1. Ends_(b) => txn'[b] = Idle /\ txn[b].stage = "replace"
      BY DEF Ends_, Shape, Moves
    <3>2. DOMAIN txn'[b] = Fields
      BY DEF Moves
    <3>3. DOMAIN Idle # Fields
      BY DEF Idle, Fields
    <3> QED  BY <3>1, <3>2, <3>3
  <2> QED  BY <2>1, ReplaceMoves
<1>2. txn'[b].at = txn[b].at /\ txn'[b].owners = txn[b].owners /\ txn[b].stage = "replace" /\ db' = db
  BY <1>1 DEF Same, Moves
<1>3. LoadsOn(b, "replace") /\ "replace" \in Loading
  BY <1>1, <1>2 DEF LoadsOn, Loading
<1>4. At(b).file \in FilesOf(b) /\ ~Settled(b, At(b).file)
  BY <1>2, <1>3, AtHand
<1>5. \A o : o.file # At(b).file => (o \in View(txn[b])'.occurrence <=> o \in View(txn[b]).occurrence)
  <2>1. \A o : o \in View(txn[b]).occurrence <=> Sees(b, o)
    BY ViewOf
  <2>2. View(txn[b])'.occurrence = ((db'["occurrence"] \ txn'[b].dels["occurrence"]) \cup txn'[b].adds["occurrence"])
    BY TableNames DEF View
  <2>3. \A o : o \in Old(b) \/ o \in Rows(At(b).file, b, At(b).text) => o.file = At(b).file
    BY DEF Old, Rows
  <2> QED  BY <1>1, <1>2, <2>1, <2>2, <2>3 DEF Sees
<1>6. ASSUME NEW t \in Linking, NEW r, t # "implements", File(t, r[1]) \notin FilesOf(b), Rights(b, t, r),
             Settled(b, File(t, r[2])), r \in Derived(View(txn[b])', t, Files)
      PROVE  File(t, r[1]) \in txn'[b].owners
  <2>1. Agree(View(txn[b])', View(txn[b]), t, r)
    BY <1>4, <1>5, <1>6 DEF Agree, Bears
  <2>2. r \in Derived(View(txn[b]), t, Files)
    BY <1>6, <2>1, Local
  <2> QED  BY <1>2, <1>6, <2>2 DEF Rights
<1> QED  BY <1>1, <1>2, <1>3, <1>6, DriftsLoad

(* Asking behind the load finds who refers to what the file has become. *)
LEMMA DriftsAfter ==
  ASSUME Shape, Sound, AllExact, NEW b \in Batches, After(b)
  PROVE  AllExact'
<1>1. /\ Moves(b, "after") /\ Same(b, {"paths", "rows", "dels", "adds"})
      /\ txn'[b].owners = txn[b].owners \cup RelinkOwners(View(txn[b]), At(b).file)
      /\ IF txn[b].at = Len(plan[b]) THEN txn'[b].stage = "clear" /\ txn'[b].at = 1
         ELSE txn'[b].stage = "before" /\ txn'[b].at = txn[b].at + 1
  BY AfterMoves
<1>2. txn'[b].dels = txn[b].dels /\ View(txn[b])' = View(txn[b])
  BY <1>1, ViewStays DEF Same, Moves
<1>3. LoadsOn(b, "after") /\ "after" \in Loading
  BY <1>1 DEF LoadsOn, Loading
<1>4. ASSUME NEW t \in Linking, NEW r, t # "implements", Rights(b, t, r), File(t, r[1]) \notin FilesOf(b),
             Settled(b, File(t, r[2])) \/ File(t, r[2]) = At(b).file, r \in Derived(View(txn[b])', t, Files)
      PROVE  File(t, r[1]) \in txn'[b].owners
  <2>1. CASE Settled(b, File(t, r[2]))
    BY <1>1, <1>2, <1>4, <2>1 DEF Rights
  <2>2. CASE File(t, r[2]) = At(b).file
    BY <1>1, <1>2, <1>4, <2>2, Neighbour
  <2> QED  BY <1>4, <2>1, <2>2
<1> QED  BY <1>1, <1>2, <1>3, <1>4, DriftsLoad

-----------------------------------------------------------------------------
(* The statements of a re-link: a table at a time, and the others as they   *)
(* are.                                                                     *)
LEMMA Relinks ==
  ASSUME Shape, Sound, NEW b \in Batches, txn[b].stage \in Relinking
  PROVE  /\ Open(b) /\ txn[b].at \in 1..3 /\ plan \in Plans
         /\ Table(b) \in Linking /\ txn[b].adds[Table(b)] = {} /\ ~Behind(b, Table(b))
         /\ \A f \in FilesOf(b) : Touched(b, f) /\ Settled(b, f)
<1>1. Open(b) /\ txn[b].at \in 1..3 /\ plan \in Plans
  BY DEF Shape, Shaped, Idle, Relinking, Open
<1>2. txn[b].adds[Table(b)] = {} /\ Table(b) \in Linking
  BY <1>1, NotYet DEF Sound
<1>3. ~Behind(b, Table(b))
  <2>1. \A k, l \in 1..3 : LinkTables[k] = LinkTables[l] => k = l
    BY TableNames
  <2>2. Table(b) = LinkTables[txn[b].at] /\ txn[b].stage # "linked"
    BY DEF Table, Relinking
  <2>3. \A k \in 1..3 : LinkTables[k] = LinkTables[txn[b].at] => ~(k < txn[b].at)
    BY <1>1, <2>1
  <2> QED  BY <2>2, <2>3 DEF Behind
<1>4. txn[b].stage \notin Loading
  BY DEF Relinking, Loading
<1>5. \A f \in FilesOf(b) : Touched(b, f) /\ Settled(b, f)
  BY <1>4 DEF FilesOf, Touched, Settled, Past
<1> QED  BY <1>1, <1>2, <1>3, <1>5

\* What a re-link does to the tables that are not its turn: nothing.
LEMMA OtherTables ==
  ASSUME Shape, Sound, NEW b \in Batches, NEW from \in Relinking, Moves(b, from),
         \/ from # "insert" /\ txn'[b].at = txn[b].at /\ txn'[b].stage \in Relinking
         \/ from = "insert" /\ txn'[b].stage = "clear" /\ txn[b].at # 3 /\ txn'[b].at = txn[b].at + 1
         \/ from = "insert" /\ txn'[b].stage = "linked" /\ txn[b].at = 3
  PROVE  /\ \A t \in Linking : t # Table(b) =>
              /\ ~Here(b, t, "derive")' /\ ~Here(b, t, "insert")'
              /\ Behind(b, t)' <=> Behind(b, t)
              /\ Ahead(b, t)' <=> Ahead(b, t)
         /\ \A f : (Touched(b, f)' => Touched(b, f)) /\ (Settled(b, f)' => Settled(b, f))
         /\ \A t : t = Table(b) => (Behind(b, t)' <=> from = "insert")
<1>1. txn[b].stage = from /\ plan' = plan /\ txn[b].at \in 1..3 /\ txn[b].stage \in Relinking
  BY Relinks DEF Moves
<1>2. /\ LinkTables[1] = "resolves_to" /\ LinkTables[2] = "implements" /\ LinkTables[3] = "imports"
      /\ Table(b) = LinkTables[txn[b].at]
  BY TableNames DEF Table
<1>3. ASSUME NEW t \in Linking, t # Table(b)
      PROVE  /\ ~Here(b, t, "derive")' /\ ~Here(b, t, "insert")'
             /\ ~Here(b, t, "derive") /\ ~Here(b, t, "insert")
  BY <1>1, <1>2, <1>3 DEF Here, Table, Relinking
<1>4. \A n \in 1..3 : \A t : (\E k \in 1..3 : k < n /\ LinkTables[k] = t) <=>
             \/ n = 2 /\ t = "resolves_to"
             \/ n = 3 /\ (t = "resolves_to" \/ t = "implements")
  <2>1. \A k, n \in 1..3 : k < n <=> \/ n = 2 /\ k = 1
                                     \/ n = 3 /\ (k = 1 \/ k = 2)
    OBVIOUS
  <2>2. 1 \in 1..3 /\ 2 \in 1..3
    OBVIOUS
  <2> QED  BY <1>2, <2>1, <2>2
<1>5. /\ \A t \in Linking : t # Table(b) => (Behind(b, t)' <=> Behind(b, t))
      /\ \A t : t = Table(b) => (Behind(b, t)' <=> from = "insert")
  <2>1. \A t : Behind(b, t) <=> \E k \in 1..3 : k < txn[b].at /\ LinkTables[k] = t
    BY <1>1 DEF Behind, Relinking
  <2>2. \A t : Behind(b, t)' <=> \/ txn'[b].stage = "linked"
                                 \/ /\ txn'[b].stage \in Relinking
                                    /\ \E k \in 1..3 : k < txn'[b].at /\ LinkTables[k] = t
    BY DEF Behind
  <2>3. txn[b].at = 1 \/ txn[b].at = 2 \/ txn[b].at = 3
    BY <1>1
  <2>4. txn'[b].stage = "linked" \/ (txn'[b].stage \in Relinking /\ txn'[b].at \in 1..3)
    BY <1>1, <2>3 DEF Relinking
  <2>5. ASSUME txn'[b].stage = "linked"
        PROVE  from = "insert" /\ txn[b].at = 3
    BY <2>5 DEF Relinking
  <2>6. ASSUME txn'[b].stage # "linked"
        PROVE  \/ from # "insert" /\ txn'[b].at = txn[b].at
               \/ from = "insert" /\ txn'[b].stage = "clear" /\ txn[b].at # 3 /\ txn'[b].at = txn[b].at + 1
    BY <2>6
  <2> QED  BY <1>1, <1>2, <1>4, <2>1, <2>2, <2>3, <2>4, <2>5, <2>6 DEF Linking
<1>6. \A f : f \in FilesOf(b) <=> \E i \in DOMAIN plan[b] : plan[b][i].file = f
  BY DEF FilesOf
<1>7. \A f : (Touched(b, f)' => Touched(b, f)) /\ (Settled(b, f)' => Settled(b, f))
  BY <1>1, <1>6, Relinks DEF Touched, Settled
<1> QED  BY <1>3, <1>5, <1>7 DEF Ahead

(* What remains of a statement of a re-link: its table. *)
LEMMA DriftsRelink ==
  ASSUME Shape, Sound, AllExact, NEW b \in Batches, NEW from \in Relinking, Moves(b, from),
         \/ from # "insert" /\ txn'[b].at = txn[b].at /\ txn'[b].stage \in Relinking
         \/ from = "insert" /\ txn'[b].stage = "clear" /\ txn[b].at # 3 /\ txn'[b].at = txn[b].at + 1
         \/ from = "insert" /\ txn'[b].stage = "linked" /\ txn[b].at = 3,
         txn'[b].owners = txn[b].owners,
         \A t \in Tables : t # Table(b) => txn'[b].dels[t] = txn[b].dels[t] /\ txn'[b].adds[t] = txn[b].adds[t],
         \A t, r : t = Table(b) /\ ~Loud(t, r) /\ ~Concerns(b, t, r) /\ Restores(b, t, r) => Restores(b, t, r)',
         \A t, r : t = Table(b) /\ ~Loud(t, r) /\ Concerns(b, t, r) /\ ~Noted(b, t, r) /\ Rights(b, t, r) =>
           \A v : v = View(txn[b])' =>
             /\ Here(b, t, "derive")' => r \notin v[t]
             /\ Here(b, t, "insert")' => r \notin v[t] /\ (r \in txn'[b].rows <=> r \in Derived(v, t, Files))
             /\ Behind(b, t)' => (r \in v[t] <=> r \in Derived(v, t, Files))
  PROVE  AllExact'
<1>1. /\ from # "idle" /\ Open(b) /\ db' = db /\ plan' = plan /\ txn[b].stage = from
      /\ txn'[b].beside = txn[b].beside
  BY DEF Moves, Open, Relinking
<1>2. Drifts(b)
  BY <1>1 DEF AllExact
<1>3. Owns(b)'
  BY <1>2, OtherTables DEF Drifts, Owns
<1>4. Table(b) \in Linking /\ "occurrence" \in Tables /\ "occurrence" # Table(b) /\ Linking \subseteq Tables
  BY <1>1, Relinks, TableNames DEF Linking
<1>5. \A o : Sees(b, o)' <=> Sees(b, o)
  BY <1>1, <1>4 DEF Sees
<1>6. /\ \A t \in Tables : \A r : r \in View(txn[b])'[t] <=>
               (r \in db[t] /\ r \notin txn'[b].dels[t]) \/ r \in txn'[b].adds[t]
      /\ \A o : o \in View(txn[b])'.occurrence <=> o \in View(txn[b]).occurrence
  <2>1. \A t \in Tables : View(txn[b])'[t] = (db[t] \ txn'[b].dels[t]) \cup txn'[b].adds[t]
    BY <1>1 DEF View
  <2>2. \A o : o \in View(txn[b])'.occurrence <=> Sees(b, o)'
    BY <1>1, <1>4, <2>1 DEF Sees
  <2> QED  BY <1>5, <2>1, <2>2, ViewOf
<1>7. \A t \in Linking : \A r : r \in Derived(View(txn[b])', t, Files) <=> r \in Derived(View(txn[b]), t, Files)
  BY <1>6, Local DEF Agree
<1>8. \A t \in Linking : \A r : t # Table(b) => (r \in View(txn[b])'[t] <=> r \in View(txn[b])[t])
  BY <1>4, <1>6, ViewOf
<1>9. ASSUME NEW t \in Linking, NEW r, ~Loud(t, r), ~Concerns(b, t, r) PROVE Restores(b, t, r)'
  <2>1. Restores(b, t, r)
    BY <1>2, <1>9 DEF Drifts
  <2>2. CASE t = Table(b)
    BY <1>9, <2>1, <2>2
  <2>3. CASE t # Table(b)
    <3>1. /\ ~Here(b, t, "derive")' /\ ~Here(b, t, "insert")'
          /\ Behind(b, t)' <=> Behind(b, t)
          /\ Ahead(b, t)' <=> Ahead(b, t)
      BY <2>3, OtherTables
    <3>2. txn'[b].dels[t] = txn[b].dels[t] /\ txn'[b].adds[t] = txn[b].adds[t]
      BY <1>4, <2>3
    <3>3. NotedTwice(b, t, r)' <=> NotedTwice(b, t, r)
      BY <1>1, PlansStay DEF NotedTwice
    <3> QED  BY <2>1, <3>1, <3>2, <3>3 DEF Restores
  <2> QED  BY <2>2, <2>3
<1>10. ASSUME NEW t \in Linking, NEW r, ~Loud(t, r), Concerns(b, t, r), ~Noted(b, t, r) PROVE Rights(b, t, r)'
  <2>1. Rights(b, t, r)
    BY <1>2, <1>10 DEF Drifts
  <2>2. (FilesOf(b))' = FilesOf(b)
    BY <1>1, PlansStay
  <2>3. Derived(db, t, Files)' = Derived(db, t, Files)
    BY <1>1
  <2>4. Derived(View(txn[b]), t, Files)' = Derived(View(txn[b])', t, Files)
    OBVIOUS
  <2> DEFINE F == File(t, r[1])
             G == File(t, r[2])
  <2>5. ASSUME t # "implements", F \notin FilesOf(b)
        PROVE  /\ Touched(b, G)' /\ r \in Derived(db, t, Files) => F \in txn'[b].owners
               /\ Settled(b, G)' /\ r \in Derived(View(txn[b])', t, Files) => F \in txn'[b].owners
    BY <1>7, <2>1, <2>5, OtherTables DEF Rights
  <2>6. /\ Here(b, t, "derive")' => r \notin View(txn[b])'[t]
        /\ Here(b, t, "insert")' => /\ r \notin View(txn[b])'[t]
                                    /\ r \in txn'[b].rows <=> r \in Derived(View(txn[b])', t, Files)
        /\ Behind(b, t)' => (r \in View(txn[b])'[t] <=> r \in Derived(View(txn[b])', t, Files))
    <3>1. CASE t = Table(b)
      BY <1>10, <2>1, <3>1
    <3>2. CASE t # Table(b)
      <4>1. ~Here(b, t, "derive")' /\ ~Here(b, t, "insert")' /\ (Behind(b, t)' <=> Behind(b, t))
        BY <3>2, OtherTables
      <4> QED  BY <1>7, <1>8, <2>1, <3>2, <4>1 DEF Rights
    <3> QED  BY <3>1, <3>2
  <2> QED  BY <2>2, <2>3, <2>4, <2>5, <2>6 DEF Rights
<1> QED  BY <1>1, <1>3, <1>9, <1>10, DriftsMove

(* What the owners have goes; what is left of an end the batch loaded is    *)
(* not there, since its owner would have been found.                        *)
LEMMA DriftsClear ==
  ASSUME Shape, Sound, AllExact, NEW b \in Batches, Clear(b)
  PROVE  AllExact'
<1> DEFINE u == Table(b)
           C == ToClear(b)[u]
<1>1. /\ Moves(b, "clear") /\ txn'[b].stage = "derive" /\ Same(b, {"at", "owners", "paths", "rows"})
      /\ \A t \in Tables :
           IF t = u THEN /\ txn'[b].dels[t] = txn[b].dels[t] \cup (ToClear(b)[t] \cap db[t])
                         /\ txn'[b].adds[t] = txn[b].adds[t] \ ToClear(b)[t]
           ELSE txn'[b].dels[t] = txn[b].dels[t] /\ txn'[b].adds[t] = txn[b].adds[t]
  BY ClearMoves
<1>2. /\ txn'[b].at = txn[b].at /\ txn'[b].owners = txn[b].owners /\ txn[b].stage = "clear" /\ db' = db
      /\ plan' = plan
  BY <1>1 DEF Same, Moves
<1>3. "clear" \in Relinking /\ "derive" \in Relinking
  BY DEF Relinking
<1>4. /\ Open(b) /\ u \in Linking /\ u \in Tables /\ txn[b].adds[u] = {} /\ ~Behind(b, u)
      /\ \A f \in FilesOf(b) : Touched(b, f)
  BY <1>2, <1>3, Relinks, TableNames
<1>5. Drifts(b) /\ Exact
  BY <1>4 DEF AllExact
<1>6. \A r : r \in C <=> r \in db[u] /\ r \notin txn[b].dels[u] /\ InScope(b, u, r)
  <2>1. C = Owned(View(txn[b]), u, txn[b].owners)
    BY <1>2, <1>4, TableNames DEF ToClear, Stage
  <2>2. \A r : r \in C <=> r \in View(txn[b])[u] /\ InScope(b, u, r)
    BY <2>1 DEF Owned, InScope
  <2> QED  BY <1>4, <2>2, ViewOf
<1>7. txn'[b].dels[u] = txn[b].dels[u] \cup (C \cap db[u]) /\ txn'[b].adds[u] = {}
  BY <1>1, <1>4
<1>8. \A t : t = u => Here(b, t, "derive")' /\ ~Here(b, t, "insert")' /\ ~Behind(b, t)' /\ ~Ahead(b, t)' /\ Ahead(b, t)
  <2>1. \A t : t = u => Here(b, t, "derive")' /\ ~Here(b, t, "insert")'
    BY <1>1, <1>2 DEF Here, Table
  <2>2. \A t : t = u => ~Behind(b, t)'
    BY <1>1, <1>2, <1>3, OtherTables
  <2>3. Ahead(b, u)
    BY <1>2, <1>4 DEF Ahead, Here
  <2> QED  BY <2>1, <2>2, <2>3 DEF Ahead
<1>9. ASSUME NEW r, NEW t, t = u, Restores(b, t, r) PROVE Restores(b, t, r)'
  <2>1. r \notin txn[b].dels[t]
    BY <1>8, <1>9 DEF Restores
  <2>2. InScope(b, t, r)' <=> InScope(b, t, r)
    BY <1>2 DEF InScope
  <2>3. r \in txn'[b].dels[t] <=> r \in C /\ r \in db[t]
    BY <1>7, <1>9, <2>1
  <2> QED  BY <1>2, <1>6, <1>8, <1>9, <2>1, <2>2, <2>3 DEF Restores
<1>10. ASSUME NEW r, ~Loud(u, r), Concerns(b, u, r), Rights(b, u, r) PROVE r \notin View(txn[b])'[u]
  <2> SUFFICES ASSUME r \in View(txn[b])'[u] PROVE FALSE
    OBVIOUS
  <2>1. View(txn[b])'[u] = (db[u] \ txn'[b].dels[u]) \cup txn'[b].adds[u]
    <3>1. \A t \in Tables : View(txn[b])'[t] = (db[t] \ txn'[b].dels[t]) \cup txn'[b].adds[t]
      BY <1>2 DEF View
    <3> QED  BY <1>4, <3>1
  <2>2. r \in db[u] /\ ~InScope(b, u, r)
    BY <1>6, <1>7, <2>1
  <2>3. u # "implements" /\ File(u, r[1]) \notin txn[b].owners
    BY <2>2 DEF InScope
  <2>4. r \in Derived(db, u, Files)
    BY <1>4, <1>5, <1>10, <2>2 DEF Exact
  <2>5. File(u, r[1]) \notin FilesOf(b)
    BY <1>4, <1>5, <2>3 DEF Drifts, Owns
  <2>6. File(u, r[2]) \in FilesOf(b)
    BY <1>10, <2>3, <2>5, Rests
  <2> QED  BY <1>4, <1>10, <2>3, <2>4, <2>5, <2>6 DEF Rights
<1> HIDE DEF u
<1>11. \A t \in Tables : t # Table(b) => txn'[b].dels[t] = txn[b].dels[t] /\ txn'[b].adds[t] = txn[b].adds[t]
  BY <1>1 DEF u
<1>12. \A t, r : t = Table(b) /\ ~Loud(t, r) /\ ~Concerns(b, t, r) /\ Restores(b, t, r) => Restores(b, t, r)'
  BY <1>9 DEF u
<1>13. \A t, r : t = Table(b) /\ ~Loud(t, r) /\ Concerns(b, t, r) /\ ~Noted(b, t, r) /\ Rights(b, t, r) =>
         \A v : v = View(txn[b])' =>
           /\ Here(b, t, "derive")' => r \notin v[t]
           /\ Here(b, t, "insert")' => r \notin v[t] /\ (r \in txn'[b].rows <=> r \in Derived(v, t, Files))
           /\ Behind(b, t)' => (r \in v[t] <=> r \in Derived(v, t, Files))
  BY <1>8, <1>10 DEF u
<1> QED  BY <1>1, <1>2, <1>3, <1>11, <1>12, <1>13, DriftsRelink

(* What is derived of an end the batch loaded is all there is; of the rest, *)
(* what was deleted, and what another has committed since.                  *)
LEMMA DriftsDerive ==
  ASSUME Shape, Sound, AllPlanned, AllExact, NEW b \in Batches, Derive(b)
  PROVE  AllExact'
<1> DEFINE u == Table(b)
           v == View(txn[b])
<1>1. /\ Moves(b, "derive") /\ txn'[b].stage = "insert" /\ Same(b, {"at", "owners", "paths", "dels", "adds"})
      /\ txn'[b].rows = Derived(View(txn[b]), Table(b), txn[b].owners)
  BY DeriveMoves
<1>2. /\ txn'[b].at = txn[b].at /\ txn'[b].owners = txn[b].owners /\ txn[b].stage = "derive" /\ db' = db
      /\ txn'[b].dels = txn[b].dels /\ txn'[b].adds = txn[b].adds /\ plan' = plan /\ txn'[b].beside = txn[b].beside
  BY <1>1 DEF Same, Moves
<1>3. "derive" \in Relinking /\ "insert" \in Relinking
  BY DEF Relinking
<1>4. /\ Open(b) /\ u \in Linking /\ ~Behind(b, u)
      /\ \A f \in FilesOf(b) : Touched(b, f) /\ Settled(b, f)
  BY <1>2, <1>3, Relinks
<1>5. Drifts(b) /\ Exact /\ There(b)
  BY <1>4 DEF AllExact, Sound
<1>6. View(txn[b])' = v
  BY <1>2, ViewStays DEF Same
<1>7. \A t : t = u => Here(b, t, "insert")' /\ ~Here(b, t, "derive")' /\ ~Behind(b, t)' /\ ~Ahead(b, t)' /\ Here(b, t, "derive")
  <2>1. \A t : t = u => Here(b, t, "insert")' /\ ~Here(b, t, "derive")' /\ Here(b, t, "derive")
    BY <1>1, <1>2 DEF Here, Table
  <2>2. \A t : t = u => ~Behind(b, t)'
    BY <1>1, <1>2, <1>3, OtherTables
  <2> QED  BY <2>1, <2>2 DEF Ahead
<1>8. \A r : r \in txn'[b].rows <=> r \in Derived(v, u, Files) /\ InScope(b, u, r)
  BY <1>1, <1>4, ViewFiles, RelinkScope DEF InScope
<1> HIDE DEF u, v
<1>9. ASSUME NEW r, NEW t, t = u, ~Loud(t, r), ~Concerns(b, t, r), Restores(b, t, r) PROVE Restores(b, t, r)'
  <2>1. /\ r \in txn[b].dels[t] => InScope(b, t, r)
        /\ r \in db[t] /\ r \notin txn[b].dels[t] /\ InScope(b, t, r) => Noted(b, t, r)
    BY <1>7, <1>9 DEF Restores
  <2>2. r \in db[t] <=> r \in Derived(db, t, Files)
    BY <1>4, <1>5, <1>9 DEF Exact
  <2>3. r \in Derived(v, t, Files) <=> r \in Derived(db, t, Files)
    BY <1>4, <1>9, SeesOthers, Local DEF v
  <2>4. r \in txn[b].dels[t] => r \in db[t]
    BY <1>4, <1>5, <1>9 DEF There
  <2>5. r \in txn'[b].rows <=> r \in db[t] /\ InScope(b, t, r)
    BY <1>8, <1>9, <2>2, <2>3
  <2>6. r \in txn'[b].rows /\ t = "resolves_to" => Fits(t, r)
    BY <1>8, <1>9, FitsIs
  <2>7. /\ Noted(b, t, r)' <=> Noted(b, t, r)
        /\ Fits(t, r)' <=> Fits(t, r)
    BY <1>2, PlansStay DEF Noted, Fits
  <2> QED  BY <1>2, <1>7, <1>9, <2>1, <2>4, <2>5, <2>6, <2>7 DEF Restores
<1>10. ASSUME NEW r, Concerns(b, u, r), Rights(b, u, r)
       PROVE  r \notin v[u] /\ (r \in txn'[b].rows <=> r \in Derived(v, u, Files))
  <2>1. r \notin v[u]
    BY <1>7, <1>10 DEF Rights, v
  <2>2. ASSUME r \in Derived(v, u, Files), u # "implements" PROVE File(u, r[1]) \in txn[b].owners
    <3>1. CASE File(u, r[1]) \in FilesOf(b)
      BY <1>4, <1>5, <3>1 DEF Drifts, Owns
    <3>2. CASE File(u, r[1]) \notin FilesOf(b)
      <4>1. File(u, r[2]) \in FilesOf(b)
        BY <1>10, <2>2, <3>2, Rests
      <4> QED  BY <1>4, <1>10, <2>2, <3>2, <4>1 DEF Rights, v
    <3> QED  BY <3>1, <3>2
  <2> QED  BY <1>8, <2>1, <2>2 DEF InScope
<1>12. \A t, r : t = Table(b) /\ ~Loud(t, r) /\ ~Concerns(b, t, r) /\ Restores(b, t, r) => Restores(b, t, r)'
  BY <1>9 DEF u
<1>13. \A t, r : t = Table(b) /\ ~Loud(t, r) /\ Concerns(b, t, r) /\ ~Noted(b, t, r) /\ Rights(b, t, r) =>
         \A w : w = View(txn[b])' =>
           /\ Here(b, t, "derive")' => r \notin w[t]
           /\ Here(b, t, "insert")' => r \notin w[t] /\ (r \in txn'[b].rows <=> r \in Derived(w, t, Files))
           /\ Behind(b, t)' => (r \in w[t] <=> r \in Derived(w, t, Files))
  BY <1>6, <1>7, <1>10 DEF u
<1> QED  BY <1>1, <1>2, <1>3, <1>12, <1>13, DriftsRelink

(* What is inserted was not there; what is nobody's end but was not there,  *)
(* two others must have loaded: its ends are files.                         *)
LEMMA DriftsInsert ==
  ASSUME Shape, Sound, AllPlanned, AllExact, NEW b \in Batches, InsertRows(b), Moves(b, "insert")
  PROVE  AllExact'
<1> DEFINE u == Table(b)
           v == View(txn[b])
<1>1. /\ ~Breaks(v, u, txn[b].rows) /\ Same(b, {"owners", "paths", "dels"})
      /\ \A t \in Tables : txn'[b].adds[t] = IF t = u THEN txn[b].adds[t] \cup txn[b].rows ELSE txn[b].adds[t]
      /\ IF txn[b].at = 3 THEN txn'[b].stage = "linked" /\ txn'[b].at = 3
         ELSE txn'[b].stage = "clear" /\ txn'[b].at = txn[b].at + 1
  <2>1. ~Ends_(b)
    <3>1. Ends_(b) => txn'[b] = Idle
      BY DEF Ends_, Shape
    <3>2. DOMAIN txn'[b] = Fields
      BY DEF Moves
    <3>3. DOMAIN Idle # Fields
      BY DEF Idle, Fields
    <3> QED  BY <3>1, <3>2, <3>3
  <2> QED  BY <2>1, InsertMoves
<1>2. /\ txn'[b].owners = txn[b].owners /\ txn[b].stage = "insert" /\ db' = db
      /\ txn'[b].dels = txn[b].dels /\ plan' = plan /\ txn'[b].beside = txn[b].beside
  BY <1>1 DEF Same, Moves
<1>3. "insert" \in Relinking /\ "clear" \in Relinking
  BY DEF Relinking
<1>4. Open(b) /\ u \in Linking /\ u \in Tables /\ txn[b].adds[u] = {} /\ txn[b].at \in 1..3
  BY <1>2, <1>3, Relinks, TableNames
<1>5. Drifts(b) /\ Exact /\ There(b)
  BY <1>4 DEF AllExact, Sound
<1>6. txn'[b].adds[u] = txn[b].rows
  BY <1>1, <1>4
<1>7. \A t : t = u => Here(b, t, "insert") /\ Behind(b, t)' /\ ~Ahead(b, t)'
                      /\ ~Here(b, t, "derive")' /\ ~Here(b, t, "insert")'
  <2>1. \A t : t = u => Here(b, t, "insert") /\ ~Here(b, t, "derive")' /\ ~Here(b, t, "insert")'
    BY <1>1, <1>2 DEF Here
  <2>2. \A t : t = u => Behind(b, t)'
    BY <1>1, <1>2, <1>3, OtherTables
  <2> QED  BY <2>1, <2>2 DEF Ahead
<1>8. /\ \A r \in txn[b].rows : r \notin v[u]
      /\ u \in Occurring => \A r \in txn[b].rows : r[1] \in v.occurrence /\ r[2] \in v.occurrence
  <2>1. txn[b].rows \cap v[u] = {} /\ Ends(u, txn[b].rows) \subseteq v.occurrence
    BY <1>1 DEF Breaks
  <2> HIDE DEF v, u
  <2>2. u \in Occurring => \A r \in txn[b].rows : r[1] \in Ends(u, txn[b].rows) /\ r[2] \in Ends(u, txn[b].rows)
    BY EndsOf
  <2> QED  BY <2>1, <2>2
<1>9. \A r : r \in v[u] <=> r \in db[u] /\ r \notin txn[b].dels[u]
  BY <1>4, ViewOf
<1>10. /\ \A r : r \in View(txn[b])'[u] <=> r \in v[u] \/ r \in txn[b].rows
       /\ \A o : o \in View(txn[b])'.occurrence <=> o \in v.occurrence
  <2>1. \A t \in Tables : View(txn[b])'[t] = (db[t] \ txn[b].dels[t]) \cup txn'[b].adds[t]
    BY <1>2 DEF View
  <2>2. "occurrence" \in Tables /\ "occurrence" # u
    BY <1>4, TableNames DEF Linking
  <2>3. \A o : o \in v.occurrence <=> Sees(b, o)
    BY ViewOf
  <2>4. View(txn[b])'.occurrence = (db["occurrence"] \ txn[b].dels["occurrence"]) \cup txn[b].adds["occurrence"]
    BY <1>1, <2>1, <2>2
  <2>5. View(txn[b])'[u] = (db[u] \ txn[b].dels[u]) \cup txn[b].rows
    BY <1>4, <1>6, <2>1
  <2> QED  BY <1>9, <2>3, <2>4, <2>5 DEF Sees
<1> HIDE DEF u, v
<1>11. ASSUME NEW r, NEW t, t = u, ~Loud(t, r), ~Concerns(b, t, r), Restores(b, t, r) PROVE Restores(b, t, r)'
  <2>1. /\ r \in txn[b].dels[t] => r \in txn[b].rows
        /\ r \in txn[b].rows /\ r \notin txn[b].dels[t] =>
             Noted(b, t, r) /\ (r \in db[t] \/ NotedTwice(b, t, r))
        /\ r \in txn[b].rows /\ t = "resolves_to" => Fits(t, r)
    BY <1>7, <1>11 DEF Restores
  <2>2. ASSUME r \in txn[b].rows, r \notin txn[b].dels[t] PROVE t # "resolves_to" /\ NotedTwice(b, t, r)
    <3>1. r \notin db[t]
      BY <1>8, <1>9, <1>11, <2>2
    <3>2. NotedTwice(b, t, r)
      BY <2>1, <2>2, <3>1
    <3>3. ASSUME t = "resolves_to" PROVE FALSE
      <4>1. r[1] \in v.occurrence /\ r[2] \in v.occurrence /\ Fits(t, r)
        BY <1>8, <1>11, <2>1, <2>2, <3>3 DEF Occurring
      <4>2. r \in Derived(v, t, Files)
        BY <3>3, <4>1, FitsIs
      <4>3. r \in Derived(db, t, Files)
        BY <1>4, <1>11, <4>2, SeesOthers, Local DEF v
      <4> QED  BY <1>4, <1>5, <1>11, <3>1, <4>3 DEF Exact
    <3> QED  BY <3>2, <3>3
  <2>3. NotedTwice(b, t, r)' <=> NotedTwice(b, t, r)
    BY <1>2, PlansStay DEF NotedTwice
  <2>4. txn'[b].adds[t] = txn[b].rows /\ txn'[b].dels[t] = txn[b].dels[t]
    BY <1>2, <1>6, <1>11
  <2> QED  BY <1>7, <1>11, <2>1, <2>2, <2>3, <2>4 DEF Restores
<1>12. ASSUME NEW r, Rights(b, u, r)
       PROVE  r \in View(txn[b])'[u] <=> r \in Derived(View(txn[b])', u, Files)
  <2>1. r \notin v[u] /\ (r \in txn[b].rows <=> r \in Derived(v, u, Files))
    BY <1>7, <1>12 DEF Rights, v
  <2>2. r \in Derived(View(txn[b])', u, Files) <=> r \in Derived(v, u, Files)
    BY <1>4, <1>10, Local DEF Agree
  <2> QED  BY <1>10, <2>1, <2>2
<1>13. \A t, r : t = Table(b) /\ ~Loud(t, r) /\ ~Concerns(b, t, r) /\ Restores(b, t, r) => Restores(b, t, r)'
  BY <1>11 DEF u
<1>14. \A t, r : t = Table(b) /\ ~Loud(t, r) /\ Concerns(b, t, r) /\ ~Noted(b, t, r) /\ Rights(b, t, r) =>
         \A w : w = View(txn[b])' =>
           /\ Here(b, t, "derive")' => r \notin w[t]
           /\ Here(b, t, "insert")' => r \notin w[t] /\ (r \in txn'[b].rows <=> r \in Derived(w, t, Files))
           /\ Behind(b, t)' => (r \in w[t] <=> r \in Derived(w, t, Files))
  BY <1>7, <1>12 DEF u
<1>15. \A t \in Tables : t # Table(b) => txn'[b].dels[t] = txn[b].dels[t] /\ txn'[b].adds[t] = txn[b].adds[t]
  BY <1>1, <1>2 DEF u
<1> QED  BY <1>1, <1>2, <1>3, <1>13, <1>14, <1>15, DriftsRelink

(* A batch that opens has nothing to put back and has left nothing. *)
LEMMA DriftsNew ==
  ASSUME Shape, AllExact, NEW b \in Batches, NewBatch(b)
  PROVE  AllExact'
<1>1. /\ txn[b] = Idle /\ db' = db /\ plan' = plan /\ overlapped' = overlapped
      /\ \A c \in Batches : c # b => txn'[c] = txn[c]
      /\ txn'[b].stage = (IF plan[b] = << >> THEN "clear" ELSE "before") /\ txn'[b].at = 1
      /\ txn'[b].dels = Empty /\ txn'[b].adds = Empty
  BY NewMoves
<1>2. Exact'
  <2>1. \A t : Derived(db, t, Files)' = Derived(db, t, Files)
    BY <1>1
  <2> QED  BY <1>1, <2>1, PlansStay DEF AllExact, Exact
<1>3. \A f : ~Touched(b, f)' /\ ~Settled(b, f)'
  <2>1. /\ DOMAIN plan[b] = 1..Len(plan[b]) /\ Len(plan[b]) \in Nat
        /\ plan[b] = << >> => DOMAIN plan[b] = {}
    BY PlanShape DEF Shape
  <2>2. \A i \in DOMAIN plan[b] : ~Past(b, i, {"path", "rows", "replace", "after"})' /\ ~Past(b, i, {})'
    <3>1. CASE plan[b] = << >>
      BY <2>1, <3>1
    <3>2. CASE plan[b] # << >>
      BY <1>1, <2>1, <3>2 DEF Past, Loading
    <3> QED  BY <3>1, <3>2
  <2> QED  BY <1>1, <2>2 DEF Touched, Settled
<1>4. \A t : ~Behind(b, t)' /\ ~Here(b, t, "derive")' /\ ~Here(b, t, "insert")'
  <2>1. \A k \in 1..3 : ~(k < 1)
    OBVIOUS
  <2> QED  BY <1>1, <2>1 DEF Behind, Here, Relinking
<1>5. \A t \in Linking : txn'[b].dels[t] = {}
  BY <1>1, TableNames DEF Empty
<1>6. Drifts(b)'
  <2>1. Owns(b)'
    BY <1>3 DEF Owns
  <2>2. \A t \in Linking : \A r : Restores(b, t, r)' /\ Rights(b, t, r)'
    BY <1>3, <1>4, <1>5 DEF Restores, Rights
  <2> QED  BY <2>1, <2>2 DEF Drifts
<1>7. ASSUME NEW c \in Batches, c # b, Open(c)' PROVE Drifts(c)'
  <2>1. Open(c) /\ txn'[c] = txn[c]
    BY <1>1, <1>7 DEF Open
  <2>2. Drifts(c)
    BY <2>1 DEF AllExact
  <2> QED  BY <1>1, <2>1, <2>2, DriftsStay
<1> QED  BY <1>2, <1>6, <1>7 DEF AllExact

(* A batch that ends leaves the rest as it is. *)
LEMMA DriftsEnds ==
  ASSUME Shape, AllExact, NEW b \in Batches, Ends_(b)
  PROVE  AllExact'
<1>1. db' = db /\ plan' = plan /\ overlapped' = overlapped /\ \A c \in Batches : c # b => txn'[c] = txn[c]
  BY DEF Ends_, Shape
<1>2. Exact'
  <2>1. \A t : Derived(db, t, Files)' = Derived(db, t, Files)
    BY <1>1
  <2> QED  BY <1>1, <2>1, PlansStay DEF AllExact, Exact
<1>3. ~Open(b)'
  BY DEF Ends_, Shape, Open, Idle
<1>4. ASSUME NEW c \in Batches, Open(c)' PROVE Drifts(c)'
  <2>1. c # b
    BY <1>3, <1>4
  <2>2. Open(c) /\ txn'[c] = txn[c]
    BY <1>1, <1>4, <2>1 DEF Open
  <2>3. Drifts(c)
    BY <2>2 DEF AllExact
  <2> QED  BY <1>1, <2>2, <2>3, DriftsStay
<1> QED  BY <1>2, <1>4 DEF AllExact

(* A batch commits what is right of its own, and of the rest what was there.*)
LEMMA CommitKeeps ==
  ASSUME Shape, Sound, AllPlanned, AllExact, NEW b \in Batches, Commit(b), NEW t \in Linking, NEW r,
         ~Loud(t, r)', ~Concerns(b, t, r)
  PROVE  /\ r \in db'[t] <=> r \in db[t]
         /\ Agree(db', db, t, r)
<1>1. /\ txn[b].stage = "linked" /\ db' = View(txn[b]) /\ plan' = plan
      /\ overlapped' = overlapped \cup { {b, c} : c \in txn[b].beside }
  BY CommitMoves
<1>2. Open(b) /\ Behind(b, t) /\ There(b) /\ Drifts(b) /\ t \in Tables
  BY <1>1, TableNames DEF Open, Behind, Sound, AllExact
<1>3. ~Loud(t, r)
  BY <1>1, PlansStay
<1>4. /\ r \in txn[b].dels[t] => r \in txn[b].adds[t]
      /\ r \in txn[b].adds[t] /\ r \notin txn[b].dels[t] => t # "resolves_to" /\ NotedTwice(b, t, r)
  BY <1>2, <1>3 DEF Drifts, Restores
<1>5. t # "resolves_to" => ~NotedTwice(b, t, r)
  <2> SUFFICES ASSUME t # "resolves_to", NotedTwice(b, t, r) PROVE FALSE
    OBVIOUS
  <2>1. PICK c, d \in txn[b].beside : c # d /\ Concerns(c, t, r) /\ Concerns(d, t, r)
    BY DEF NotedTwice
  <2>2. {c, b} \in overlapped' /\ {d, b} \in overlapped'
    <3>1. {b, c} \in overlapped' /\ {b, d} \in overlapped'
      BY <1>1, <2>1
    <3>2. {b, c} = {c, b} /\ {b, d} = {d, b}
      OBVIOUS
    <3> QED  BY <3>1, <3>2
  <2>3. c \in Batches /\ d \in Batches
    BY <1>2, <2>1 DEF Shape, Shaped, Open, Idle
  <2>4. Concerns(c, t, r)' /\ Concerns(d, t, r)'
    BY <1>1, <2>1, PlansStay
  <2>5. Outrun(t, r)'
    BY <2>1, <2>2, <2>3, <2>4 DEF Outrun
  <2> QED  BY <2>5 DEF Loud
<1>6. r \in db'[t] <=> (r \in db[t] /\ r \notin txn[b].dels[t]) \/ r \in txn[b].adds[t]
  BY <1>1, <1>2, ViewOf
<1>7. r \in txn[b].dels[t] => r \in db[t]
  BY <1>2 DEF There
<1>8. r \in db'[t] <=> r \in db[t]
  BY <1>4, <1>5, <1>6, <1>7
<1>9. Agree(db', db, t, r)
  BY <1>1, <1>2, SeesOthers
<1> QED  BY <1>8, <1>9

(* What is committed is exact where nobody else can be blamed. *)
LEMMA CommitExact ==
  ASSUME Shape, Sound, AllPlanned, AllExact, NEW b \in Batches, Commit(b)
  PROVE  Exact'
<1>1. /\ txn[b].stage = "linked" /\ db' = View(txn[b]) /\ plan' = plan
      /\ overlapped' = overlapped \cup { {b, c} : c \in txn[b].beside }
  BY CommitMoves
<1>2. ASSUME NEW t \in Linking, NEW r, ~Loud(t, r)'
      PROVE  r \in db'[t] <=> r \in Derived(db', t, Files)
  <2>1. Open(b) /\ Behind(b, t) /\ Drifts(b) /\ Exact /\ ~Loud(t, r)
    BY <1>1, <1>2, PlansStay DEF Open, Behind, AllExact
  <2>2. CASE Concerns(b, t, r)
    <3>1. ~Noted(b, t, r)
      <4> SUFFICES ASSUME Noted(b, t, r) PROVE FALSE
        OBVIOUS
      <4>1. PICK c \in txn[b].beside : Concerns(c, t, r)
        BY DEF Noted
      <4>2. {b, c} \in overlapped'
        BY <1>1, <4>1
      <4>3. \A d \in {b, c} : Concerns(d, t, r)'
        BY <1>1, <2>2, <4>1, PlansStay
      <4> QED  BY <1>2, <4>2, <4>3 DEF Loud, BothOverlapped
    <3>2. Rights(b, t, r)
      BY <2>1, <2>2, <3>1 DEF Drifts
    <3> QED  BY <1>1, <2>1, <3>2 DEF Rights
  <2>3. CASE ~Concerns(b, t, r)
    <3>1. (r \in db'[t] <=> r \in db[t]) /\ Agree(db', db, t, r)
      BY <1>2, <2>3, CommitKeeps
    <3>2. r \in Derived(db', t, Files) <=> r \in Derived(db, t, Files)
      BY <3>1, Local
    <3> QED  BY <2>1, <3>1, <3>2 DEF Exact
  <2> QED  BY <2>2, <2>3
<1> QED  BY <1>2 DEF Exact

(* A commit changes for the others only rows of files it loaded, and they   *)
(* note it.                                                                 *)
LEMMA CommitDrifts ==
  ASSUME Shape, Sound, AllPlanned, AllExact, NEW b \in Batches, Commit(b), NEW c \in Batches, Open(c)'
  PROVE  Drifts(c)'
<1>1. /\ plan' = plan /\ txn'[b] = Idle
      /\ overlapped' = overlapped \cup { {b, d} : d \in txn[b].beside }
  BY CommitMoves
<1>2. c # b /\ txn[c] # Idle
  <2>1. c # b
    BY <1>1 DEF Open, Idle
  <2>2. txn[c] = Idle => txn'[c] = Idle
    BY <2>1, CommitMoves
  <2> QED  BY <2>1, <2>2 DEF Open, Idle
<1>3. /\ Same(c, {"stage", "at", "owners", "paths", "rows", "dels", "adds"})
      /\ txn'[c].beside = txn[c].beside \cup {b}
  BY <1>2, CommitMoves
<1>4. /\ txn'[c].stage = txn[c].stage /\ txn'[c].at = txn[c].at /\ txn'[c].owners = txn[c].owners
      /\ txn'[c].rows = txn[c].rows /\ txn'[c].dels = txn[c].dels /\ txn'[c].adds = txn[c].adds
  BY <1>3 DEF Same
<1>5. Open(c) /\ Open(b)
  BY <1>2, CommitMoves DEF Shape, Shaped, Open, Loading, Relinking
<1>6. /\ outcome[b] = "running"
      /\ \A d \in txn[c].beside : outcome[d] = "done"
  BY <1>5 DEF Shape, Shaped, Open, Idle
<1>7. Drifts(c)
  BY <1>5 DEF AllExact
<1>8. Same(c, {"stage", "at"})
  BY <1>4 DEF Same
<1>9. /\ \A f : Touched(c, f)' <=> Touched(c, f)
      /\ \A f : Settled(c, f)' <=> Settled(c, f)
      /\ \A t : Behind(c, t)' <=> Behind(c, t)
      /\ \A t, s : Here(c, t, s)' <=> Here(c, t, s)
      /\ \A t : Ahead(c, t)' <=> Ahead(c, t)
  BY <1>1, <1>8, PlaceStays
<1>10. Owns(c)'
  BY <1>4, <1>7, <1>9 DEF Drifts, Owns
<1>11. ASSUME NEW t \in Linking, NEW r, ~Loud(t, r)', ~Concerns(c, t, r)' PROVE Restores(c, t, r)'
  <2>1. Restores(c, t, r)
    BY <1>1, <1>7, <1>11, PlansStay DEF Drifts
  <2>2. /\ Noted(c, t, r) => Noted(c, t, r)'
        /\ NotedTwice(c, t, r) => NotedTwice(c, t, r)'
        /\ InScope(c, t, r)' <=> InScope(c, t, r)
        /\ Concerns(b, t, r) => Noted(c, t, r)'
    BY <1>1, <1>3, <1>4, PlansStay DEF Noted, NotedTwice, InScope
  <2>3. Concerns(b, t, r) /\ Noted(c, t, r) => NotedTwice(c, t, r)'
    <3> SUFFICES ASSUME Concerns(b, t, r), Noted(c, t, r) PROVE NotedTwice(c, t, r)'
      OBVIOUS
    <3>1. PICK d \in txn[c].beside : Concerns(d, t, r)
      BY DEF Noted
    <3>2. d # b /\ d \in txn'[c].beside /\ b \in txn'[c].beside
      BY <1>3, <1>6
    <3>3. Concerns(d, t, r)' /\ Concerns(b, t, r)'
      BY <1>1, <3>1, PlansStay
    <3> QED  BY <3>2, <3>3 DEF NotedTwice
  <2>4. ~Concerns(b, t, r) => (r \in db'[t] <=> r \in db[t])
    BY <1>11, CommitKeeps
  <2>5. Fits(t, r)' <=> Fits(t, r)
    BY DEF Fits
  <2> QED  BY <1>4, <1>9, <2>1, <2>2, <2>3, <2>4, <2>5 DEF Restores
<1>12. ASSUME NEW t \in Linking, NEW r, ~Loud(t, r)', Concerns(c, t, r)', ~Noted(c, t, r)' PROVE Rights(c, t, r)'
  <2>1. ~Noted(c, t, r) /\ ~Concerns(b, t, r) /\ Concerns(c, t, r)
    BY <1>1, <1>3, <1>12, PlansStay DEF Noted
  <2>2. Rights(c, t, r)
    BY <1>1, <1>7, <1>12, <2>1, PlansStay DEF Drifts
  <2>3. (r \in db'[t] <=> r \in db[t]) /\ Agree(db', db, t, r)
    BY <1>12, <2>1, CommitKeeps
  <2>4. r \in Derived(db', t, Files) <=> r \in Derived(db, t, Files)
    BY <2>3, Local
  <2>5. \A s \in Tables : /\ View(txn[c])'[s] = (db'[s] \ txn[c].dels[s]) \cup txn[c].adds[s]
                          /\ View(txn[c])[s] = (db[s] \ txn[c].dels[s]) \cup txn[c].adds[s]
    BY <1>4 DEF View
  <2>6. t \in Tables /\ "occurrence" \in Tables
    BY TableNames
  <2>7. r \in View(txn[c])'[t] <=> r \in View(txn[c])[t]
    BY <2>3, <2>5, <2>6
  <2>8. Agree(View(txn[c])', View(txn[c]), t, r)
    BY <2>3, <2>5, <2>6 DEF Agree
  <2>9. r \in Derived(View(txn[c])', t, Files) <=> r \in Derived(View(txn[c]), t, Files)
    BY <2>8, Local
  <2>10. /\ Derived(db, t, Files)' = Derived(db', t, Files)
         /\ Derived(View(txn[c]), t, Files)' = Derived(View(txn[c])', t, Files)
    OBVIOUS
  <2>11. (FilesOf(c))' = FilesOf(c)
    BY <1>1, PlansStay
  <2> QED  BY <1>4, <1>9, <2>2, <2>4, <2>7, <2>9, <2>10, <2>11 DEF Rights
<1> QED  BY <1>10, <1>11, <1>12 DEF Drifts

(* A rebuild leaves nothing off. *)
LEMMA RebuiltIsExact ==
  ASSUME NEW d, d = Rebuilt(db)
  PROVE  \A t \in Linking : \A r : r \in d[t] <=> r \in Derived(d, t, Files)
<1>1. d.occurrence = db.occurrence /\ \A t \in Linking : d[t] = Derived(db, t, Files)
  BY TableNames DEF Rebuilt, Linking
<1> QED  BY <1>1, Local DEF Agree

(* The graph starts as a rebuild leaves it. *)
LEMMA ExactInit == Init => AllExact
<1> SUFFICES ASSUME Init PROVE AllExact  OBVIOUS
<1> DEFINE v == [Empty EXCEPT !.occurrence = UNION { Rows(l.file, "before", l.text) : l \in Range(plan["before"]) }]
<1>1. db = Rebuilt(v)
  BY DEF Init
<1> HIDE DEF v
<1>3. db.occurrence = v.occurrence /\ \A t \in Linking : db[t] = Derived(v, t, Files)
  BY <1>1, TableNames DEF Rebuilt, Linking
<1>4. Exact
  BY <1>3, Local DEF Agree, Exact
<1>5. \A b \in Batches : ~Open(b)
  BY DEF Init, Open, Idle
<1> QED  BY <1>4, <1>5 DEF AllExact

(* Every step keeps what is not loud exact. *)
LEMMA ExactNext == Shape /\ Sound /\ AllPlanned /\ AllExact /\ [Next]_vars => AllExact'
<1> SUFFICES ASSUME Shape, Sound, AllPlanned, AllExact, [Next]_vars PROVE AllExact'  OBVIOUS
<1>1. CASE RebuildAll
  <2>1. db' = Rebuilt(db) /\ txn' = txn /\ \A b \in Batches : ~Open(b)
    BY <1>1 DEF RebuildAll
  <2>2. \A t \in Linking : \A r : r \in db'[t] <=> r \in Derived(db', t, Files)
    BY <2>1, RebuiltIsExact
  <2>3. Exact'
    BY <2>2 DEF Exact
  <2>4. \A b \in Batches : ~Open(b)'
    BY <2>1 DEF Open
  <2> QED  BY <2>3, <2>4 DEF AllExact
<1>2. ASSUME NEW b \in Batches, NewBatch(b) PROVE AllExact'
  BY <1>2, DriftsNew
<1>3. ASSUME NEW b \in Batches, Before(b) PROVE AllExact'
  BY <1>3, DriftsBefore
<1>4. ASSUME NEW b \in Batches, LockFilePath(b) PROVE AllExact'
  BY <1>4, DriftsPath
<1>5. ASSUME NEW b \in Batches, DeleteRows(b) PROVE AllExact'
  BY <1>5, DriftsRows
<1>6. ASSUME NEW b \in Batches, ReplaceOccurrences(b) PROVE AllExact'
  BY <1>6, ReplaceMoves, DriftsReplace, DriftsEnds
<1>7. ASSUME NEW b \in Batches, After(b) PROVE AllExact'
  BY <1>7, DriftsAfter
<1>8. ASSUME NEW b \in Batches, Clear(b) PROVE AllExact'
  BY <1>8, DriftsClear
<1>9. ASSUME NEW b \in Batches, Derive(b) PROVE AllExact'
  BY <1>9, DriftsDerive
<1>10. ASSUME NEW b \in Batches, InsertRows(b) PROVE AllExact'
  BY <1>10, InsertMoves, DriftsInsert, DriftsEnds
<1>11. ASSUME NEW b \in Batches, Commit(b) PROVE AllExact'
  BY <1>11, CommitExact, CommitDrifts DEF AllExact
<1>12. ASSUME NEW b \in Batches, Rollback(b) PROVE AllExact'
  BY <1>12, RollbackMoves, DriftsEnds
<1>13. CASE UNCHANGED vars
  <2>1. db' = db /\ plan' = plan /\ overlapped' = overlapped /\ txn' = txn
    BY <1>13 DEF vars
  <2>2. \A t : Derived(db, t, Files)' = Derived(db, t, Files)
    BY <2>1
  <2>3. Exact'
    BY <2>1, <2>2, PlansStay DEF AllExact, Exact
  <2>4. ASSUME NEW c \in Batches, Open(c)' PROVE Drifts(c)'
    <3>1. Open(c) /\ txn'[c] = txn[c]
      BY <2>1, <2>4 DEF Open
    <3> QED  BY <2>1, <3>1, DriftsStay DEF AllExact
  <2> QED  BY <2>3, <2>4 DEF AllExact
<1> QED  BY <1>1, <1>2, <1>3, <1>4, <1>5, <1>6, <1>7, <1>8, <1>9, <1>10, <1>11, <1>12, <1>13 DEF Next

(* Any number of batches side by side, whatever they load, refused, rolled  *)
(* back or run again: a row that a rebuild would not leave as it is rests   *)
(* on files two overlapped batches loaded, or is one of imports or          *)
(* implements that a third kept between them (link/incremental.go's         *)
(* equality with the full rebuild, and what it does not claim of concurrent *)
(* indexers).                                                               *)
THEOREM DriftOnlyBetweenOverlapped == Spec => []DriftBetweenOverlapped
<1>1. Init => Shape /\ Sound /\ AllPlanned /\ AllExact
  BY ShapeInit, SoundInit, PlannedInit, ExactInit
<1>2. Shape /\ Sound /\ AllPlanned /\ AllExact /\ [Next]_vars => Shape' /\ Sound' /\ AllPlanned' /\ AllExact'
  BY ShapeNext, SoundNext, PlannedNext, ExactNext
<1>3. AllExact => DriftBetweenOverlapped
  <2> SUFFICES ASSUME AllExact, NEW t \in Linking, NEW r \in Off(t) PROVE Loud(t, r)
    BY TableNames DEF DriftBetweenOverlapped, Loud
  <2>1. Rebuilt(db)[t] = Derived(db, t, Files)
    BY TableNames DEF Rebuilt, Linking
  <2> QED  BY <2>1 DEF Off, AllExact, Exact
<1> QED  BY <1>1, <1>2, <1>3, PTL DEF Spec
=============================================================================
