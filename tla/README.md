# A verification project for codiq

codiq indexes a repository into a PostgreSQL code graph. `cmd/codiq` starts or
resumes one *durable* map-reduce workflow (DBOS): a map task per file parses it
and leaves an *artifact* on disk, one reduce loads the whole batch in one
transaction and re-derives the cross-file edges next to it. This project models
that program in TLA+ -- the workflow and its crashes, the artifact files, the
coordinates and the extractors a map task runs, the loads, the re-link and their
locks -- checks the models with TLC and proves the main safety properties with
TLAPS.

All modules are translated from the Go and SQL sources; `PROJECT.json` maps
every modelling definition to the lines it stands for.

## Inventory

| part | state it keeps | operations | what makes it correct |
|---|---|---|---|
| **durable workflow** `index/dbos.go`, `index/reduce.go` | DBOS rows of a run and its child tasks; step checkpoints | `indexRepo`, `mapFiles`, `reviveCancelled`, `extractFile`, `reduce`, `reduceOnce` | no file of a walk is lost; a batch is loaded whole or not at all; a replay repeats nothing that matters; every run ends |
| **command line** `cmd/codiq/main.go` | which run this process is attached to | `durable`, `start`, `await`, the deferred `Shutdown` | an unfinished run is finished, never raced by a second one |
| **artifact store** `artifact/` | one file per `(root, path)` | `Write`, `Read`, `Delete` | a checkpointed key names an artifact until its batch has committed |
| **in-process loader** `index/index.go` | counters of one `Run` | `walk`, `extract`, `loadWithRetry`, `withRetry` | bounded retries; loaded + skipped = files |
| **store** `store/store.go` | the base tables | `ReplaceFile` (`resolveFile`, `flatten`, `deleteFile`, `insertRows`) | replacing is idempotent, leaves no dangling row, keeps `file.id` |
| **link pass** `link/`, `store/sqlc/query.sql` | five derived edge tables | `NewBatch`, `Touch`, `Relink`, `RebuildAll` | an incremental re-link equals the full rebuild |
| **link locks** `query.sql` | advisory and row locks | shared and exclusive link lock, per-path lock, ordered row locks | a rebuild never runs beside a load and is in no deadlock; loads deadlock only over rows derived again; every loader ends |
| **backstop** `index/schedule.go` | one scheduled workflow | `ScheduledRebuild`, `TriggerRebuild` | heals what an incremental re-link missed |
| **coordinates** `coord/` | none | `Resolve`, `For`, `Import`, one parser per manifest | nearest manifest wins; two packages never share a prefix; what is not stated is marked unknown |
| **extractors** `extract/*` | the builder of one parse: scopes, occurrences, edges, imports | `Parse`: scopes, imports, definitions, references | references resolve to the innermost declaration; equal descriptors mean equal symbols, across files; facts are self-contained |
| **facts and codec** `facts/`, `artifact/codec.go` | none | `encode`/`decode`, `flatten` | round trip; what is out of range or dangles is refused before it is written |
| **key, walk** | none | `Key`, `prunedDir` | no collision; pruned trees are not walked |

How they interact: `run()` launches DBOS, which recovers whatever an executor
left `PENDING`; `start` attaches to an unfinished run of the target or starts a
new one; the run enqueues its map tasks on the `extract` queue and awaits them
in path order; the tasks publish artifacts; the reduce reads them, calls
`store.ReplaceFile` per file inside one transaction, re-links, commits, deletes
the artifacts. A signal makes `Shutdown` cancel what is executing; a crash
leaves it `PENDING`. Both are resumed by a later process, through different
doors, from the checkpoints.

The hard behaviours are therefore: replay from checkpoints over a tree that has
changed since; a crash between commit, deletes and checkpoint; cancellation
that looks like failure; two runs sharing artifacts; retries of a whole
transaction; two transactions over READ COMMITTED tables that each see half of
what the other does; the order in which `start` asks DBOS its questions while
DBOS's queues keep moving; and, with no concurrency at all, names: a descriptor
is computed twice, in the file that declares a symbol and in the file that uses
it, from what each file's syntax happens to say, and the link pass joins on
equality. `PROJECT.json` lists them as hazards, each at its line.

## Modules

| module | what it models |
|---|---|
| `IndexWorkflow` | the process, DBOS's durable rows, map tasks, the run, the reduce |
| `IndexProperties` | its types, safety, action and liveness properties, its refinement of `AtomicBatches`, the inductive invariant, and two claims of the comments that the model refutes |
| `AtomicBatches` | abstract: what a run is to who looks at the graph and at its status |
| `IndexProofs` | TLAPS proofs about it, for every value of the constants |
| `LinkGraph` | the five derivations of `query.sql`, as functions of the base facts |
| `Relink` | `link.Batch` inside `reduceOnce`, with `store.ReplaceFile`; `link.RebuildAll`; what the re-link promises, and its refinement of `LinkedGraph` |
| `LinkedGraph` | abstract: what readers of the graph are promised |
| `MCRelink`, `RelinkProofs` | an instance for TLC; TLAPS proofs |
| `LinkLocks` | the statements of a batch, a load and a rebuild over READ COMMITTED snapshots, PostgreSQL granting the locks they ask for, and what the locks promise |
| `MCLinkLocks`, `LinkLocksProofs` | an instance for TLC; TLAPS proofs |
| `BatchRace` | reduce batches side by side, statement by statement, and what drift they may leave |
| `MCBatchRace`, `BatchRaceProofs` | an instance for TLC; TLAPS proofs |
| `Facts` | the facts of a file, their artifact (`encode`, `decode`) and their rows (`flatten`) |
| `Store` | `ReplaceFile`, statement by statement, of loaders side by side and a rebuild; what readers of the base tables rely on |
| `MCStore`, `StoreProofs` | an instance for TLC; TLAPS proofs, with those of the artifact store |
| `ArtifactStore` | `FSStore.Write`, `Read` and `Delete` file operation by file operation, of processes that die, on a host that reboots |
| `AtomicStore` | abstract: what a map task and a reduce are promised of an artifact |
| `DataInduction` | induction and recursion up to a number, in the first-order form the proofs use |
| `Manifests` | what each of the eleven resolvers reads out of its manifest |
| `Coords` | `Resolve`, `Set.For`, `Namespace`, `Import`: a tree's coordinates and the descriptors' prefixes, what keeps two packages apart and joins an import to its package |
| `MCCoords`, `CoordsProofs` | an instance for TLC; TLAPS proofs |
| `Tree` | the concrete syntax tree a stanza is given, and its queries |
| `Stanza` | the skeleton the stanzas share: builder, scopes, occurrences, visibility, the order of captures |
| `StanzaGo`, `StanzaTs`, `StanzaPy`, `StanzaJava`, `StanzaRb`, `StanzaRs`, `StanzaCs` | the stanzas of Go, TypeScript, Python, Java, Ruby, Rust and C# |
| `Extract` | the files of a repository through the four passes; what their facts must be for the store and the link pass |
| `Syntax`, `MCCompiled`, `MCScripts`, `MCExtract` | the programs of the instances: trees written down, a few files per language |
| `ExtractProofs` | TLAPS proofs about the passes |

The groups meet in the order of a run. A map task parses a file (`Extract`) with
the coordinate of its tree (`Coords`) and leaves the facts (`Facts`) as an
artifact (`ArtifactStore`); `IndexWorkflow` takes the parse as one step and
relies on a whole artifact or none, which is what `AtomicStore` says and
`StoreProofs` proves. The rest meet at the reduce. `IndexWorkflow` has it as
the actions `Reduce`, `Load`, `Conflict`, `Commit`: what is in the batch, when it
commits and what a crash leaves. `Store` is one file of it at the level of rows.
`Relink` opens the same transaction and looks at the derived rows its statements
write; `BatchRace` opens two. `LinkLocks` looks at the locks those statements
take, and is where the `Conflict` of `IndexWorkflow` comes from. `TypeOK` of
`Extract` is stated with the operators of `Facts`: the facts a stanza emits are
ones the codec writes and `flatten` accepts.

### IndexWorkflow

*Durable* variables are `status`, `owner`, `log` (the checkpoints of a run's own
steps), `task` (the child workflows and the checkpoint of their one step), `art`
and `graph`; *volatile* ones are `cli` (the process), `go` (the goroutine
executing a run, with its locals) and `work` (the workers executing tasks). `Die`
resets exactly the volatile ones. `tree` and `manifest` are the environment's:
files are edited, broken, removed at any time. `committed`, `base` and `rivals`
are history variables, read by properties only.

A run is replayed from `resolve` by whichever process picks it up. Each step
first looks at its checkpoint: `Site` and `Walk` answer from `log`, `Enqueue`
finds the child that is already recorded (a child workflow is named by its step
id), `Verdict` answers from a checkpointed await. `ReviveCancelled` is not
checkpointed in the code (it runs on the executor's context), and is not here.

Data is reduced to what the properties tell apart: a file's content is a
version number, growing with time, some of which mean "absent" or "does not
parse"; a manifest is the coordinate it resolves to; an artifact and a loaded
file are the pair of the content and the coordinate they were made from. The
rows a load writes and the edges derived from them are the subject of `Relink`.

What DBOS does is external and modelled from how the code uses it: a workflow
row has one of the statuses `start` lists, a step's output is recorded after the
step, `Launch` restarts `PENDING` workflows, a resumed one waits on a queue,
`Shutdown` cancels. What a cancelled context does to a call in flight is a
choice: `CancelRun`, `CancelTask`, `AwaitCancelled` and `CollectNothing` happen
in any order, or not before the process exits.

### LinkGraph and Relink

A graph is a record: the files that have a row, each file's occurrences in the
order of `(range_start, id)` with their descriptor, role, kind, place and scope,
how often the file was loaded, and the five derived tables. An occurrence's uuid
is the triple of its file, that count and its place: `flatten` mints new ones
every time, `resolveFile` keeps the file's. A descriptor is a symbol and a
member suffix, which is all that `RebuildImplements` takes apart.

`Linked` is the join on the descriptor that four of the derivations share;
`ResolvesTo`, `Imports`, `Calls` and `TypeDefines` are computed from its pairs,
`Implements` from the method sets of whole symbols. `Derive(d, U)` restricts the
referencing side to the files of `U` as the `Relink...` queries do, and
`Rebuilt` is `RebuildAll`'s `Derive(d, Files)`.

`graph` is what is committed, `tx` what the open transaction sees, `owners` the
set of `link.Batch`. `NewBatch` begins; `Load` is one file of the batch, touched,
replaced and touched again (`Without` is the part of `deleteFile` that clears
derived rows from both sides); `RelinkBatch` clears and derives the owners'
rows, and `implements` in full; `Commit`, `Rollback` and `RebuildAll` end a
transaction. One batch is open at a time: the code claims equality with the
rebuild for that case only ("what this does *not* claim to fix is two concurrent
indexers of one corpus"). `BatchRace` is the other case.

`LinkedGraph` has one variable and one action: publish more loads, with the
edges that follow from them. That `Relink` implements it says that no reader
ever sees facts without their edges or a half-loaded batch.

### LinkLocks

A transaction is the sequence of its statements: `ReplaceFile`, `Batch` and
`Rebuild` build it from the file or files it loads and from the derived rows there
can be. Rows of a table are ordered by primary key, tables by the list in
`deleteFile` and `Batch.Relink`. A statement takes an advisory lock or a file's
occurrences, locks rows in order, deletes rows, checks that no row refers to what
was deleted, or inserts rows, which takes key-share locks on the occurrences at
their ends.

What a statement asks for is settled when it begins (`Begin`, `Requests`), from
what is committed at that moment, as READ COMMITTED has it. `xmin` says of each row
and each file's occurrences which transaction inserted the tuple that is there, and
a request is for a tuple, not for a place in the table. A tuple that was deleted
while the statement waited is passed over (`Skip`); one that was inserted since the
statement began is not seen by it, and is by the next statement. So a load's
ordered lock does *not* cover all its deletes touch, which the comments of the
code take for granted: `LoadsNeverInCycle` states it, and TLC refutes it on the
instance of `lock` within seconds. What `lock` checks and `LinkLocksProofs` proves is
`LoadsCycleOverNewRows`, which says where the cycles are. A `DELETE` and the check behind a
foreign key have no order: theirs is any.

The lock manager is PostgreSQL's and external: a request is granted when no
conflicting one is held on the same tuple and, for the link lock, none was queued
earlier; a member of a cycle of waits is aborted, and which one is any.
`DeadlockVictim` is `withRetry`, which runs the whole transaction again; `Refused` is
a foreign key, which is not retried; `Disconnect` is a loader that dies or meets
another error.

Each file is reloaded with what it held, so the rows that can be derived are
constant, and a batch derives what its owners had. The place of a row in the order
is constant too, where in the code a row that is derived again has new uuids and so
another place: an order of tuples rather than of rows. The instance
has fewer orders for it; what the locks promise needs only that two
statements order alike what both see, which they do either way. That two batches may
insert one key is `BatchRace`'s subject.

Deadlocks are what `withRetry` is for: a batch locks file by file and then table by
table, so two batches, or a batch and a load, can hold what the other wants.
`LoadersEnd` says they end all the same.

### BatchRace

Two reduces hold the link lock in shared mode, so nothing keeps them apart but
row locks and the lock on a path. A transaction is what it deleted and what it
inserted (`dels`, `adds`); a statement sees `db` and its own changes (`View`), as
READ COMMITTED has it. A batch goes through its files (`Before`, `LockFilePath`,
`DeleteRows`, `ReplaceOccurrences`, `After`: `Touch`, `ReplaceFile`, `Touch`) and
then through the tables (`Clear`, `Derive`, `InsertRows`: the lock-and-delete, the
derivation and the insert of one `Relink...` statement). A statement that meets a
row another open transaction deleted or referenced waits (`WaitsFor`); what is
missing, or there already, when the wait is over is an error of a constraint
(`Breaks`), and `withRetry` does not retry those. `resolves_to` stands for the
three tables of its shape. `implements` is derived as `RebuildImplements` does, by
containment of method sets (`Satisfies`, `Overrides`), with the members of a type in
any file; it is rebuilt in full by every batch, which is what makes two of them
collide.

A batch need have no files: a walk that found none, or nothing that parsed, is reduced
all the same, and rebuilds `implements`. `Plans` say what each batch loads and what
was loaded before them.

What the model made of it. A row is off only when two batches that overlapped each
loaded a file it *rests on* (`BothOverlapped`). For an owned row and an import these are the
files of its two ends. For `implements` they are all the files that define, in any
text there is, the type, the interface or a member of either: of two batches that
each bring one of the two methods an interface asks for, neither sees the type
satisfy it, and nobody loaded the type or the interface. The two batches may also
have loaded the same file: `Touch` asks for a file's neighbourhood *before*
`ReplaceFile` takes the lock on its path, so the second may have asked before the
first committed, and leaves an import of the text in between until the next rebuild.

A third batch that loads none of the files can also be at fault (`Outrun`): it derived
the row from what the first committed and inserts it when the second has removed it,
or the other way round. An import's ends are files, which no replaced
occurrence takes away; the ends of an `implements` row stay when only a method moves.
A row of `resolves_to` would be refused by its keys.

And a batch may be refused by a primary or a foreign key, but only when another
committed beside it. That is what `DriftBetweenOverlapped` and
`RefusedBesideAnother` bound, and they say that a batch by itself leaves what a
rebuild would, and is never refused.

### Facts and Store

Facts are records as in `facts/facts.go`; a descriptor and a coordinate are one
value each. `encode` and `decode` are the codec with its renumbering of enums and
its two references per edge, `flatten` gives the rows of each table and checks
what the code checks before a statement runs (`span`, unknown ids, edges no table
holds).

`Store` has one transaction per loader, over the same `View` as `BatchRace`. Its
actions are the statements: `Begin` (with facts straight from the extractor, as
`index.Run` has them, or through their artifact, as a reduce has),
`LockLinkShared`, `LockFilePath`, `resolveFile`, `Flatten`, then `LockRows`,
`DeleteEdges` and `DeleteVertices` along the sequence `deleteFile`, `Copy` along
`insertRows`, and `Commit`. `RebuildAll` joins any two occurrences of two files
in each derived table: the foreign keys must hold against whatever a re-link wrote. A foreign key
that would be violated ends a transaction as `refused`. `last` and `end` are history.

### ArtifactStore

The state is the file system's: `names` is the directories as the kernel has them,
`disk` as the disk has them, `content` what is in the files, cached and synced; `call`
is the `Write` a client is in and `opened` the file its last `Read` opened.
`Write` is `CreateTemp`, `WriteBlob`, `Sync`, `Rename`, with the deferred remove in
`WriteFails`; a process may `Die` between any two, leaving its temporary file. The
kernel writes an entry out when it likes (`WriteBack`), and a `Reboot` of the host keeps
any part of what was not written out. The directory is never synced by the code,
so a reboot may give a key an earlier file back, or none: `AtomicStore` allows
that, and *only* whole artifacts. (That an absent artifact means its batch has committed,
as `ErrNotFound` is commented, is true of a crash of the process and not of a
crash of the host.) A temporary name is never given twice in the model; in the
code `os.CreateTemp` draws one that does not exist.

### Manifests and Coords

A directory is the sequence of its segments, a tree's surroundings the manifests
at and above it. `Resolve` is one turn of the loop: read every registered manifest
of this directory and stop, fail on a malformed one, or go up. A manifest is its lines, or its
fields where the code has a parser; each line is reduced to what the scanner can
tell about it (for TOML: header, key and value, and the triple quotes in order).
A descriptor's prefix is the scheme, manager, name, version and the namespace of
the directory; an import's is computed from the path written in the source.

`IdentityIsStated` compares the line scanners with a definition of what the
formats say. It holds up to the scanners' own limits, which `DocumentsAssumption`
states: a TOML line has the triple quotes of one string at most, none after it
closes the string it starts in; Bundler writes a block's `remote:` before its
`specs:`; and values that name another are a matter of Maven, MSBuild, Gradle,
Swift and CMake, where the resolvers look for them. Not modelled are the block
form of CMake's `project` and directory names that begin with "..". A Maven name
is group and artifact as two segments. Two *different* trees that both state no name render the same prefix;
`DescriptorsSeparate` is about the directories and ecosystems of one tree.

### The extractors

A file is a syntax tree: the preorder sequence of nodes with their type, field,
text and span. A stanza is four passes over it, as in the code: `collectScopes`,
`collectImports` (with the package clause or module header), `collectDefinitions`,
`collectReferences`. `Extract` interleaves nothing, since a parse touches nothing
but its builder; the actions are the passes, file after file. `Stanza` holds what
the Go stanzas repeat: a builder, scopes by containment, the numbering of occurrences, visibility
(`Visible`: the innermost scope, earlier declarations first, hoisting by the kind
of scope) and which capture of a name is taken (`Definitions`, `References`). A
language module has what is the language's: which nodes its `.scm` query captures,
its kinds and suffix marks, how an import binds, how far a receiver's type can be
followed, and the descriptor of each role of reference.

The programs are written so that a name has a meaning: every identifier that names
a symbol carries a `tag`, the symbol it means in the language, and `known` when the
file alone tells. The tags are the reference definition the extractors are checked
against. `NoFalseJoin`: *every* definition that has a reference's descriptor, in
whichever file, is of the symbol the reference means. `Joins`: what is known is
found. `ResolvedInFile`: inside the file without the link pass, by one edge that
leads to a definition of that symbol and not merely of that descriptor. One
exception is made, `Overloads`: overloaded methods of Java and C# share a descriptor,
as `java.go:88` and `cs.go:117` document, and a reference to one joins them all.

What is left out of a language module: an occurrence's display name and the
modules' names, the order edges are sorted in, and the *extent* of the name sets
(predeclared names, standard library roots, globals, preludes): each is a small
sample of the code's table. A reference occurrence's kind is its role. A file is
always inside the root of its coordinate.

The code's own limits come in two sorts. Where it resolves a name to a *wrong*
symbol, programs of `MCCompiled` and `MCScripts` show it, the three sets that
`extract_collision` takes together; narrowed to any one of them it is violated too.
The programs of `extract` keep to names that are not reused that way:

- *Two locals of one function with one name* (`MCShadowedLocals`): a local's
  descriptor is its function's and its name, so an inner declaration gets the outer
  one's, and the edge inside the file leads to the first (`golang.go:377`, `543`). Shown in Go,
  TypeScript and Rust; by reading, two locals in blocks of one C# method are alike.
- *A declaration that hides an import* (`MCShadowedImports`): the imports are
  looked at before the scopes (`golang.go:574`, `590`, `603`; `ts.go:658`, `686`;
  `py.go:875`; `rs.go:1089`; `java.go:911` for a static import and a method of the
  class). A use of the local takes the descriptor of what was imported, and
  joins it. By reading, imported type names and aliases win over nested types in
  Java and C# too; no program shows that.
- *Another kind of thing with the same name* (`MCHomonyms`): the descriptor follows from how a
  name is used. A called parameter joins the function of its name (Go, TypeScript,
  Rust); a field read as a qualifier joins the method (Java); a global that is read
  joins an attribute of `self` (Python); a bare send inside `def self.m` joins
  the instance method (Ruby, `rb.go:912`).

Where it resolves a name to *nothing*, or the programs do not step on it:

- Ruby: a bare call of a method of an outer container, and `class Foo::Bar`'s two
  readings, are not in the programs.
- Rust: `crate::`, `self::` and `super::` in a type annotation or an `impl` are
  read as ordinary names, `Self::new()` is not followed, calls of a nested `fn`
  and type parameters are not joined, and `lib.rs` and `main.rs` share a
  namespace.
- C#: inside its own class a class's name is a binding without a type
  (`cs.go:1326`), so `Greeter.Limit` written in `Greeter` joins nothing; type
  parameters and calls of statically imported members are not joined; with two
  usings of the artifact's own namespaces a type is looked for in the file's; an
  alias of a namespace is read as one of a type.

## Runs

The `index_*` instances use file contents `0..4` (0 not there yet, 1 good, 2 poison, 3
good again, 4 removed), two coordinates, two workers and `MaxLoadAttempts = 2`.
Environment steps are bounded by `MaxEdits`, `MaxCrashes`, `MaxInterrupts` and
`MaxFaults`; nothing else is. Deadlock is not checked: a process may stay down,
and a finished instance has nothing left to do. The same holds of a re-link that
used up its loads and of transactions that all ended.

| run | instance | what it shows |
|---|---|---|
| `index_crash` | 1 run, 2 files, 1 edit, 1 crash, 1 signal, 2 faults | no file is lost to a cancelled task, a fault or an edit; poison never replaces good facts; a batch carries one frozen coordinate and nothing older than its walk; commits are whole, behind database faults too; a second reduce changes nothing; a run is an atomic batch (refinement of `AtomicBatches`) |
| `index_live` | 2 runs, 1 file, 1 crash, 1 signal, fair | artifacts outlive their tasks until the commit; every run ends; a resolved run commits |
| `index_failed_run` | 1 run, 1 file, 1 crash | **violated**: a run in `ERROR` whose batch is in the graph |
| `index_one_run` | 2 runs, 1 crash, 1 signal | **violated**: two unfinished runs of one tree |
| `relink` | 3 files, 2 loads each, in batches of any shape | incremental equals full; no dangling row; only owners change; readers see linked graphs |
| `lock` | a batch, 2 loads, a rebuild; 3 files, 4 rows; fair | rebuilds run alone, never deadlock, and are made; loads deadlock only over a row derived again; every loader ends |
| `batch_race` | 3 batches over 4 files, overlapping or not, at least one of a single file or none | drift only in rows that rest on files of two overlapped batches; no lone batch is refused |
| `store` | 2 loaders, 2 files in 2 texts, malformed facts, a rebuild | one row per path; a file's rows are one load's; no foreign key refuses a load; other files are left alone |
| `artifact_store` | 1 key, 2 processes, 3 writes, deaths, reboots | readers get whole artifacts (refinement of `AtomicStore`) |
| `coords` | 1 tree, 11 manifests at 3 levels, documents for every branch | the nearest manifests decide; packages are separate; imports join their package; identities are stated |
| `extract` | seven languages, 1 to 3 files each | scopes nest; one occurrence per name; equal descriptors are equal symbols; what is known is joined, and in the file |
| `extract_collision` | six languages, 20 programs | **violated**: a local that hides another local or an import, or is called like a function of its name, joins what it hides |

Two files are what tells a partial batch from a whole one and gives two tasks
to interleave; two runs are what `start` has to choose between; one crash and
one signal put every pair of steps on both sides of a restart, by either door;
two faults exhaust a retry cap of two.

`relink` reduces the corpus of `link/incremental_test.go` to an interface, a type
and a caller, with the texts that make the neighbourhood matter: a method moves
to another file, a type is renamed away, a file leaves its package, a call stands
before any function. Two loads of each file, in one batch or in two, are what it
takes for a symbol to leave a file and for another file to notice; the proof
covers any number.

`lock` has rows in both directions between `b` and `c`, so that the source side and
the target side of a file disagree with the key order, rows of one owner in two
tables, and a batch that derives a row again which both loads touch. That makes the
cycle of two loads: the batch of `a` derives `b -> c` again; the load of `b` waited
for the old one, passes over it and locks `c -> b`; the load of `c`, which began
since, locks the new `b -> c` and waits for `c -> b`; and the `DELETE` of the first
load waits for `b -> c`. More rows, or a second batch, only multiply the orders of
what is locked: the proofs are for any of them. Two batches that deadlock with each
other, and a batch of several files, are in the proofs and not in the run, except
that liveness is the run's alone. The retries are bounded by `MaxAttempts = 2` in place
of 5. A loader's transactions are finitely many: that a stream of new loads does not
keep the rebuild waiting is the queue of the link lock, which is first come, first
served in the model because it is so in PostgreSQL.

**Fairness of `index_live`**: weak fairness of each run, each map task and
of the process. Go schedules every goroutine and DBOS polls its queues, so a
step that stays enabled is taken. `Process` includes `Launch`: someone invokes
codiq again, which is the code's own premise ("continues on the next run").
Crashes, signals, faults and edits are never owed. `EveryRunLoads` is stated for
runs no fault hit and no rival raced.

All `index_*` runs have one repository. That one repository's deletes leave
another's artifacts alone is proved, for any set of `Targets`, and not checked.

**Fairness of `lock`**: weak fairness of each transaction's `Step`. A granted
request returns, PostgreSQL queues the waiters of the link lock and looks for a
deadlock after a second, so a transaction that can go on does. `Disconnect` is
never owed.

`batch_race` has two families of plans. In one, a definition and a package move
between three files: a file both batches load, a file that refers to one of theirs,
and a package, so that an owned row and an import can go stale. In the other, a type
and its interface are in two files and their methods in two more, which the batches load
and the type and the interface nobody: containment comes and goes by members
alone. Two batches are what overlaps, and the third is what an outrun row takes.
Batches differ by their plans only, so they are symmetric.

`store` starts empty, where two loaders can create the same row, and loaded, where
they replace it; two loads with a rebuild between their statements show every
order of deletes and inserts. Offsets end at `MaxOffset = 4` in place of
`math.MaxInt32`.

`artifact_store` has two writers of one key, a writer and a reader, and a third
write after a reboot; the proof covers any number of keys, processes and writes.

`coords` and the two `extract` runs are deterministic from each initial state: their states are
the inputs. `coords` takes one or two manifests anywhere among the levels and for
each the documents that reach every branch of its resolver.

Findings: the violated claims are quoted in `PROJECT.json`.

- *A failed run may have loaded everything.* After the commit the reduce deletes
  its artifacts, and only then is the step checkpointed. A crash in between
  replays the step, which finds an artifact missing and fails the run.
- *Two runs of one tree.* `start` lists `PENDING`, then `ENQUEUED`, then
  `CANCELLED`. A resumed run whose process died while it was still enqueued may
  be dequeued between the first two questions; none of the three finds it.
- *A descriptor of the wrong symbol.* `extract_collision`: a local edge leads to
  another local, a hidden import is joined, and a parameter that is called joins a
  function, the three sorts of wrong symbols above.

A fourth disagreement has no run: *two loads do deadlock*, though `deleteFile` says
that "no cycle can form" (`store.go:204`). Its ordered lock passes over a row that a
batch derived again while it waited, and the delete after it waits for the new one.
`withRetry` runs the victim again, so this costs a retry. To see the trace, add
`INVARIANT LoadsNeverInCycle` to `Lock.cfg`.

Derived edges are not all cross-file, though `query.sql`'s banner (306) may be
read so: a member-level `implements` row pairs methods by suffix once their types
are in different files (487), and a method declared next to the interface gives a
row inside that file. The model has it as the code does.

## Proofs

`IndexProofs` proves, for any finite set of files and runs, any targets, any
number of crashes, signals, edits and faults:

- `TypeCorrect`: `Spec => []TypeOK`
- `NoFileIsLost`: `Spec => []NoFileLost`
- `BatchesAreWhole`: `Spec => WholeBatches`, which the refinement below implies
- `PoisonIsNeverLoaded`: `Spec => []NoPoisonLoaded`

The assumptions are the named `ASSUME`s of `IndexWorkflow`: files and runs are
numbered (in path order, in the order they are minted), finite, and poison is
not absent.

- `ArtifactsOutliveTasks`: `Spec => []ArtifactOutlivesTask`
- `LoadsAsFrozen`: `Spec => []LoadedAsFrozen`
- `SecondReduceChangesNothing`: `Spec => SecondReduceIsNoOp`
- `IndexImplementsAtomicBatches`: `Spec => PublishesWholeBatches`, the specification
  of `AtomicBatches`

`NoFileLost` speaks of a run's checkpoints and its tasks' rows when it ends; it
is not inductive. `Inductive` adds what holds on the way there: a busy worker
has a `PENDING` task (`Held`); the i-th task is for the i-th path of the frozen
walk (`Numbered`); a recorded verdict was earned (`Judged`); a run past its walk
uses the checkpointed one (`Frozen`); the paths before the gather position have
verdicts, and a reducing run has them all (`Gathered`); a checkpointed reduce
committed (`Reduced`). Three *frame* lemmas say what any step may do to a task,
to a run's ledger and to its status; each conjunct is then preserved by the
frames and the few actions that matter to it. `TypeNext` has one fact per
action. `NoPoisonLoaded` follows from `Clean`: workers publish, artifacts hold
and batches stage only what was there and parsed.

`ArtifactsOutliveTasks`, `LoadsAsFrozen` and `SecondReduceChangesNothing` are about a run that is alone on its tree, and rest on
`Lineage`, which traces a batch's rows back to the run's two frozen steps. Part
of it holds of every run: a goroutine that executes has a `PENDING` run
(`Executing`), works with the checkpointed coordinate (`Sited`), and its tasks
carry it (`Stamped`); versions only grow, so what a worker read is no older than
the walk (`Since`); who committed had every verdict (`Concluded`), and a row's
run did commit (`Recorded`). The rest holds while no two runs of a tree have
been live at once: no other run owns the tree (`Alone`), so an artifact that a
key names is there until the commit and carries the run's coordinate (`Kept`), a
batch stages what the artifacts hold (`Staged`), and an artifact that outlived
the commit -- the crash was between commit and deletes -- still says what the
graph says (`Republished`). The last is why a second reduce changes nothing, and
is the conjunct that depends on map tasks being settled before the reduce.

`SecondReduceIsNoOp` says that a replayed reduce changes no row *that is still
the run's*. That the graph as a whole stays is false when two targets share a
path: a file row is found by its path alone (`FileIDByPath`), so another tree's load takes
over the row, and the replay takes it back. (`index_crash` has one target, where
the two statements agree.)

The refinement is what the rest adds up to. A run's files are what its walk's
checkpoint lists, what it has loaded are the keys of its settled tasks. The first
walk freezes the files (a replay reads the checkpoint); `Commit` publishes; a
return that is not a cancellation ends the run; and every other step of the
process, a worker, DBOS or the environment stutters. The frames give most of it:
a step leaves a walked run's files alone (`AboutFrame`) and what a run has loaded,
since who committed had every verdict and a task keeps its own (`LoadedFrame`,
from `Concluded`); an ended run is not revived (`OutcomeFrame`), which is why
a cancellation must look at the status first. That what is published was usable is `Clean`; that a run which succeeds has published
is `Reduced`. `AtomicBatches` promises nothing about a failed run but that
it publishes no more: the finding about failed runs, below the table of the runs,
is the reason.

`RelinkProofs` proves, for any files, symbols, texts and number of loads:

- `RelinkTypeCorrect`: `Spec => []TypeOK`
- `IncrementalEqualsFull`: `Spec => []EqualsRebuild`
- `NoRowDangles`: `Spec => []NoDanglingRow`
- `OwnersOnly`: `Spec => OnlyOwnersChange`
- `RelinkImplementsLinkedGraph`: `Spec => ReadersSeeLinkedGraphs`

Assumed: symbols have a place, a kind, a role and a descriptor
(`SymbolAssumption`), texts are sequences of them in order of place
(`TextsAssumption`), and the bounds are numbers (`PlacesAssumption`,
`LoadsAssumption`).

`EqualsRebuild` speaks of committed graphs; the argument is about the open
batch. A row of a scoped table comes from one pair of a reference and a
definition (`OneByOne`) and depends on their two files only (`Local`). So a load
of `f` changes the pairs `f` takes part in. As a reference's file, `f` is in its
own neighbourhood; as a definition's, the reference's file is in the
neighbourhood taken before the load, or in the one taken after
(`Neighbourhood`). Outside of both nothing changes (`Unaffected`). `IInv`
therefore says that, while a batch is open, the rows owned by files outside
`owners` are those a rebuild would derive now, and those that were committed
before (`Synced`); that no row dangles (`Anchors`, which is what makes `Without`
complete); and that files without a row hold nothing (`Unloaded`) and loads are
only ever added (`Grown`, for the refinement). `RelinkBatch` derives the rest.

Of the artifact store `StoreProofs` proves, for any keys, processes and number of
writes:

- `ArtifactInvariant`: `ArtifactSpec => []ArtifactInv`
- `StoreImplementsAtomicStore`: `ArtifactSpec => ReadsWholeArtifacts`, the
  specification of `AtomicStore` with a key read as the content of the file it names

from `WritesAssumption` (the bound is a number; no temporary name is a key).
`ArtifactInv` says what makes a rename safe: whatever a key names, in the kernel or on the disk,
or a `Read` has opened is whole and synced (`Published`), and a file is whole
before it is synced and synced before it is renamed (`Staged`). Without the sync
the mapping fails at the reboot, which is the mutant of the run.

`LinkLocksProofs` proves, for any files, derived rows, loads, batches, rebuilds
and number of attempts:

- `LocksTypeCorrect`: `Spec => []TypeOK`
- `RebuildsAreAlone`: `Spec => []RebuildAlone`
- `RebuildsNeverDeadlock`: `Spec => []RebuildNeverInCycle`
- `LoadsDeadlockOnlyOverNewRows`: `Spec => []LoadsCycleOverNewRows`

Assumed: `Rows` lists the derived rows by table in the order of the code's lists
(`RowsAssumption`), a transaction is of one kind and a loader has a file
(`TxnsAssumption`), at least one attempt (`AttemptsAssumption`). What the
statements ask for is computed (`InOrder`, `FlattenSeq`), so the lemmas first say
what every program looks like (`Shapes`): its first statement takes the link lock,
exclusive for a rebuild and shared for the others, and no later one takes it
otherwise (`Programs`, `RequestsAre`). From there `RebuildAlone` is inductive. Who waits for the
link lock holds nothing (`LinkWaiterHoldsNothing`) and a rebuild that has it waits for
nobody, since nobody else holds anything: a cycle of waits through a rebuild would
be one of waiters in the queue, who are in order.

For loads the order of the locks is kept as far as it goes. `LoadsInv` says of a load
that a statement of it that locks asks for rows upwards, above all rows it holds
(`LoadUpward`), that past the ordered lock of a table it has every row of its file
there that was never derived again (`LoadLocked`), and that
no row is a load's (`NoLoadRows`); `Compat` says that held
locks do not conflict. So a load waits for another of its own file over the path, or in
an ordered lock for a row above all it holds, or it is `Overtaken`:
it wants, past its lock, a tuple that a batch or a rebuild inserted
(`LoadWaitsFor`). Of two in a row that wait the second's is the higher row
(`LoadWaitsUpward`), and in a cycle without such a one the highest
would have a higher one after it (`CyclesOverNewRows`).

`StoreProofs` proves, for any texts of the files, any loaders side by side with
rebuilds, and any number of loads:

- `StoreTypeCorrect`: `Spec => []TypeOK`
- `OneFilePerPath`: `Spec => []OneRowPerPath`
- `RowsAreOneLoad`: `Spec => []FileRowsAreOneLoad`
- `NoForeignKeyRefuses`: `Spec => []NoLoadRefused`
- `CommitsDisturbNoOther`: `Spec => OthersUntouched`

from `StartsAssumption` (the tables a run starts from are those of some valid
loads of different paths) and `BoundsAssumption` (the bound on loads is a
number). `Inv` says how committed and open state are
related: the committed tables are exactly the rows of the history's loads, one
per path (`Committed`, `Distinct`); a load in flight has a number that is in no
id yet (`Fresh`); two loads past `LockFilePath` have different paths
(`PathsHeld`), which is what keeps a file's owner until the commit, READ
COMMITTED or not; and what a transaction has deleted and copied is a function of
its stage and step (`Sound`, `Progress`). For the foreign keys the argument needs
that the 23 deletes take both sides of every edge table before the vertices
(`EveryEdge`), that rows of a load refer to its own vertices only
(`FlattenVertices` and its like), and that the codec gives back what `flatten`
accepted (`RoundTrip`, for every facts that `encode` takes). A rebuild may write
any derived row between committed occurrences; it is excluded by the link lock
while a load deletes, which is the mutant of `NoLoadRefused`.

`BatchRaceProofs` proves, for any files, texts, plans and number of batches:

- `TypeCorrect`: `Spec => []TypeOK`
- `LoneBatchesAreNotRefused`: `Spec => RefusedBesideAnother`
- `DriftOnlyBetweenOverlapped`: `Spec => []DriftBetweenOverlapped`

from `PlansAssumption` (a plan is a sequence of loads of different files). `Shape`
gives each open batch its place in its plan. `Sound` is what the constraints and
row locks keep between transactions that see each other's half: what is committed
has its ends (`Committed`); a batch replaces only files of its plan, and inserts
table by table (`Mine`); a row it inserted has its ends in its own view, and a
committed row that loses an end to it is deleted by it (`Anchored`); and of two
open batches neither deletes what the other deletes, nor an end of what the other
inserted (`Apart`) -- which is what `WaitsFor` is for, and why the commit of one
leaves the other anchored. `Lone` adds what a batch may rely on while nobody has
committed beside it: no row names an occurrence it is about to replace, the rows it owns are
gone when it derives, and what it inserts is what it would derive still.

The third theorem rests on `AllExact`, which was checked on the instance of the run
before it was proved. Whether a row is derived depends on the occurrences of the files
it rests on only: the join compares the two ends, and containment compares two method sets,
all of whose members are in files of `RestsOn` (`Local`, from `SatisfiesLocal` and
`OverridesLocal`; that every text there is was planned is `AllPlanned`, from which
`Rests` has that what a view holds of a symbol is in those files). Of a row the property does
not excuse, what is committed is what a rebuild derives (`Exact`), and each open
batch is on its way to keep that. One that loads a file the row rests on, and has not seen
another such commit, has the row's owner among its owners as soon as the
neighbourhood was asked for -- `Touch` before the load for the row that is there,
after it for the row that will be, and `implements` has no owner --, has cleared the
row before it derives, and
once its table is re-linked has it exactly if its view derives it (`Rights`). One
that loads none of them puts back what it deletes; what it derives beyond that,
somebody else has changed since, as it sees what is committed (`SeesOthers`), and if it inserts that, two have (`Restores`),
which an occurrence's foreign key rules out for `resolves_to` and nothing does for the
others. That is `Outrun`, without which the property is true of two batches and false
of three.

`CoordsProofs` proves, for any trees, depth of `Start`, layouts, source
directories and import paths, and documents of any length:

- `CoordsTypeCorrect`: `Spec => []TypeOK`
- `NearestDecide`: `Spec => []NearestManifestsDecide`
- `DescriptorsAreSeparate`: `Spec => []DescriptorsSeparate`
- `ImportsJoinTheirPackage`: `Spec => []ImportJoinsItsPackage`
- `IdentitiesAreStated`: `Spec => []IdentityIsStated`

Assumed: directories are paths, those of a layout are the tree's and the ones
above it, and hold registered manifests (`StartAssumption`, `LayoutsAssumption`);
source directories are below the tree's (`DirsAssumption`); an import path is not
empty (`PathsAssumption`); and documents are such as their formats have
(`DocumentsAssumption`, above). `IInv` says that no directory below
the one `Resolve` looks at holds a manifest (`Searched`), that where it stopped one
does, and malformed or not (`Decided`), and that a set is that directory's, spread
over the extensions (`Spread`). From the registry the proofs need that no two
ecosystems share a scheme or an extension (`RegistryApart`); from paths, that one
continues a name exactly when it is the name and the rest of it (`Continues`).

The scanners are folds over a manifest's lines. What each computes is proved line
by line against the format's definition: for TOML, the scanner's delimiter is the
quote the line starts inside of, its flag says whether the last header was the
table's, and its values are the latest stated ones (`QuoteLine`, `ScanLineIs`,
`TomlIsRead`); for `Gemfile.lock`, its state says what the block it is in has shown
so far (`LockPlace`, `LockIsRead`). `OpensMultiline` counts quotes on the whole
line while the definition takes them one by one, which is where the assumption on
quotes is needed.

`ExtractProofs` proves, for any programs, in all seven languages:

- `ScopesNestAlways`: `Spec => []ScopesNest`

from `ProgramsAssumption`: a file's tree is a sequence of nodes whose spans nest,
of any two one ends before the other starts or one is inside the other. That is
what a parse tree is; the trees of the instance are such, and TLC evaluates it on
them. `ScopesNest` speaks of scopes with some text (`s.from < s.to`): a scope without
any, where another ends, is closed after that one in `collectScopes` and has no
parent in it.

`IInv` says that a builder has the tree of its file until its parse is done, and
nested scopes from the first pass on. There are two parts to it. `collectScopes` sorts the
captured spans by where they start, the longer first, and takes as parent the last
scope that is still open. That the sorting is one, with each span at the one place
given by how many are before it, is a count (`SpansInOrder`,
`SpanOrderAscends`); of spans that nest, the last one open is inside every
other that is around (`ParentIsAround`). Rust's pass marks inline modules in the tree first and
puts the tree back (`RsOpens`). The other part is that imports, definitions and references leave scopes and tree
alone, however they go about occurrences, edges, bindings and claims. Each pass is
a fold over what a query captured, in the order of the text, of a step of its own, and
the library's facts on folds take the step as a parameter. So every step of the
seven languages has a name (`Taken`), `Layers` is the fold of a named step, which
exists (`FoldExists`), is what `FoldLeft` computes (`LayersAre`), and keeps what its
step keeps (`LayersKeep`). Per language it remains that the captures are finitely many
(`GoFound` and its like), that each step keeps scopes and tree (`GoSteps`), and that
the passes do (`GoPasses`).

`DataInduction` is what `LinkLocksProofs`, `CoordsProofs` and `ExtractProofs` share. The library's induction
theorems have an operator parameter; a set of numbers has a least one
(`LeastOf`, from `WFMin`), and from it follow induction over a *set* of numbers
(`UpTo`) and that a function defined by recursion up to n exists (`Recursion`).
`FoldLeft` takes its value on the indices up to i from those up to i - 1
(`Folding`, `FoldTakes`). That is enough for `InOrder`, `FlattenSeq` and the
manifests' scanners.

Only model-checked:

- The extractors' invariants other than `ScopesNest`: `TypeOK`,
  `OneOccurrencePerName`, `NoFalseJoin`, `Joins` and `ResolvedInFile`. The first two
  are about every occurrence each step of each language adds, and a stanza's
  descriptors come out of recursions over the syntax tree; what these compute for
  every tree is induction over data, out of the prover's reach. The other three compare
  a file's descriptors with what its names *mean*, which only the instance's
  programs state (`tag`, `known`): for all programs there would be nothing to prove
  them from.
- Liveness: `EveryRunEnds`, `EveryRunLoads`, `RebuildsEnd`, `LoadersEnd`.

## Plan

1. `LoaderRun` (`index.Run`'s errgroup and counters) and `Schedule` (the
   checkpoint of the scheduled rebuild).
2. The stanzas of Kotlin, PHP, Swift and C and C++: the same skeleton
   (`Stanza`), each with its own captures, imports and descriptors.
3. `walk` pruning and artifact keys against a reference definition.

## Not modelled, and why

- The generated query layer and protobuf code, the schema generator, the
  deployment files: no behaviour of their own. The SQL of the queries *is*
  modelled, in `LinkGraph`, `Store` and `LinkLocks`.
- The text of manifests and sources below the level of a line or a node: parsing
  is gotreesitter's and the standard library's.
- The stanzas of Kotlin, PHP, Swift and C and C++: nothing about them is out of
  reach; they are the plan's item 2.
- `index.Run`'s errgroup and counters, the schedule's cron expression and its
  registration; flags, environment variables, logging and the report's layout.
