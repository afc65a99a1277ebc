--------------------------- MODULE ArtifactStore ---------------------------
(***************************************************************************)
(* artifact.Store on a POSIX file system: Write's temporary file, its sync *)
(* and its rename, Read and Delete, called at any time by the tasks and    *)
(* reduces of the processes that share the volume, any of which may die,   *)
(* as may the host.                                                        *)
(*                                                                         *)
(* A file is named after the call that makes it, and so is its temporary   *)
(* name, which CreateTemp never gives twice. Its content is how much of    *)
(* the artifact it holds.                                                  *)
(***************************************************************************)
EXTENDS Naturals, Functions

CONSTANTS
  Keys,
  Clients,    \* who calls: one call at a time each
  MaxWrites   \* bound: calls of Write

ASSUME WritesAssumption == MaxWrites \in Nat /\ Keys \cap (Nat \X {"tmp"}) = {}

VARIABLES
  names,   \* the directories as the kernel has them: a function to files
  disk,    \* and as the disk has them
  content, \* what is in the files, cached and synced
  call,    \* the Write a client is in
  opened   \* the file a client's last Read opened

artifactVars == <<names, disk, content, call, opened>>

Writes      == 1 .. MaxWrites
NoFile      == 0
Torn        == MaxWrites + 1   \* no artifact: what a file that is not whole reads as
Temp(n)     == <<n, "tmp">>
Contents    == {"part", "whole"}
Idle        == [stage |-> "idle"]
Unlinked(x) == Restrict(names, DOMAIN names \ {x})
Linked(x, n) == [y \in DOMAIN names \cup {x} |-> IF y = x THEN n ELSE names[y]]
In(p, stage) == call[p].stage = stage

ArtifactInit ==
  /\ names = [x \in {} |-> NoFile]
  /\ disk = names
  /\ content = [n \in {} |-> [cached |-> "part", synced |-> FALSE]]
  /\ call = [p \in Clients |-> Idle]
  /\ opened = [p \in Clients |-> NoFile]

\* The temporary file is made next to where it is to be.
CreateTemp(p, k) ==
  /\ In(p, "idle")
  /\ \E n \in Writes \ DOMAIN content :
       /\ \A m \in Writes \ DOMAIN content : n <= m
       /\ names' = Linked(Temp(n), n)
       /\ content' = [m \in DOMAIN content \cup {n} |->
                        IF m = n THEN [cached |-> "part", synced |-> FALSE] ELSE content[m]]
       /\ call' = [call EXCEPT ![p] = [stage |-> "write", key |-> k, file |-> n]]
  /\ UNCHANGED <<disk, opened>>

WriteBlob(p) ==
  /\ In(p, "write")
  /\ content' = [content EXCEPT ![call[p].file].cached = "whole"]
  /\ call' = [call EXCEPT ![p].stage = "sync"]
  /\ UNCHANGED <<names, disk, opened>>

(* Mutant: the file is published out of the page cache. *)
Sync_Skipped(p) ==
  /\ In(p, "sync")
  /\ call' = [call EXCEPT ![p].stage = "rename"]
  /\ UNCHANGED <<names, disk, content, opened>>

Sync(p) ==
  /\ In(p, "sync")
  /\ content' = [content EXCEPT ![call[p].file].synced = TRUE]
  /\ call' = [call EXCEPT ![p].stage = "rename"]
  /\ UNCHANGED <<names, disk, opened>>

\* One step: whoever looks the key up finds the one file or the other.
Rename(p) ==
  LET n == call[p].file IN
  /\ In(p, "rename")
  /\ names' = [x \in (DOMAIN names \cup {call[p].key}) \ {Temp(n)} |->
                 IF x = call[p].key THEN n ELSE names[x]]
  /\ call' = [call EXCEPT ![p] = Idle]
  /\ UNCHANGED <<disk, content, opened>>

\* The write, the sync, the close or the rename fails: the deferred Remove.
WriteFails(p) ==
  /\ ~In(p, "idle")
  /\ names' = Unlinked(Temp(call[p].file))
  /\ call' = [call EXCEPT ![p] = Idle]
  /\ UNCHANGED <<disk, content, opened>>

\* What is opened stays what it was, whatever its name is given to.
Read(p, k) ==
  /\ In(p, "idle")
  /\ opened' = [opened EXCEPT ![p] = IF k \in DOMAIN names THEN names[k] ELSE NoFile]
  /\ UNCHANGED <<names, disk, content, call>>

\* One key of a Delete's; none there is no error.
DeleteKey(p, k) ==
  /\ In(p, "idle")
  /\ names' = Unlinked(k)
  /\ UNCHANGED <<disk, content, call, opened>>

\* The process dies in its call and leaves the temporary file behind.
Die(p) ==
  /\ ~In(p, "idle")
  /\ call' = [call EXCEPT ![p] = Idle]
  /\ UNCHANGED <<names, disk, content, opened>>

\* The kernel writes a directory entry out, at a time of its choosing.
WriteBack(x) ==
  /\ disk' = IF x \in DOMAIN names
               THEN [y \in DOMAIN disk \cup {x} |-> IF y = x THEN names[x] ELSE disk[y]]
               ELSE Restrict(disk, DOMAIN disk \ {x})
  /\ UNCHANGED <<names, content, call, opened>>

\* The host goes down: an entry, or a file's content, that was not written out
\* may have reached the disk or not.
Reboot ==
  /\ \E kept \in SUBSET (DOMAIN names \cup DOMAIN disk) :
       names' = [x \in (kept \cap DOMAIN names) \cup (DOMAIN disk \ kept) |->
                   IF x \in kept THEN names[x] ELSE disk[x]]
  /\ disk' = names'
  /\ \E lost \in SUBSET { n \in DOMAIN content : ~content[n].synced } :
       content' = [n \in DOMAIN content |-> IF n \in lost THEN [cached |-> "part", synced |-> TRUE]
                                      ELSE [content[n] EXCEPT !.synced = TRUE]]
  /\ call' = [p \in Clients |-> Idle]
  /\ opened' = [p \in Clients |-> NoFile]

ArtifactNext ==
  \/ Reboot
  \/ \E x \in DOMAIN names \cup DOMAIN disk : WriteBack(x)
  \/ \E p \in Clients :
       \/ WriteBlob(p) \/ Sync(p) \/ Rename(p) \/ WriteFails(p) \/ Die(p)
       \/ \E k \in Keys : CreateTemp(p, k) \/ Read(p, k) \/ DeleteKey(p, k)

ArtifactSpec == ArtifactInit /\ [][ArtifactNext]_artifactVars
-----------------------------------------------------------------------------
(* What a key names through the kernel, or through the disk after a crash. *)
Cached  == { n \in DOMAIN content : content[n].cached = "whole" }
Durable == { n \in Cached : content[n].synced }

HeldAs(entries, k, readable) ==
  IF k \notin DOMAIN entries THEN NoFile ELSE IF entries[k] \in readable THEN entries[k] ELSE Torn

Atomic == INSTANCE AtomicStore WITH
  Artifacts <- Writes, None <- NoFile,
  store  <- [k \in Keys |-> HeldAs(names, k, Cached)],
  disk   <- [k \in Keys |-> HeldAs(disk, k, Durable)],
  answer <- [p \in Clients |-> IF opened[p] \in {NoFile} \cup Cached THEN opened[p] ELSE Torn]

(* "It must never observe a partial one" (artifact.go), nor "a file full of  *)
(* zeroes after a host crash": whoever writes, dies or is cut off, a key     *)
(* holds one whole artifact or none, and a Read returns what it held.        *)
ReadsWholeArtifacts == Atomic!Spec
=============================================================================
