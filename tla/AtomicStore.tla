---------------------------- MODULE AtomicStore ----------------------------
(***************************************************************************)
(* What a run relies on of the artifact store: a key holds a whole         *)
(* artifact or none at every moment, in the kernel's view of the volume    *)
(* and in what a host that goes down finds again. Which of the two it then *)
(* finds is not promised: the store does not sync its directories.         *)
(***************************************************************************)
CONSTANTS Keys, Clients, Artifacts, None

VARIABLES
  store,   \* what a key names
  disk,    \* what it names when the host comes up again
  answer   \* what a client's last Read returned

vars == <<store, disk, answer>>

Init ==
  /\ store  = [k \in Keys |-> None]
  /\ disk   = [k \in Keys |-> None]
  /\ answer = [p \in Clients |-> None]

Write(k) ==
  /\ \E a \in Artifacts : store' = [store EXCEPT ![k] = a]
  /\ UNCHANGED <<disk, answer>>

Delete(k) ==
  /\ store' = [store EXCEPT ![k] = None]
  /\ UNCHANGED <<disk, answer>>

Read(p, k) ==
  /\ answer' = [answer EXCEPT ![p] = store[k]]
  /\ UNCHANGED <<store, disk>>

WriteBack(k) ==
  /\ disk' = [disk EXCEPT ![k] = store[k]]
  /\ UNCHANGED <<store, answer>>

Reboot ==
  \E kept \in SUBSET Keys :
    /\ store' = [k \in Keys |-> IF k \in kept THEN store[k] ELSE disk[k]]
    /\ disk' = store'
    /\ answer' = [p \in Clients |-> None]

Next ==
  \/ Reboot
  \/ \E k \in Keys : Write(k) \/ Delete(k) \/ WriteBack(k) \/ \E p \in Clients : Read(p, k)

Spec == Init /\ [][Next]_vars
=============================================================================
