----------------------------- MODULE LinkedGraph -----------------------------
(***************************************************************************)
(* What readers of the graph are promised: the files of a batch change     *)
(* together, a file that is not reloaded keeps its occurrences, no file is *)
(* forgotten, and the derived edges are always those a full rebuild would  *)
(* derive from the occurrences next to them.                               *)
(***************************************************************************)
EXTENDS LinkGraph

CONSTANT Blank   \* the graph before anything is loaded
VARIABLE shown

Init == shown = Blank

Publish ==
  /\ shown'.files \subseteq Files /\ shown.files \subseteq shown'.files
  /\ \A f \in Files : shown'.text[f] \in Text
  /\ \A f \in Files : \/ shown'.gen[f] > shown.gen[f] /\ f \in shown'.files
                      \/ /\ shown'.gen[f] = shown.gen[f]
                         /\ shown'.text[f] = shown.text[f]
  /\ shown'.rows = Rebuilt(shown')

Spec == Init /\ [][Publish]_shown
=============================================================================
