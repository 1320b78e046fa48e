------------------------------ MODULE UndoLog ------------------------------
(***************************************************************************)
(* What the hardware helper promises, whatever happens to it: a change to  *)
(* the machine is written down before it is made, and the note is thrown   *)
(* away only when the change is undone.  Aspects are the things a mask     *)
(* changes: who may open the nodes, the USB port, the driver, the input    *)
(* mode of a Steam Deck.                                                   *)
(***************************************************************************)
CONSTANT Aspects

VARIABLES recorded, \* the aspects for which an undo record exists
          changed   \* the aspects that differ from what the desktop set up

vars == <<recorded, changed>>

TypeOK == recorded \subseteq Aspects /\ changed \subseteq Aspects

Init == recorded = {} /\ changed = {}

Note(S) == recorded' = recorded \cup S /\ UNCHANGED changed

Modify(S) == S \subseteq recorded /\ changed' = changed \cup S /\ UNCHANGED recorded

Undo(S) == changed' = changed \ S /\ UNCHANGED recorded

Forget(S) == S \cap changed = {} /\ recorded' = recorded \ S /\ UNCHANGED changed

Next == \E S \in SUBSET Aspects : Note(S) \/ Modify(S) \/ Undo(S) \/ Forget(S)

Spec == Init /\ [][Next]_vars

\* The point of an undo log: whoever reads the records knows all there is to undo.
NothingUnrecorded == changed \subseteq recorded
=============================================================================
