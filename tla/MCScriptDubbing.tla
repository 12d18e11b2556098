--------------------------- MODULE MCScriptDubbing ---------------------------
(* ScriptDubbing for TLC: two sentences of two ticks, so that a voice may   *)
(* be longer than its sentence and push the next; one of them fits the      *)
(* queue; of two seeks, so that the answer of before the first may come     *)
(* after the second, a pause and a change of mode, any two. The socket is   *)
(* short. Captions of words come in two chunks.                             *)
EXTENDS ScriptDubbing

Explored ==
  /\ Len(toServer) <= 3 /\ Len(toPage) <= 1
  /\ awaited # Segments /\ seeks + pauses + modeChanges <= 2
=============================================================================
