----------------------------- MODULE MCTtsStage -----------------------------
(* TtsStage for TLC: two job slots and one place in the queue, so that four *)
(* segments fill both, make the queue overflow and leave a chain of three   *)
(* promises; one seek; two parts per voice, so that a voice can be cut      *)
(* between them.                                                            *)
EXTENDS TtsStage
=============================================================================
