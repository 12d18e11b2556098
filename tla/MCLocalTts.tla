----------------------------- MODULE MCLocalTts -----------------------------
(* LocalTts for TLC: three syntheses for two slots, of which the worker     *)
(* takes one, so that one is refused and one waits; one seek; two workers,  *)
(* of which the second can meet what the first left behind.                 *)
EXTENDS LocalTts

Calls == 1..3
Cancels == {4}
AllRequests == 1..4
CancelOf == [g \in {1} |-> 4]
=============================================================================
