-------------------------- MODULE MCSessionManager --------------------------
(* SessionManager for TLC: two tabs and three sessions, one that is being   *)
(* stopped, one that starts and one that replaces both.                     *)
(*                                                                          *)
(* The tabs are interchangeable, but symmetry is not sound for liveness:    *)
(* instead the first session is in a given tab.  What is left out is a copy *)
(* of what is explored, with the tabs swapped.  One stop may fail, no more  *)
(* than two messages of a session wait at a time, and none of the first     *)
(* when the third has begun.                                                *)
EXTENDS SessionManager, FiniteSets

Explored ==
  /\ tab[1] \in {NoTab, CHOOSE t \in Tabs : TRUE}
  /\ Cardinality({r \in Records : cleanup[r] = "failed"}) <= 1
  /\ \A r \in Records : Len(inbox[r]) <= 2 /\ (r + 2 <= sessionSequence => inbox[r] = <<>>)
=============================================================================
