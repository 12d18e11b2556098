----------------------------- MODULE MCGateway -----------------------------
(* Gateway for TLC: a limit of one session, for which two session ids and   *)
(* three sockets compete; two workers, one of which may die while the other *)
(* starts; two changes of the model file, so that a stamp can be stale      *)
(* twice.                                                                   *)
EXTENDS Gateway, TLC
CONSTANTS c1, c2, c3, s1, s2, w1, w2

(* Two sockets for one session id, and one for another.                     *)
MCSessionOf == c1 :> s1 @@ c2 :> s1 @@ c3 :> s2
=============================================================================
