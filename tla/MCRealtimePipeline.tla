------------------------- MODULE MCRealtimePipeline -------------------------
(* RealtimePipeline for TLC: two finals, which may be joined, held, flushed *)
(* or published apart, one job slot and one queued voice of two parts, one  *)
(* seek and a stop, which may fall while a translation and a synthesis are  *)
(* both running.                                                            *)
EXTENDS RealtimePipeline
=============================================================================
