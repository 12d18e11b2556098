---------------------------- MODULE MCSpeechInput ----------------------------
(* SpeechInput for TLC: three chunks over two streams, so that a seek finds *)
(* a request in flight and another chunk buffered; a buffer and a batch of  *)
(* two; two failures end a stream; the worker dies once; its table of       *)
(* cancelled streams holds one. The worker's queues and the promises are    *)
(* few.                                                                     *)
EXTENDS SpeechInput

Explored ==
  Len(stdin) + Len(requests) <= 2 /\ Len(stdout) <= 2 /\ Cardinality(awaiting) <= 2
=============================================================================
