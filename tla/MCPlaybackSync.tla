--------------------------- MODULE MCPlaybackSync ---------------------------
(* PlaybackSync for TLC.                                                    *)
(*                                                                          *)
(* The passing run has two sessions, two sentences and two seeks in each    *)
(* session, with a pause before the first of them: messages, decoders, held *)
(* cues and the clean-up of the first session can meet the second.  The     *)
(* violation run has the smallest bounds in which the case happens.         *)
EXTENDS PlaybackSync
=============================================================================
