--------------------------- MODULE MCVoicePlayback ---------------------------
(* VoicePlayback for TLC: three sentences, whole or in two parts, over a    *)
(* screen with one queued cue and a receiver with one open segment, so that *)
(* both overflow; one pause or seek; a fallback longer than a voice, so     *)
(* that either may be first.                                                *)
EXTENDS VoicePlayback
=============================================================================
