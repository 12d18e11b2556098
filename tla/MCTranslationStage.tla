------------------------- MODULE MCTranslationStage -------------------------
(* TranslationStage for TLC: a queue of two and five finals, so that it     *)
(* overflows behind an awaited item; four identifiers, so that one is       *)
(* repeated; one seek, with finals before and after it, and a stop.         *)
EXTENDS TranslationStage
=============================================================================
