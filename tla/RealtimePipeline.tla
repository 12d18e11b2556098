-------------------------- MODULE RealtimePipeline --------------------------
(***************************************************************************)
(* One session of the backend's RealtimePipeline: the text half             *)
(* (TranslationStage) feeds the voice half (TtsStage).  Both read the same  *)
(* generation, stream token and isActive flag; a seek or a stop acts on     *)
(* both at once, and publishTranslation is the step they share.             *)
(***************************************************************************)
EXTENDS Integers, Sequences

CONSTANTS Keys, MaxPendingFinals, MaxFinals, MaxGeneration,  \* see TranslationStage
          MaxPendingTts, Concurrency, MaxParts               \* see TtsStage

ASSUME PipelineAssumption ==
  /\ {MaxFinals, MaxGeneration, MaxPendingTts} \subseteq Nat
  /\ {MaxPendingFinals, Concurrency, MaxParts} \subseteq Nat \ {0}

VARIABLES
  isActive, generation, sttStreamToken,
  finalQueue, processedFinalKeys, pendingFlushTimer, segmentCounter, drain,
  pendingBuffer, pendingTiny, arrivals, heard, publishedIn,
  mode, streaming, ttsQueue, activeTtsJobs, ttsEmitChain, stage, jobGeneration, jobToken,
  subtitlePending, previous, released, heldParts,
  subtitles, chunks, partFinals, lastVoice

Text == INSTANCE TranslationStage

(* Every final gets a segment number, and so does every flush that finds a  *)
(* fragment; a final is flushed at most once.                               *)
Voice == INSTANCE TtsStage WITH MaxSegments <- 2 * MaxFinals

clock == <<isActive, generation, sttStreamToken>>
textVars == <<finalQueue, processedFinalKeys, pendingFlushTimer, segmentCounter, drain,
              pendingBuffer, pendingTiny, arrivals, heard, publishedIn>>
voiceVars == <<mode, streaming, ttsQueue, activeTtsJobs, ttsEmitChain, stage,
               jobGeneration, jobToken, subtitlePending, previous, released, heldParts,
               subtitles, chunks, partFinals, lastVoice>>
vars == <<clock, textVars, voiceVars>>

Init == Text!Init /\ Voice!Init

(* A translation reaches the voice half with the generation and the token   *)
(* its final was taken with.                                                *)
PublishTranslation(s) ==
  /\ \E d \in drain : Voice!PublishTranslation(s, d.generation, d.token)
  /\ Text!TranslationPublished(s)

OnFinal == \E k \in Keys, t \in 1..sttStreamToken : Text!OnFinal(k, t) /\ UNCHANGED voiceVars
FlushTimerFires == Text!FlushTimerFires /\ UNCHANGED voiceVars

DrainStep ==
  \/ \E s \in Voice!Segments : PublishTranslation(s)
  \/ (Text!TranslationHeld \/ Text!TranslationDropped) /\ UNCHANGED voiceVars

VoiceStep ==
  /\ \/ \E s \in Voice!Segments : Voice!JobStep(s)
     \/ \E m \in Voice!Modes : Voice!SetMode(m)
  /\ UNCHANGED textVars

(* Faulty: only one half is told of a seek.                                 *)
SeekVoiceOnly == Voice!HandleSeek /\ UNCHANGED textVars

HandleSeek == Text!HandleSeek /\ Voice!HandleSeek
Stop == Text!Stop /\ Voice!Stop

Next ==
  \/ OnFinal
  \/ FlushTimerFires
  \/ DrainStep
  \/ VoiceStep
  \/ HandleSeek
  \/ Stop

Spec == Init /\ [][Next]_vars

(* Providers answer or time out, an armed timer fires and resolved promises *)
(* run; nobody need speak, seek or stop.                                    *)
Fairness ==
  /\ WF_vars(DrainStep) /\ WF_vars(FlushTimerFires)
  /\ \A s \in Voice!Segments : WF_vars(Voice!JobContinues(s) /\ UNCHANGED textVars)

FairSpec == Spec /\ Fairness
-----------------------------------------------------------------------------
(* The voice half has a place for what the text half is translating: its    *)
(* segment is new, and so is every later one.                               *)
SegmentsAreNew ==
  \A d \in drain : d.phase = "translating" =>
    /\ d.segment \in Voice!Segments
    /\ \A s \in Voice!Segments : s >= d.segment => stage[s] = "unborn"

(* Each half behaves as its own module says, with the other half for its    *)
(* environment, and the voice half never holds a publication up: what is    *)
(* checked and proved of a half holds of the whole.                         *)
BothHalves == Text!Spec /\ Voice!Spec /\ []SegmentsAreNew

(* Nothing is queued, held, awaited or running in either half.              *)
Settled ==
  /\ finalQueue = <<>> /\ drain = {} /\ ~Text!HasFlushablePending
  /\ \A s \in Voice!Segments : stage[s] \in {"unborn", "skipped", "done"}

(* No sentence is stuck: all that was heard is in the end published or      *)
(* given up, and every job that was started or queued for it settles, so    *)
(* that neither the loop, the timer, the slots nor the chain waits for ever.*)
SpeechSettles == []<>Settled

(* Nothing is said or shown of speech heard before the last seek: every     *)
(* message sent for a sentence is made of finals of the stream open now.    *)
SentSpeechIsCurrent ==
  [][\A s \in Voice!Segments : Voice!Sent(s)' # Voice!Sent(s) =>
       \A n \in Text!Finals : publishedIn'[n] = s => heard[n] = sttStreamToken]_vars
=============================================================================
