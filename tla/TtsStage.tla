------------------------------ MODULE TtsStage ------------------------------
(***************************************************************************)
(* The voice half of the backend's RealtimePipeline: from a translated      *)
(* sentence (publishTranslation) to the SUBTITLE_EVENT and TTS_CHUNK        *)
(* messages sent to the extension.                                          *)
(*                                                                          *)
(* A sentence becomes a job.  Jobs wait in the bounded ttsQueue, at most    *)
(* Concurrency of them are synthesised at once, and a promise chain         *)
(* (ttsEmitChain) makes each job send its audio only after the job started  *)
(* before it has released its own link.  A seek or a stop makes every job   *)
(* of the old generation stale: the code cannot take such a job back, it    *)
(* re-checks isJobCurrent after every await.                                *)
(*                                                                          *)
(* One step is what the event loop runs between two awaits.  Promise        *)
(* continuations are steps of their own, so that seeks, stops and mode      *)
(* changes may fall between any two of them: the model allows every order   *)
(* of the real event loop and a few more.  Audio is abstracted to the       *)
(* number of chunks sent, text to the sentence's number.                    *)
(***************************************************************************)
EXTENDS Integers, Sequences, FiniteSets, SequencesExt

CONSTANTS
  MaxPendingTts,  \* timing.maxPendingTts: jobs that may wait for synthesis
  Concurrency,    \* ttsEngine.concurrency: jobs synthesised at once
  MaxParts,       \* parts (clauses or streamed PCM parts) of one sentence
  MaxSegments,    \* bound: sentences of a session
  MaxGeneration   \* bound: value of the generation counter

ASSUME TtsAssumption ==
  /\ MaxPendingTts \in Nat
  /\ Concurrency \in Nat \ {0}
  /\ MaxParts \in Nat \ {0}
  /\ MaxSegments \in Nat
  /\ MaxGeneration \in Nat

Segments == 1..MaxSegments

Modes == {"subtitle_only", "dubbing_only", "dubbing_and_subtitle"}
DubbingModes == {"dubbing_only", "dubbing_and_subtitle"}
SubtitleModes == {"subtitle_only", "dubbing_and_subtitle"}

(* "unborn":  not translated yet          "queued": in ttsQueue              *)
(* "skipped": will never be voiced        "synth":  awaits engine.synthesize *)
(* "audio":   has a part, awaits its turn "silent": no (more) audio, idem    *)
(* "quit":    returned without awaiting   "stream": engine sends parts       *)
(* "ended":   the stream has resolved     "done":   the job has settled      *)
Running == {"synth", "audio", "silent", "quit", "stream", "ended"}
Stages == Running \union {"unborn", "queued", "skipped", "done"}

VARIABLES
  isActive, generation, sttStreamToken, mode,  \* fields of the pipeline
  streaming,        \* timing.streamTtsAudio, with an engine that can stream
  ttsQueue,         \* the jobs waiting for synthesis, oldest first
  activeTtsJobs,    \* how many jobs run
  ttsEmitChain,     \* the job whose promise is the end of the chain, 0: none
  stage, jobGeneration, jobToken, subtitlePending,  \* each job
  previous,         \* the job whose release it awaits, 0: none
  released,         \* streaming: its previous.then callback has run
  heldParts,        \* streaming: parts waiting for that callback
  subtitles, chunks, partFinals,  \* history: messages sent for a sentence
  lastVoice         \* history: the sentence of the last TTS_CHUNK, 0: none

clock == <<isActive, generation, sttStreamToken>>
jobs == <<streaming, jobGeneration, jobToken>>
queueing == <<ttsQueue, activeTtsJobs, ttsEmitChain, stage, previous>>
texts == <<subtitlePending, subtitles>>
voice == <<chunks, partFinals, lastVoice>>
streams == <<released, heldParts>>
ttsVars == <<mode, queueing, jobs, texts, voice, streams>>
vars == <<clock, ttsVars>>
-----------------------------------------------------------------------------
Init ==
  /\ isActive = TRUE /\ generation = 1 /\ sttStreamToken = 1
  /\ mode \in Modes /\ streaming \in BOOLEAN
  /\ ttsQueue = <<>> /\ activeTtsJobs = 0 /\ ttsEmitChain = 0
  /\ stage = [s \in Segments |-> "unborn"]
  /\ jobGeneration = [s \in Segments |-> 0]
  /\ jobToken = [s \in Segments |-> 0]
  /\ subtitlePending = [s \in Segments |-> FALSE]
  /\ previous = [s \in Segments |-> 0]
  /\ released = [s \in Segments |-> FALSE]
  /\ heldParts = [s \in Segments |-> 0]
  /\ subtitles = [s \in Segments |-> 0]
  /\ chunks = [s \in Segments |-> 0]
  /\ partFinals = [s \in Segments |-> 0]
  /\ lastVoice = 0

IsJobCurrent(s) ==
  /\ isActive
  /\ jobToken[s] = sttStreamToken
  /\ jobGeneration[s] = generation

CurrentJobs == {s \in Segments : IsJobCurrent(s)}

(* emitSubtitle of every job of S, in mode m.                               *)
EmitSubtitle(S, m) ==
  /\ subtitlePending' = [s \in Segments |-> subtitlePending[s] /\ s \notin S]
  /\ subtitles' = [s \in Segments |->
       IF s \in S /\ m \in SubtitleModes /\ IsJobCurrent(s)
       THEN subtitles[s] + 1 ELSE subtitles[s]]

IfPending(s) == {t \in {s} : subtitlePending[t]}

(* The synchronous start of synthesizeJob: it gives up at once on a stale   *)
(* job or when nothing is to be voiced, skips a sentence the video has left *)
(* too far behind, or asks the engine for audio.                            *)
FirstStages(s, current) ==
  IF s \notin current \/ mode \notin DubbingModes
  THEN {"quit"}
  ELSE {"silent", IF streaming THEN "stream" ELSE "synth"}

(* pumpTtsQueue on queue q with n jobs running, "current" being the current  *)
(* jobs: at most one slot is free while a job waits, as WorkConserving says, *)
(* so that the loop starts at most one job.                                 *)
PumpTtsQueue(q, n, stages, current) ==
  IF isActive /\ n < Concurrency /\ q # <<>>
  THEN /\ \E first \in FirstStages(Head(q), current) :
            stage' = [stages EXCEPT ![Head(q)] = first]
       /\ ttsQueue' = Tail(q)
       /\ activeTtsJobs' = n + 1
       /\ previous' = [previous EXCEPT ![Head(q)] = ttsEmitChain]
       /\ ttsEmitChain' = Head(q)
  ELSE /\ stage' = stages
       /\ ttsQueue' = q
       /\ activeTtsJobs' = n
       /\ UNCHANGED <<previous, ttsEmitChain>>

(* Faulty: the job that gives way takes its subtitle along.                 *)
EnqueueDropsSubtitle(s) ==
  LET q == Append(ttsQueue, s)
      stages == [stage EXCEPT ![s] = "queued"]
      current == CurrentJobs \union {s}
  IN  /\ subtitlePending' = [subtitlePending EXCEPT ![s] = TRUE]
      /\ UNCHANGED subtitles
      /\ IF Len(q) <= MaxPendingTts
         THEN PumpTtsQueue(q, activeTtsJobs, stages, current)
         ELSE PumpTtsQueue(Tail(q), activeTtsJobs,
                           [stages EXCEPT ![Head(q)] = "skipped"], current)

(* enqueueTts: the oldest waiting job gives way when the queue is full; it  *)
(* loses its voice and keeps its subtitle.                                  *)
EnqueueTts(s) ==
  LET q == Append(ttsQueue, s)
      stages == [stage EXCEPT ![s] = "queued"]
      current == CurrentJobs \union {s}
  IN  IF Len(q) <= MaxPendingTts
      THEN /\ PumpTtsQueue(q, activeTtsJobs, stages, current)
           /\ subtitlePending' = [subtitlePending EXCEPT ![s] = TRUE]
           /\ UNCHANGED subtitles
      ELSE /\ PumpTtsQueue(Tail(q), activeTtsJobs,
                           [stages EXCEPT ![Head(q)] = "skipped"], current)
           /\ subtitlePending' = [subtitlePending EXCEPT ![s] = TRUE, ![Head(q)] = FALSE]
           /\ subtitles' = IF mode \in SubtitleModes /\ Head(q) \in current
                           THEN [subtitles EXCEPT ![Head(q)] = @ + 1]
                           ELSE subtitles

(* publishTranslation of sentence s, translated for generation g from the   *)
(* speech of STT stream t.                                                  *)
PublishTranslation(s, g, t) ==
  /\ isActive /\ g = generation /\ t = sttStreamToken
  /\ stage[s] = "unborn"
  /\ \A r \in Segments : r > s => stage[r] = "unborn"
  /\ jobGeneration' = [jobGeneration EXCEPT ![s] = g]
  /\ jobToken' = [jobToken EXCEPT ![s] = t]
  /\ UNCHANGED <<clock, mode, streaming, voice, streams>>
  /\ IF mode \in DubbingModes
     THEN EnqueueTts(s)
     ELSE /\ stage' = [stage EXCEPT ![s] = "skipped"]
          /\ subtitles' = [subtitles EXCEPT ![s] = @ + 1]
          /\ UNCHANGED <<ttsQueue, activeTtsJobs, ttsEmitChain, previous, subtitlePending>>

-----------------------------------------------------------------------------
(* Faulty: nobody waits for the job before.                                 *)
NoPrevious(s) == TRUE

(* The promise of the job started before s is resolved.                     *)
PreviousDone(s) == previous[s] # 0 => stage[previous[s]] = "done"

(* Faulty: the queue is not pumped again.                                   *)
SettleWithoutPump(s) ==
  /\ stage' = [stage EXCEPT ![s] = "done"]
  /\ activeTtsJobs' = activeTtsJobs - 1
  /\ UNCHANGED <<ttsQueue, previous, ttsEmitChain>>

(* The end of runTtsJob: release the chain, free the slot, pump again.      *)
Settle(s) ==
  PumpTtsQueue(ttsQueue, activeTtsJobs - 1, [stage EXCEPT ![s] = "done"], CurrentJobs)

(* await engine.synthesize resolves with audio, without, or it throws.  An  *)
(* engine answers "cancelled" for generations it was told to cancel only:    *)
(* such a job is stale and sends nothing in either case.                    *)
SynthesisReturns(s) ==
  /\ stage[s] = "synth"
  /\ \E result \in {"audio", "silent"} : stage' = [stage EXCEPT ![s] = result]
  /\ UNCHANGED <<clock, mode, ttsQueue, activeTtsJobs, ttsEmitChain, previous,
                 jobs, texts, voice, streams>>

(* Faulty: the job is not checked again after the awaits.                   *)
EmitAudioUnchecked(s) ==
  /\ stage[s] = "audio" /\ PreviousDone(s)
  /\ UNCHANGED <<clock, mode, jobs, streams, partFinals>>
  /\ EmitSubtitle(IfPending(s), mode)
  /\ chunks' = [chunks EXCEPT ![s] = @ + 1]
  /\ lastVoice' = s
  /\ Settle(s)

(* The rest of synthesizeJob's loop body: wait for the previous job, check  *)
(* again that the job is current, send the subtitle before the first part,  *)
(* send the part; then go on with the next part or end.                     *)
EmitAudio(s) ==
  /\ stage[s] = "audio" /\ PreviousDone(s)
  /\ UNCHANGED <<clock, mode, jobs, streams, partFinals>>
  /\ IF ~IsJobCurrent(s)
     THEN Settle(s) /\ UNCHANGED <<texts, chunks, lastVoice>>
     ELSE /\ EmitSubtitle(IfPending(s), mode)
          /\ chunks' = [chunks EXCEPT ![s] = @ + 1]
          /\ lastVoice' = s
          /\ \/ Settle(s)
             \/ /\ chunks[s] + 1 < MaxParts
                /\ stage' = [stage EXCEPT ![s] = "synth"]
                /\ UNCHANGED <<ttsQueue, activeTtsJobs, ttsEmitChain, previous>>

(* No audio, an engine error or a sentence left behind: the subtitle is     *)
(* still sent, in turn, and the job ends.  A job that gave up at its start  *)
(* ("quit") does not wait for its turn.                                     *)
EmitSilent(s) ==
  /\ stage[s] \in {"silent", "quit"}
  /\ stage[s] = "silent" => PreviousDone(s)
  /\ EmitSubtitle(IfPending(s), mode)
  /\ UNCHANGED <<clock, mode, jobs, streams, voice>>
  /\ Settle(s)

(* Streaming: n more parts of s go out, the subtitle before the first.      *)
SendParts(s, n) ==
  IF n > 0 /\ IsJobCurrent(s)
  THEN /\ EmitSubtitle(IfPending(s), mode)
       /\ chunks' = [chunks EXCEPT ![s] = @ + n]
       /\ lastVoice' = s
  ELSE UNCHANGED <<texts, chunks, lastVoice>>

(* The engine delivers a part: sent at once, or held until it is s's turn.  *)
PartArrives(s) ==
  /\ stage[s] = "stream"
  /\ chunks[s] + heldParts[s] < MaxParts
  /\ IF released[s]
     THEN SendParts(s, 1) /\ UNCHANGED heldParts
     ELSE /\ heldParts' = [heldParts EXCEPT ![s] = @ + 1]
          /\ UNCHANGED <<texts, chunks, lastVoice>>
  /\ UNCHANGED <<clock, mode, queueing, jobs, partFinals, released>>

(* previous.then: it is s's turn, the parts held so far go out.             *)
PreviousReleased(s) ==
  /\ stage[s] \in {"stream", "ended"}
  /\ ~released[s] /\ PreviousDone(s)
  /\ released' = [released EXCEPT ![s] = TRUE]
  /\ heldParts' = [heldParts EXCEPT ![s] = 0]
  /\ SendParts(s, heldParts[s])
  /\ UNCHANGED <<clock, mode, queueing, jobs, partFinals>>

(* await engine.synthesizeStream resolves or throws.                        *)
StreamReturns(s) ==
  /\ stage[s] = "stream"
  /\ stage' = [stage EXCEPT ![s] = "ended"]
  /\ UNCHANGED <<clock, mode, ttsQueue, activeTtsJobs, ttsEmitChain, previous,
                 jobs, texts, voice, streams>>

(* Faulty: the voice is not closed when the mode no longer dubs.            *)
StreamLeftOpen(s) ==
  /\ stage[s] = "ended" /\ released[s]
  /\ IF IsJobCurrent(s) /\ chunks[s] > 0 /\ mode \in DubbingModes
     THEN /\ partFinals' = [partFinals EXCEPT ![s] = @ + 1]
          /\ lastVoice' = s
     ELSE UNCHANGED <<partFinals, lastVoice>>
  /\ IF chunks[s] = 0 THEN EmitSubtitle(IfPending(s), mode) ELSE UNCHANGED texts
  /\ UNCHANGED <<clock, mode, jobs, streams, chunks>>
  /\ Settle(s)

(* The end of synthesizeJobStreaming, once it is s's turn: close the voice  *)
(* with partFinal, or send the subtitle of a sentence that got no voice.    *)
StreamSettles(s) ==
  /\ stage[s] = "ended" /\ released[s]
  /\ IF IsJobCurrent(s) /\ chunks[s] > 0
     THEN /\ partFinals' = [partFinals EXCEPT ![s] = @ + 1]
          /\ lastVoice' = s
     ELSE UNCHANGED <<partFinals, lastVoice>>
  /\ IF chunks[s] = 0 THEN EmitSubtitle(IfPending(s), mode) ELSE UNCHANGED texts
  /\ UNCHANGED <<clock, mode, jobs, streams, chunks>>
  /\ Settle(s)
-----------------------------------------------------------------------------
(* The jobs still waiting when the queue is emptied are never voiced.       *)
DropQueue ==
  /\ stage' = [s \in Segments |-> IF stage[s] = "queued" THEN "skipped" ELSE stage[s]]
  /\ ttsQueue' = <<>>
  /\ UNCHANGED <<activeTtsJobs, ttsEmitChain, previous>>

(* handleSeek: a new generation, and two new stream tokens (one drops the   *)
(* old stream, one opens the new).                                          *)
HandleSeek ==
  /\ isActive
  /\ generation < MaxGeneration
  /\ generation' = generation + 1
  /\ sttStreamToken' = sttStreamToken + 2
  /\ DropQueue
  /\ UNCHANGED <<isActive, mode, jobs, texts, voice, streams>>

(* stop *)
Stop ==
  /\ isActive
  /\ isActive' = FALSE
  /\ generation' = generation + 1
  /\ sttStreamToken' = sttStreamToken + 1
  /\ DropQueue
  /\ UNCHANGED <<mode, jobs, texts, voice, streams>>

(* setMode: jobs waiting for a voice give their subtitles at once when the  *)
(* voice is switched off.                                                   *)
SetMode(m) ==
  /\ mode' = m
  /\ IF m = "subtitle_only"
     THEN DropQueue /\ EmitSubtitle({s \in Range(ttsQueue) : subtitlePending[s]}, m)
     ELSE UNCHANGED <<queueing, texts>>
  /\ UNCHANGED <<clock, jobs, voice, streams>>

(* What the engine and the event loop owe a job: a request is answered (the *)
(* adapters time out) and resolved promises run.  A part of a streamed      *)
(* voice need not come: a stream may end without one.                       *)
JobContinues(s) ==
  \/ SynthesisReturns(s)
  \/ EmitAudio(s)
  \/ EmitSilent(s)
  \/ PreviousReleased(s)
  \/ StreamReturns(s)
  \/ StreamSettles(s)

JobStep(s) == PartArrives(s) \/ JobContinues(s)

Next ==
  \/ \E s \in Segments : PublishTranslation(s, generation, sttStreamToken) \/ JobStep(s)
  \/ HandleSeek
  \/ Stop
  \/ \E m \in Modes : SetMode(m)

Spec == Init /\ [][Next]_vars

-----------------------------------------------------------------------------
TypeOK ==
  /\ isActive \in BOOLEAN /\ generation \in Nat /\ sttStreamToken \in Nat
  /\ mode \in Modes /\ streaming \in BOOLEAN
  /\ ttsQueue \in Seq(Segments)
  /\ activeTtsJobs \in Int /\ activeTtsJobs <= Concurrency
  /\ ttsEmitChain \in 0..MaxSegments
  /\ stage \in [Segments -> Stages]
  /\ jobGeneration \in [Segments -> Nat]
  /\ jobToken \in [Segments -> Nat]
  /\ subtitlePending \in [Segments -> BOOLEAN]
  /\ previous \in [Segments -> 0..MaxSegments]
  /\ released \in [Segments -> BOOLEAN]
  /\ heldParts \in [Segments -> Nat]
  /\ subtitles \in [Segments -> Nat]
  /\ chunks \in [Segments -> Nat]
  /\ partFinals \in [Segments -> Nat]
  /\ lastVoice \in 0..MaxSegments

(* A sentence's subtitle is sent at most once, whichever of the six places  *)
(* that may send it comes first, and it is never lost while the sentence is *)
(* current: as long as it has not been handed to emitSubtitle its job still *)
(* waits in the queue or runs.  This must survive engine errors, queue      *)
(* overflow and mode changes.                                               *)
SubtitleOnce ==
  \A s \in Segments :
    /\ subtitles[s] <= 1
    /\ subtitlePending[s] /\ IsJobCurrent(s) => stage[s] \in Running \union {"queued"}

(* A job that waits for synthesis is current and the mode dubs: the early   *)
(* returns of synthesizeJob, which do not wait for the previous job, are    *)
(* never taken and cannot break the chain.                                  *)
QueuedJobsCurrent ==
  \A s \in Segments :
    /\ stage[s] = "queued" => IsJobCurrent(s) /\ mode \in DubbingModes
    /\ stage[s] # "quit"

(* Besides the types and QueuedJobsCurrent: no wake-up is lost and no job   *)
(* waits in vain: the slots in use are those of the running jobs, a job is  *)
(* queued only while all are in use, and a running job waits for an older   *)
(* one that runs or has settled.                                            *)
WorkConserving ==
  /\ TypeOK /\ QueuedJobsCurrent
  /\ activeTtsJobs = Cardinality({s \in Segments : stage[s] \in Running})
  /\ ttsQueue # <<>> => activeTtsJobs = Concurrency
  /\ \A s \in Segments : stage[s] \in Running /\ previous[s] # 0 =>
       previous[s] < s /\ stage[previous[s]] \in Running \union {"done"}

(* A sentence of which streamed audio was sent is closed by exactly one     *)
(* partFinal, or the receiver would keep its stretcher open for ever.       *)
StreamedVoiceClosed ==
  \A s \in Segments :
    /\ partFinals[s] <= 1
    /\ streaming /\ stage[s] = "done" /\ chunks[s] > 0 /\ IsJobCurrent(s)
       => partFinals[s] = 1

(* The voice never goes back: audio of a sentence is not sent after audio   *)
(* of a later one, even when the later one was synthesised first; the parts *)
(* of two sentences do not interleave, and a closed voice stays closed.     *)
VoiceInOrder ==
  [][/\ lastVoice' >= lastVoice
     /\ \A s \in Segments : partFinals[s] > 0 => chunks'[s] = chunks[s]]_vars

(* What is sent for sentence s in a step.                                   *)
Sent(s) == <<subtitles[s], chunks[s], partFinals[s]>>

(* Nothing is sent for a sentence of an older generation, however long the  *)
(* engine held its answer across the seek or the stop.                      *)
OnlyCurrentSent ==
  [][\A s \in Segments : Sent(s)' # Sent(s) => IsJobCurrent(s)']_vars
=============================================================================
