---------------------------- MODULE ScriptDubbing ----------------------------
(***************************************************************************)
(* Dubbing ahead from the captions of the video (Firefox): ScriptDubPlayer  *)
(* in the page asks for the sentences that come up, ScriptPipeline in the   *)
(* backend translates and speaks them one at a time, and the player starts  *)
(* each voice when the video reaches its sentence, past the queue of the    *)
(* mixer.  Nothing but the two `generation` counters, the player's `sent`   *)
(* and the pipeline's `accepted` keeps the two in step over seeks.          *)
(*                                                                          *)
(* Time is counted in ticks of the video at normal speed; times of the      *)
(* AudioContext are relative to now.  The captions are sentences of equal   *)
(* length without gaps.  Stretching a voice is the choice of its length.    *)
(* The player's timer may fire at any time.                                 *)
(*                                                                          *)
(* Automatic captions are words: the backend makes sentences of them, chunk *)
(* by chunk, beginning where the video is.  The player starts with those of *)
(* the first chunk and learns of the others while it plays; until then the  *)
(* session may already dub what it hears, which is not modelled here.       *)
(***************************************************************************)
EXTENDS Naturals, Sequences, FiniteSets, SequencesExt

CONSTANTS
  Sentences,      \* number of sentences
  Slot,           \* ticks from one sentence to the next (segmentSlotMs)
  MaxLength,      \* bound: ticks of a voice
  Lookahead,      \* SCRIPT_LOOKAHEAD_MS
  Ahead,          \* SCHEDULE_AHEAD_MS
  Preparation,    \* the prepMs of sendUpcoming
  MinRemaining,   \* MIN_REMAINING_SLOT_MS
  MaxLate,        \* MAX_LATE_SUBTITLE_MS
  SendBatch,      \* SEND_BATCH
  MaxQueued,      \* MAX_QUEUED_SEGMENTS
  MaxSeeks, MaxPauses, MaxModeChanges   \* bounds on what the user does

ASSUME ScriptAssumption ==
  /\ {Lookahead, Ahead, Preparation, MinRemaining, MaxLate, MaxSeeks, MaxPauses,
      MaxModeChanges} \subseteq Nat
  /\ {Sentences, Slot, MaxLength, SendBatch, MaxQueued} \subseteq Nat \ {0}

Segments == 1..Sentences
StartOf(s) == (s - 1) * Slot
EndOf(s) == s * Slot
Finish == Sentences * Slot
Modes == {"subtitle_only", "dubbing_and_subtitle"}

VARIABLES
  remaining, awaited,              \* chunks of words to be sent; the one waited for, {}: none
  punctuating,                     \* chunks the backend makes sentences of
  at, paused, seeking,             \* the video
  generation, mode,                \* of the session in the page
  known,                           \* player: the sentences it has (segments)
  sent, texts, audio,              \* player: requested, translated, voices by length (0: none)
  decoding,                        \* voices in decodeAudioData
  handled, interrupted,            \* player: played or given up, cut by a pause
  voices, lastVoiceEnd,            \* player: voices scheduled, and when the last one ends
  playing, timers,                 \* the mixer's sources; subtitles to be shown
  toServer, toPage,                \* the socket
  serverGeneration, serverMode, queue, accepted, acceptedGeneration, job,  \* ScriptPipeline
  seeks, pauses, modeChanges,      \* so far
  excused                          \* history: requests the code may lose, see NothingForgotten

video == <<at, paused, seeking>>
player == <<known, sent, texts, audio, decoding, handled, interrupted, voices, lastVoiceEnd>>
output == <<playing, timers>>
server == <<serverGeneration, serverMode, queue, accepted, acceptedGeneration, job>>
user == <<seeks, pauses, modeChanges>>
chunks == <<remaining, awaited, punctuating>>
scriptVars == <<chunks, video, generation, mode, player, output, toServer, toPage, server, user,
          excused>>

Requests ==
  [kind : {"segments"}, segments : Seq(Segments), generation : Nat]
    \union [kind : {"words"}, chunk : SUBSET Segments]
    \union [kind : {"seek"}] \union [kind : {"mode"}, mode : Modes]

Answers ==
  [kind : {"answer"}, segment : Segments, generation : Nat, voice : BOOLEAN]
    \union [kind : {"sentences"}, sentences : SUBSET Segments, chunk : SUBSET Segments]

Jobs == [segment : Segments, generation : Nat, step : {"translate", "speak"}]
NoJob == [step |-> "none"]

ScriptTypeOK ==
  /\ known \subseteq Segments /\ awaited \subseteq Segments
  /\ remaining \in Seq(SUBSET Segments) /\ punctuating \subseteq SUBSET Segments
  /\ at \in 0..Finish /\ paused \in BOOLEAN /\ seeking \in BOOLEAN
  /\ generation \in Nat /\ {mode, serverMode} \subseteq Modes
  /\ sent \union texts \union decoding \union handled \union interrupted \subseteq Segments
  /\ audio \in [Segments -> 0..MaxLength]
  /\ voices \in Seq([segment : Segments, left : Nat]) /\ lastVoiceEnd \in Nat
  /\ playing \in Seq([segment : Segments, from : Nat, upto : Nat, skipped : Nat])
  /\ timers \subseteq [segment : Segments, left : Nat]
  /\ toServer \in Seq(Requests) /\ toPage \in Seq(Answers)
  /\ serverGeneration \in Nat /\ acceptedGeneration \in Nat
  /\ queue \in Seq(Segments) /\ accepted \subseteq Segments
  /\ job \in Jobs \union {NoJob} /\ excused \subseteq Segments

(* The words from the position of the video on come first, what is before   *)
(* them last; captions made by people, or in Vietnamese, are sentences.     *)
Words(chunk) == [kind |-> "words", chunk |-> chunk]

OtherChunks(first) ==
  LET after == {s \in Segments : \A f \in first : s > f}
      before == {s \in Segments : \A f \in first : s < f}
  IN (IF after = {} THEN <<>> ELSE <<after>>) \o (IF before = {} THEN <<>> ELSE <<before>>)

PrepareScript ==
  \/ known = Segments /\ remaining = <<>> /\ awaited = {} /\ toServer = <<>> /\ at = 0
  \/ \E a, b \in Segments :
       /\ a <= b /\ known = {} /\ at = StartOf(a)
       /\ remaining = OtherChunks(a..b) /\ awaited = a..b /\ toServer = <<Words(a..b)>>

ScriptInit ==
  /\ PrepareScript /\ punctuating = {}
  /\ paused = FALSE /\ seeking = FALSE
  /\ generation = 1 /\ mode \in Modes
  /\ sent = {} /\ texts = {} /\ audio = [s \in Segments |-> 0] /\ decoding = {}
  /\ handled = {} /\ interrupted = {} /\ voices = <<>> /\ lastVoiceEnd = 0
  /\ playing = <<>> /\ timers = {}
  /\ toPage = <<>>
  /\ serverGeneration = 1 /\ serverMode = mode
  /\ queue = <<>> /\ accepted = {} /\ acceptedGeneration = 0 /\ job = NoJob
  /\ seeks = 0 /\ pauses = 0 /\ modeChanges = 0
  /\ excused = {}
-----------------------------------------------------------------------------
(* The player's tick, for the page as it is after the handler that calls it:*)
(* pg is a record of the variables the tick reads or changes.               *)
Page == [at |-> at, paused |-> paused, seeking |-> seeking, generation |-> generation,
         mode |-> mode, known |-> known, sent |-> sent, texts |-> texts, audio |-> audio,
         handled |-> handled, interrupted |-> interrupted, voices |-> voices,
         lastVoiceEnd |-> lastVoiceEnd, playing |-> playing, timers |-> timers,
         toServer |-> toServer, excused |-> excused]

IsComplete(pg, s) == IF pg.mode = "subtitle_only" THEN s \in pg.texts ELSE pg.audio[s] > 0

Minus(a, b) == IF a > b THEN a - b ELSE 0
Later(a, b) == IF a > b THEN a ELSE b

IsUpcoming(pg, s) ==
  /\ s \in pg.known /\ StartOf(s) <= pg.at + Lookahead /\ EndOf(s) >= pg.at
  /\ s \notin pg.sent /\ ~IsComplete(pg, s)
  /\ pg.paused \/ StartOf(s) >= pg.at + Preparation

(* The loop over the sentences, up to a full batch.                         *)
Upcoming(pg) ==
  LET batch[s \in 0..Sentences] ==
        IF s = 0 THEN <<>>
        ELSE LET before == batch[s - 1]
             IN IF IsUpcoming(pg, s) /\ Len(before) < SendBatch THEN Append(before, s) ELSE before
  IN batch[Sentences]

SendUpcoming(pg) ==
  LET batch == Upcoming(pg)
  IN IF batch = <<>> THEN pg
     ELSE [pg EXCEPT !.sent = @ \union ToSet(batch), !.excused = @ \ ToSet(batch),
                     !.toServer = Append(@, [kind |-> "segments", segments |-> batch,
                                             generation |-> pg.generation])]

ShowSubtitleLater(pg, s, delay) ==
  IF s \in pg.texts THEN [pg EXCEPT !.timers = @ \union {[segment |-> s, left |-> delay]}] ELSE pg

GiveUp(pg, s) == [pg EXCEPT !.handled = @ \union {s}]

PlaySubtitle(pg, s, late, delay) ==
  IF s \in pg.texts THEN ShowSubtitleLater(GiveUp(pg, s), s, delay)
  ELSE IF late > MaxLate THEN GiveUp(pg, s) ELSE pg

PlayWithoutVoice(pg, s, late) ==
  IF late + MinRemaining > Slot THEN ShowSubtitleLater(GiveUp(pg, s), s, 0) ELSE pg

(* A voice that is late is read from its beginning if it still fits into    *)
(* the slot; else, and after a pause, from where the video is.  It waits    *)
(* for the voice before it.                                                 *)
VoiceAt(pg, s, late, wait) ==
  LET length == pg.audio[s]
      fits == length <= Minus(Slot, late)
      offset == IF s \in pg.interrupted \/ ~fits THEN late ELSE 0
      taken == [GiveUp(pg, s) EXCEPT !.interrupted = @ \ {s}]
      upto == wait + length - offset
  IN IF offset >= length THEN taken
     ELSE ShowSubtitleLater(
            [taken EXCEPT !.playing = Append(@, [segment |-> s, from |-> wait, upto |-> upto,
                                                 skipped |-> offset]),
                          !.voices = Append(@, [segment |-> s, left |-> upto]),
                          !.lastVoiceEnd = upto],
            s, wait)

PlayVoiceAtOnce(pg, s, late, delay) == VoiceAt(pg, s, late, delay)

PlayVoice(pg, s, late, delay) == VoiceAt(pg, s, late, Later(delay, pg.lastVoiceEnd))

Play(pg, s) ==
  LET late == Minus(pg.at, StartOf(s))
      delay == Minus(StartOf(s), pg.at)
  IN IF s \notin pg.known \/ StartOf(s) > pg.at + Ahead \/ s \in pg.handled THEN pg
     ELSE IF pg.at >= EndOf(s) THEN GiveUp(pg, s)
     ELSE IF pg.mode = "subtitle_only" THEN PlaySubtitle(pg, s, late, delay)
     ELSE IF pg.audio[s] = 0 THEN PlayWithoutVoice(pg, s, late)
     ELSE PlayVoice(pg, s, late, delay)

(* The loop over the sentences, in their order.                             *)
PlayAll(pg) ==
  LET played[s \in 0..Sentences] == IF s = 0 THEN pg ELSE Play(played[s - 1], s)
  IN played[Sentences]

TickOf(pg) ==
  LET asked == SendUpcoming(pg)
  IN IF pg.paused \/ pg.seeking \/ pg.at = Finish THEN asked ELSE PlayAll(asked)

(* The page after a handler: everything a tick may change.                  *)
PageBecomes(pg) ==
  /\ known' = pg.known /\ sent' = pg.sent /\ handled' = pg.handled /\ interrupted' = pg.interrupted
  /\ voices' = pg.voices /\ lastVoiceEnd' = pg.lastVoiceEnd
  /\ playing' = pg.playing /\ timers' = pg.timers /\ toServer' = pg.toServer
  /\ at' = pg.at /\ paused' = pg.paused /\ seeking' = pg.seeking
  /\ generation' = pg.generation /\ mode' = pg.mode
  /\ texts' = pg.texts /\ audio' = pg.audio /\ excused' = pg.excused

PlayerTicks ==
  /\ PageBecomes(TickOf(Page))
  /\ UNCHANGED <<chunks, decoding, toPage, server, user>>
-----------------------------------------------------------------------------
(* The user.  A pause stops every voice; what it cuts goes on later.        *)
Silenced(pg) == [pg EXCEPT !.playing = <<>>, !.voices = <<>>, !.lastVoiceEnd = 0, !.timers = {}]

Pause ==
  /\ ~paused /\ ~seeking /\ pauses < MaxPauses /\ pauses' = pauses + 1
  /\ LET cut == {v.segment : v \in {x \in ToSet(voices) : x.left > 0}}
     IN PageBecomes([Silenced(Page) EXCEPT !.paused = TRUE, !.handled = @ \ cut,
                                           !.interrupted = @ \union cut])
  /\ UNCHANGED <<chunks, decoding, toPage, server, seeks, modeChanges>>

Resume ==
  /\ paused /\ ~seeking
  /\ PageBecomes([Page EXCEPT !.paused = FALSE])
  /\ UNCHANGED <<chunks, decoding, toPage, server, user>>

(* `seeking`: the position has changed already, only the newest voice stops.*)
BeginSeek ==
  /\ ~seeking /\ seeks < MaxSeeks /\ seeks' = seeks + 1
  /\ \E t \in {StartOf(s) : s \in Segments} \union {StartOf(s) + 1 : s \in Segments} :
       PageBecomes([Page EXCEPT !.at = t, !.seeking = TRUE,
                      !.playing = SubSeq(@, 1, Minus(Len(@), 1))])
  /\ UNCHANGED <<chunks, decoding, toPage, server, pauses, modeChanges>>

KeepsSent(pg) == pg.sent

KeepsComplete(pg) == {s \in pg.sent : IsComplete(pg, s)}

(* `seeked`: SEEK_EVENT first, then the player asks again for what is not   *)
(* complete, in the new generation.                                         *)
EndSeek ==
  /\ seeking
  /\ PageBecomes(TickOf([Silenced(Page) EXCEPT
       !.seeking = FALSE, !.generation = @ + 1, !.handled = {},
       !.toServer = Append(@, [kind |-> "seek"]), !.sent = KeepsComplete(Page)]))
  /\ UNCHANGED <<chunks, decoding, toPage, server, user>>

(* changeFirefoxMode: the player is not told.                               *)
ChangeMode ==
  /\ modeChanges < MaxModeChanges /\ modeChanges' = modeChanges + 1
  /\ \E m \in Modes \ {mode} :
       PageBecomes([Page EXCEPT !.mode = m, !.excused = @ \union sent,
                      !.toServer = Append(@, [kind |-> "mode", mode |-> m])])
  /\ UNCHANGED <<chunks, decoding, toPage, server, seeks, pauses>>
-----------------------------------------------------------------------------
(* ScriptPipeline.  Only one sentence is worked on; the next is taken when  *)
(* it is done, in the same turn of the event loop.                          *)
Take(q, g) ==
  IF q = <<>> THEN queue' = <<>> /\ job' = NoJob
  ELSE queue' = Tail(q) /\ job' = [segment |-> Head(q), generation |-> g, step |-> "translate"]

(* The loop of enqueue: what was accepted before, or finds the queue full,  *)
(* is passed over.                                                          *)
Enqueued(old, earlier, segments) ==
  LET taken[i \in 0..Len(segments)] ==
        IF i = 0 THEN [queue |-> old, accepted |-> earlier]
        ELSE LET before == taken[i - 1]  s == segments[i]
             IN IF s \in before.accepted \/ Len(before.queue) >= MaxQueued THEN before
                ELSE [queue |-> Append(before.queue, s),
                      accepted |-> before.accepted \union {s}]
  IN taken[Len(segments)]

(* enqueue and pump; what the full queue refuses stays `sent` in the page.  *)
Enqueue(segments, g) ==
  IF g # serverGeneration
  THEN UNCHANGED <<queue, accepted, acceptedGeneration, job, excused>>
  ELSE LET fresh == acceptedGeneration # g
           taken == Enqueued(IF fresh THEN <<>> ELSE queue, IF fresh THEN {} ELSE accepted,
                             segments)
       IN /\ accepted' = taken.accepted /\ acceptedGeneration' = g
          /\ excused' = excused \union (ToSet(segments) \ taken.accepted)
          /\ IF job = NoJob THEN Take(taken.queue, g)
             ELSE queue' = taken.queue /\ UNCHANGED job

ResetKeepsQueue ==
  /\ serverGeneration' = serverGeneration + 1
  /\ accepted' = {} /\ acceptedGeneration' = serverGeneration' /\ UNCHANGED queue

Reset ==
  /\ serverGeneration' = serverGeneration + 1
  /\ queue' = <<>> /\ accepted' = {} /\ acceptedGeneration' = serverGeneration'

ServerReceives ==
  /\ toServer # <<>> /\ toServer' = Tail(toServer)
  /\ CASE Head(toServer).kind = "seek" ->
            Reset /\ UNCHANGED <<punctuating, serverMode, job, excused>>
       [] Head(toServer).kind = "mode" ->
            /\ serverMode' = Head(toServer).mode
            /\ UNCHANGED <<punctuating, serverGeneration, queue, accepted, acceptedGeneration,
                           job, excused>>
       [] Head(toServer).kind = "words" ->
            /\ punctuating' = punctuating \union {Head(toServer).chunk}
            /\ UNCHANGED <<server, excused>>
       [] OTHER ->
            /\ Enqueue(Head(toServer).segments, Head(toServer).generation)
            /\ UNCHANGED <<punctuating, serverGeneration, serverMode>>
  /\ UNCHANGED <<remaining, awaited, video, generation, mode, player, output, toPage, user>>

IsCurrent == job.generation = serverGeneration

Answer(voice) ==
  toPage' = Append(toPage, [kind |-> "answer", segment |-> job.segment,
                            generation |-> job.generation, voice |-> voice])

(* The sentence is done with: without an answer it is lost for this request.*)
Loses ==
  /\ excused' = excused \union {job.segment}
  /\ UNCHANGED toPage

Translated ==
  /\ job.step = "translate"
  /\ \/ ~IsCurrent /\ Take(queue, acceptedGeneration) /\ UNCHANGED <<toPage, excused>>
     \/ IsCurrent /\ Loses /\ Take(queue, acceptedGeneration)
     \/ /\ IsCurrent /\ serverMode = "subtitle_only"
        /\ Answer(FALSE) /\ Take(queue, acceptedGeneration) /\ UNCHANGED excused
     \/ /\ IsCurrent /\ serverMode # "subtitle_only"
        /\ job' = [job EXCEPT !.step = "speak"]
        /\ UNCHANGED <<queue, toPage, excused>>
  /\ UNCHANGED <<chunks, video, generation, mode, player, output, toServer, serverGeneration,
                 serverMode, accepted, acceptedGeneration, user>>

(* A failure, a voice, or a cancelled synthesis: then a subtitle at least.  *)
Spoken ==
  /\ job.step = "speak" /\ Take(queue, acceptedGeneration)
  /\ \/ ~IsCurrent /\ UNCHANGED <<toPage, excused>>
     \/ IsCurrent /\ Loses
     \/ IsCurrent /\ Answer(TRUE) /\ UNCHANGED excused
     \/ IsCurrent /\ Answer(FALSE) /\ excused' = excused \union {job.segment}
  /\ UNCHANGED <<chunks, video, generation, mode, player, output, toServer, serverGeneration,
                 serverMode, accepted, acceptedGeneration, user>>
-----------------------------------------------------------------------------
(* The backend has made sentences of a chunk, or has failed to: a seek does *)
(* not stop it.                                                             *)
Punctuated(c) ==
  /\ c \in punctuating /\ punctuating' = punctuating \ {c}
  /\ \E sentences \in {{}, c} :
       toPage' = Append(toPage, [kind |-> "sentences", sentences |-> sentences, chunk |-> c])
  /\ UNCHANGED <<remaining, awaited, video, generation, mode, player, output, toServer,
                 server, user, excused>>

(* The player starts with the first sentences.                              *)
StartScriptDubbing(pg, sentences) == TickOf([pg EXCEPT !.known = sentences])

(* addSegments of the player.                                               *)
AddSegments(pg, sentences) ==
  IF sentences \subseteq pg.known THEN pg
  ELSE TickOf([pg EXCEPT !.known = @ \union sentences])

(* switchToScriptDubbing: the sentences came late, the session has begun to *)
(* dub what it hears; a seek on the spot makes the backend forget it.       *)
Switched(pg) ==
  [Silenced(pg) EXCEPT !.generation = @ + 1, !.toServer = Append(@, [kind |-> "seek"])]

(* loadRemainingWords: the words of the next chunk are sent.                *)
NextChunk(pg) ==
  IF remaining = <<>> THEN awaited' = {} /\ UNCHANGED remaining /\ PageBecomes(pg)
  ELSE /\ awaited' = Head(remaining) /\ remaining' = Tail(remaining)
       /\ PageBecomes([pg EXCEPT !.toServer = Append(@, Words(Head(remaining)))])

(* The wait for a chunk is over.  Without sentences in the first one there  *)
(* is no dubbing from captions.                                             *)
ChunkSettles(sentences) ==
  \/ /\ known = {} /\ sentences = {}
     /\ awaited' = {} /\ remaining' = <<>> /\ PageBecomes(Page)
  \/ /\ known = {} /\ sentences # {}
     /\ \E pg \in {Page, Switched(Page)} : NextChunk(StartScriptDubbing(pg, sentences))
  \/ known # {} /\ NextChunk(AddSegments(Page, sentences))

ChunkTimesOut ==
  /\ awaited # {} /\ ChunkSettles({})
  /\ UNCHANGED <<punctuating, decoding, toPage, server, user>>

(* The sentences of a chunk nobody waits for any more are not used.         *)
SentencesArrive ==
  /\ toPage # <<>> /\ Head(toPage).kind = "sentences" /\ toPage' = Tail(toPage)
  /\ IF Head(toPage).chunk = awaited THEN ChunkSettles(Head(toPage).sentences)
     ELSE PageBecomes(Page) /\ UNCHANGED <<remaining, awaited>>
  /\ UNCHANGED <<punctuating, decoding, server, user>>

(* handleSubtitle and handleTts up to the decoder; old generations are      *)
(* dropped.                                                                 *)
PageReceives ==
  /\ toPage # <<>> /\ Head(toPage).kind = "answer" /\ toPage' = Tail(toPage)
  /\ LET m == Head(toPage)
     IN IF m.generation # generation THEN UNCHANGED <<texts, decoding>>
        ELSE /\ texts' = texts \union {m.segment}
             /\ decoding' = IF m.voice THEN decoding \union {m.segment} ELSE decoding
  /\ UNCHANGED <<chunks, video, generation, mode, known, sent, audio, handled, interrupted,
                 voices, lastVoiceEnd, output, toServer, server, user, excused>>

Decoded(s) ==
  /\ s \in decoding /\ decoding' = decoding \ {s}
  /\ \E length \in 1..MaxLength : PageBecomes(TickOf([Page EXCEPT !.audio[s] = length]))
  /\ UNCHANGED <<chunks, toPage, server, user>>

DecodingFails(s) ==
  /\ s \in decoding /\ decoding' = decoding \ {s}
  /\ excused' = excused \union {s}
  /\ UNCHANGED <<chunks, video, generation, mode, known, sent, texts, audio, handled,
                 interrupted, voices, lastVoiceEnd, output, toServer, toPage, server, user>>

(* Time: the AudioContext always goes on, the video when it plays.  The     *)
(* timers of the page that are due run first.                               *)
TimePasses ==
  /\ \A t \in timers : t.left > 0
  /\ \/ \E i \in DOMAIN playing : playing[i].upto > 0
     \/ timers # {} \/ lastVoiceEnd > 0
     \/ ~paused /\ ~seeking /\ at < Finish
  /\ LET Less(n) == Minus(n, 1)
         Moved(v) == [v EXCEPT !.from = Less(@), !.upto = Less(@)]
     IN PageBecomes([Page EXCEPT
          !.at = IF paused \/ seeking \/ at = Finish THEN at ELSE at + 1,
          !.playing = [i \in DOMAIN playing |-> Moved(playing[i])],
          !.voices = [i \in DOMAIN voices |-> [voices[i] EXCEPT !.left = Less(@)]],
          !.lastVoiceEnd = Less(lastVoiceEnd),
          !.timers = {[t EXCEPT !.left = Less(@)] : t \in timers}])
  /\ UNCHANGED <<chunks, decoding, toPage, server, user>>

SubtitleShows(t) ==
  /\ t \in timers /\ t.left = 0
  /\ timers' = timers \ {t}
  /\ UNCHANGED <<chunks, video, generation, mode, player, playing, toServer, toPage, server,
                 user, excused>>

ScriptNext ==
  \/ PlayerTicks \/ Pause \/ Resume \/ BeginSeek \/ EndSeek \/ ChangeMode
  \/ ServerReceives \/ Translated \/ Spoken \/ PageReceives
  \/ \E c \in punctuating : Punctuated(c)
  \/ ChunkTimesOut \/ SentencesArrive
  \/ \E s \in decoding : Decoded(s) \/ DecodingFails(s)
  \/ TimePasses \/ \E t \in timers : SubtitleShows(t)

ScriptSpec == ScriptInit /\ [][ScriptNext]_scriptVars
-----------------------------------------------------------------------------
(* The mixer is given voices for moments of its own choice by scheduleTTSAt,*)
(* and still no two voices are heard at once; no voice runs ahead of its    *)
(* sentence in the video, not even one that goes on after a pause.          *)
VoiceInPlace ==
  /\ ScriptTypeOK
  /\ \A i, j \in DOMAIN playing : i < j => playing[i].upto <= playing[j].from
  /\ ~paused /\ ~seeking /\ at < Finish =>
       \A i \in DOMAIN playing : LET v == playing[i] IN
         v.from > 0 => at + v.from >= StartOf(v.segment) + v.skipped

(* The sentence is requested, worked on, answered or being decoded.         *)
SeekPending == \E i \in DOMAIN toServer : toServer[i].kind = "seek"

OnItsWay(s) ==
  \/ \E i \in DOMAIN toServer : /\ toServer[i].kind = "segments"
                                /\ s \in ToSet(toServer[i].segments)
                                /\ toServer[i].generation = generation
  \/ /\ ~SeekPending /\ serverGeneration = generation
     /\ \/ s \in ToSet(queue) /\ acceptedGeneration = generation
        \/ job # NoJob /\ job.segment = s /\ job.generation = generation
  \/ \E i \in DOMAIN toPage : /\ toPage[i].kind = "answer"
                              /\ toPage[i].segment = s /\ toPage[i].generation = generation
  \/ s \in decoding

(* A sentence the player has asked for, and will not ask for again, is on   *)
(* its way in a form both ends will accept.  Excused are requests that      *)
(* failed, that the full queue refused, or that a change of mode overtook.  *)
NothingForgotten ==
  \A s \in (sent \ excused) : IsComplete(Page, s) \/ OnItsWay(s)

(* The pipeline's loop: it runs whenever there is work, each sentence of a  *)
(* generation is worked on once, and none is left from an older generation. *)
ScriptLoopSound ==
  /\ queue # <<>> => job # NoJob /\ acceptedGeneration = serverGeneration
  /\ IsInjective(queue) /\ ToSet(queue) \subseteq accepted
  /\ job # NoJob /\ job.generation = serverGeneration =>
       job.segment \in accepted /\ job.segment \notin ToSet(queue)
=============================================================================
