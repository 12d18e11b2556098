---------------------------- MODULE VoicePlayback ----------------------------
(***************************************************************************)
(* What becomes of a dubbed sentence once it has reached the browser: its   *)
(* subtitle waits in TtsSubtitleSync for the voice, the voice is decoded    *)
(* (whole voices) or cut into pieces by the backend (streamed ones, taken   *)
(* by TtsStreamReceiver), the AudioMixer schedules it after the voices it   *)
(* has scheduled before, and the SubtitleCueScheduler shows the subtitle.   *)
(* PlaybackSync asks which position of the video all this belongs to; this  *)
(* module asks when it is heard and seen.                                   *)
(*                                                                          *)
(* Time is counted in ticks and every time is kept relative to now, so that *)
(* AudioContext.currentTime never appears.  Timers of the page may run late *)
(* and may run before the next tick.  A speed-up of the voice is a shorter  *)
(* length.  How long a cue stays on the screen is left open.                *)
(***************************************************************************)
EXTENDS Naturals, Sequences, FiniteSets, SequencesExt

CONSTANTS
  MaxSegments,    \* bound: sentences the backend sends
  MaxParts,       \* bound: parts of the voice of one sentence
  MaxLength,      \* bound: ticks a part lasts
  MaxStops,       \* bound: pauses and seeks of the user
  MaxBacklog,     \* DEFAULT_MAX_TTS_BACKLOG_MS
  Fallback,       \* TTS_SUBTITLE_FALLBACK_MS
  MaxOpen,        \* MAX_OPEN_SEGMENTS of the receiver
  MaxQueued       \* maxQueued of the cue scheduler

ASSUME VoiceAssumption ==
  /\ {MaxSegments, MaxStops, MaxBacklog, Fallback} \subseteq Nat
  /\ {MaxParts, MaxLength, MaxOpen, MaxQueued} \subseteq Nat \ {0}

Segments == 1..MaxSegments

VARIABLES
  streaming,      \* the backend streams its voices: fixed for a session
  sent,           \* what the backend has sent: per segment its generation, and
                  \* whether the subtitle is to wait for a voice
  voicing, part,  \* the segment whose voice is being sent and its parts so far
  generation,     \* of the session; each seek raises it
  heardOf,        \* the generation the backend has heard of
  stops,          \* pauses and seeks so far
  decoding,       \* parts in decodeAudioData; fresh: the epoch has not changed
  backlog,        \* AudioMixer: nextTTSStartTime - currentTime
  playing,        \* AudioMixer: ttsSources
  open,           \* TtsStreamReceiver: segments
  screen          \* TtsSubtitleSync and SubtitleCueScheduler, see Screens

backend == <<streaming, sent, voicing, part, heardOf>>
sound == <<decoding, backlog, playing, open>>
vars == <<backend, generation, stops, sound, screen>>

(* held: fallback timers; waiting: subtitles whose voice has been           *)
(* scheduled; current: the cue on the screen, a sequence because mergeOldest*)
(* joins cues; shown counts how often a segment was displayed; gone are the *)
(* segments the code gave up on purpose.                                    *)
Screens ==
  [held : SUBSET [segment : Segments, left : 0..Fallback],
   waiting : SUBSET [segment : Segments, left : Nat],
   current : Seq(Segments), queue : Seq(Seq(Segments)), generation : Nat,
   shown : [Segments -> Nat], gone : SUBSET Segments]

TypeOK ==
  /\ streaming \in BOOLEAN
  /\ sent \in Seq([generation : Nat, synced : BOOLEAN]) /\ Len(sent) <= MaxSegments
  /\ voicing \in 0..Len(sent) /\ part \in 0..MaxParts
  /\ generation \in 1..(MaxStops + 1) /\ heardOf \in 1..generation /\ stops \in 0..MaxStops
  /\ decoding \subseteq [segment : Segments, part : 1..MaxParts, fresh : BOOLEAN]
  /\ backlog \in Nat
  /\ playing \subseteq [segment : Segments, from : Nat, upto : Nat]
  /\ open \subseteq [segment : Segments, dropped : BOOLEAN, scheduledFirst : BOOLEAN]
  /\ screen \in Screens

Init ==
  /\ streaming \in BOOLEAN
  /\ sent = <<>> /\ voicing = 0 /\ part = 0 /\ heardOf = 1
  /\ generation = 1 /\ stops = 0
  /\ decoding = {} /\ backlog = 0 /\ playing = {} /\ open = {}
  /\ screen = [held |-> {}, waiting |-> {}, current |-> <<>>, queue |-> <<>>,
               generation |-> 0, shown |-> [s \in Segments |-> 0], gone |-> {}]
-----------------------------------------------------------------------------
(* SubtitleCueScheduler.  The generation of a cue is that of its segment.   *)
Display(scr, cue) ==
  [scr EXCEPT !.current = cue,
              !.shown = [s \in Segments |-> IF s \in ToSet(cue) THEN @[s] + 1 ELSE @[s]]]

QueuedIn(scr) == UNION {ToSet(scr.queue[i]) : i \in DOMAIN scr.queue}

Forget(scr, segments) == [scr EXCEPT !.gone = @ \union segments]

ShowNext(scr) ==
  IF scr.queue = <<>> THEN [scr EXCEPT !.current = <<>>]
  ELSE Display([scr EXCEPT !.queue = Tail(@)], Head(scr.queue))

(* The two oldest cues become one when more than maxQueued are waiting.     *)
MergeOldest(queue) ==
  IF Len(queue) <= MaxQueued THEN queue
  ELSE <<queue[1] \o queue[2]>> \o SubSeq(queue, 3, Len(queue))

PushOnlyQueues(scr, s, g) ==
  IF g < scr.generation THEN Forget(scr, {s})
  ELSE [scr EXCEPT !.generation = g, !.queue = MergeOldest(Append(@, <<s>>))]

Push(scr, s, g) ==
  IF g < scr.generation THEN Forget(scr, {s})
  ELSE LET clean == IF g = scr.generation THEN scr
                    ELSE [Forget(scr, QueuedIn(scr)) EXCEPT !.generation = g, !.queue = <<>>,
                                                            !.current = <<>>]
           queued == [clean EXCEPT !.queue = MergeOldest(Append(@, <<s>>))]
       IN IF queued.current = <<>> THEN ShowNext(queued) ELSE queued

ShowNow(scr, s, g) ==
  IF g < scr.generation THEN Forget(scr, {s})
  ELSE Display([Forget(scr, QueuedIn(scr)) EXCEPT !.generation = g, !.queue = <<>>], <<s>>)

(* TtsSubtitleSync *)
Held(scr, s) == {h \in scr.held : h.segment = s}

Offer(scr, s) ==
  [scr EXCEPT !.held = (@ \ Held(scr, s)) \union {[segment |-> s, left |-> Fallback]}]

Release(scr, s) == ShowNow(scr, s, sent[s].generation)

(* Releases at most once: the second caller finds nothing held.             *)
ReleaseHeld(scr, s) ==
  IF Held(scr, s) = {} THEN scr
  ELSE Release([scr EXCEPT !.held = @ \ Held(scr, s)], s)

TtsDropped(scr, s) == ReleaseHeld(scr, s)

TtsScheduled(scr, s, delay) ==
  IF Held(scr, s) = {} THEN scr
  ELSE LET taken == [scr EXCEPT !.held = @ \ Held(scr, s)]
       IN IF delay = 0 THEN Release(taken, s)
          ELSE [taken EXCEPT !.waiting = @ \union {[segment |-> s, left |-> delay]}]

ClearSync(scr) ==
  [Forget(scr, {x.segment : x \in scr.held \union scr.waiting})
     EXCEPT !.held = {}, !.waiting = {}]
-----------------------------------------------------------------------------
(* AudioMixer: a source starts when the one before it ends, or now.         *)
Source(s, length) == [segment |-> s, from |-> backlog, upto |-> backlog + length]

ScheduleNow(s, length) ==
  /\ playing' = playing \union {[segment |-> s, from |-> 0, upto |-> length]}
  /\ backlog' = length

Schedule(s, length) ==
  /\ playing' = playing \union {Source(s, length)}
  /\ backlog' = backlog + length

NeverTooLong == FALSE

IsTtsBacklogTooLong == backlog > MaxBacklog

(* The backend sends a segment: its subtitle, and whether a voice follows.  *)
SubtitleArrives ==
  /\ Len(sent) < MaxSegments
  /\ \E synced \in BOOLEAN :
       /\ sent' = Append(sent, [generation |-> heardOf, synced |-> synced])
       /\ LET s == Len(sent) + 1
          IN screen' = IF synced THEN Offer(screen, s) ELSE Push(screen, s, heardOf)
  /\ UNCHANGED <<streaming, voicing, part, heardOf, generation, stops, sound>>

(* The voices are sent in the order of the segments, one after the other;   *)
(* a voice may fail in the backend and never be sent.                       *)
NextPart(s) ==
  /\ \/ voicing = s /\ part \in 1..(MaxParts - 1) /\ part' = part + 1
     \/ voicing < s /\ part' = 1
  /\ s <= Len(sent) /\ sent[s].synced /\ sent[s].generation = heardOf
  /\ voicing' = s
  /\ UNCHANGED <<streaming, sent, heardOf>>

(* A whole part: decoding starts if it is of the session's generation.      *)
PartArrives(s) ==
  /\ ~streaming /\ NextPart(s)
  /\ decoding' = IF heardOf = generation
                 THEN decoding \union {[segment |-> s, part |-> part', fresh |-> TRUE]}
                 ELSE decoding
  /\ UNCHANGED <<generation, stops, backlog, playing, open, screen>>

(* decodeAudioData answers, in any order.  What a pause or a seek has       *)
(* overtaken is thrown away; what is too late is not scheduled.             *)
Decoded(d) ==
  /\ d \in decoding /\ decoding' = decoding \ {d}
  /\ IF ~d.fresh THEN UNCHANGED <<backlog, playing, screen>>
     ELSE IF IsTtsBacklogTooLong
     THEN screen' = TtsDropped(screen, d.segment) /\ UNCHANGED <<backlog, playing>>
     ELSE /\ \E length \in 1..MaxLength : Schedule(d.segment, length)
          /\ screen' = TtsScheduled(screen, d.segment, backlog)
  /\ UNCHANGED <<backend, generation, stops, open>>

DecodingFails(d) ==
  /\ d \in decoding /\ decoding' = decoding \ {d}
  /\ screen' = TtsDropped(screen, d.segment)
  /\ UNCHANGED <<backend, generation, stops, backlog, playing, open>>
-----------------------------------------------------------------------------
(* TtsStreamReceiver.  Segments are opened in order: of too many, the one   *)
(* with the least number is the oldest.  That a voice breaks off without    *)
(* its closing piece is what MAX_OPEN_SEGMENTS is for.                      *)
OpenOf(s) == {o \in open : o.segment = s}

Newest(opened) ==
  {o \in opened : Cardinality({p \in opened : p.segment > o.segment}) < MaxOpen}

(* The first piece of a segment decides whether all of it is heard.         *)
OpenSegment(s) ==
  [segment |-> s, dropped |-> IsTtsBacklogTooLong, scheduledFirst |-> FALSE]

(* A piece of segment o, the others staying as they are.  Length 0: the     *)
(* time stretcher keeps the samples for the next piece.                     *)
PieceOf(o, others, length, final) ==
  /\ IF length = 0 THEN UNCHANGED <<backlog, playing>> ELSE Schedule(o.segment, length)
  /\ screen' = IF ~o.scheduledFirst /\ length > 0 THEN TtsScheduled(screen, o.segment, backlog)
               ELSE IF ~o.scheduledFirst /\ final THEN TtsDropped(screen, o.segment)
               ELSE screen
  /\ open' = IF final THEN others
             ELSE others \union {[o EXCEPT !.scheduledFirst = @ \/ length > 0]}

Handle(s, length, final) ==
  LET new == OpenSegment(s)
      opened == Newest(open \union {new})
  IN \/ /\ OpenOf(s) = {} /\ final
        /\ UNCHANGED <<backlog, playing, open, screen>>
     \/ /\ OpenOf(s) = {} /\ ~final /\ new.dropped
        /\ open' = opened /\ screen' = TtsDropped(screen, s)
        /\ UNCHANGED <<backlog, playing>>
     \/ /\ OpenOf(s) = {} /\ ~final /\ ~new.dropped
        /\ PieceOf(new, opened \ {new}, length, final)
     \/ \E o \in OpenOf(s) :
          \/ /\ o.dropped
             /\ open' = IF final THEN open \ {o} ELSE open
             /\ UNCHANGED <<backlog, playing, screen>>
          \/ ~o.dropped /\ PieceOf(o, open \ {o}, length, final)

PieceArrives(s) ==
  /\ streaming /\ NextPart(s)
  /\ IF heardOf = generation
     THEN \E length \in 0..MaxLength : Handle(s, length, part' = MaxParts)
     ELSE UNCHANGED <<backlog, playing, open, screen>>
  /\ UNCHANGED <<generation, stops, decoding>>
-----------------------------------------------------------------------------
SilenceKeepsTimers ==
  /\ playing' = {} /\ backlog' = 0 /\ open' = {}
  /\ decoding' = {[d EXCEPT !.fresh = FALSE] : d \in decoding}
  /\ screen' = [Forget(screen, {h.segment : h \in screen.held}) EXCEPT !.held = {}]

(* stopTTS, whose listeners reset the receiver, and the clearing of the     *)
(* subtitles that wait; the epoch makes every decoding stale.               *)
Silence ==
  /\ playing' = {} /\ backlog' = 0 /\ open' = {}
  /\ decoding' = {[d EXCEPT !.fresh = FALSE] : d \in decoding}
  /\ screen' = ClearSync(screen)

Pause ==
  /\ stops < MaxStops /\ stops' = stops + 1
  /\ Silence
  /\ UNCHANGED <<backend, generation>>

Seek ==
  /\ stops < MaxStops /\ stops' = stops + 1
  /\ generation' = generation + 1
  /\ Silence
  /\ UNCHANGED backend

(* SEEK_EVENT reaches the backend.                                          *)
BackendHearsSeek ==
  /\ heardOf < generation /\ heardOf' = generation
  /\ UNCHANGED <<streaming, sent, voicing, part, generation, stops, sound, screen>>

(* The timers of the page.                                                  *)
FallbackExpires(h) ==
  /\ h \in screen.held /\ h.left = 0
  /\ screen' = ReleaseHeld(screen, h.segment)
  /\ UNCHANGED <<backend, generation, stops, sound>>

VoiceBegins(w) ==
  /\ w \in screen.waiting /\ w.left = 0
  /\ screen' = Release([screen EXCEPT !.waiting = @ \ {w}], w.segment)
  /\ UNCHANGED <<backend, generation, stops, sound>>

CueExpires ==
  /\ screen.current # <<>>
  /\ screen' = ShowNext(screen)
  /\ UNCHANGED <<backend, generation, stops, sound>>

Less(n) == IF n = 0 THEN 0 ELSE n - 1
Later(timers) == {[t EXCEPT !.left = Less(@)] : t \in timers}

Tick ==
  /\ backlog > 0 \/ \E t \in screen.held \union screen.waiting : t.left > 0
  /\ backlog' = Less(backlog)
  /\ playing' = {[p EXCEPT !.from = Less(@), !.upto = Less(@)] :
                  p \in {q \in playing : q.upto > 1}}
  /\ screen' = [screen EXCEPT !.held = Later(@), !.waiting = Later(@)]
  /\ UNCHANGED <<backend, generation, stops, decoding, open>>

Timers ==
  \/ \E h \in screen.held : FallbackExpires(h)
  \/ \E w \in screen.waiting : VoiceBegins(w)
  \/ CueExpires

Next ==
  \/ SubtitleArrives \/ Pause \/ Seek \/ BackendHearsSeek
  \/ \E s \in Segments : PartArrives(s) \/ PieceArrives(s)
  \/ \E d \in decoding : Decoded(d) \/ DecodingFails(d)
  \/ Timers \/ Tick

(* The browser runs its clocks and its timers; nobody else owes anything.   *)
Fairness == WF_vars(Tick) /\ WF_vars(Timers)

Spec == Init /\ [][Next]_vars /\ Fairness
-----------------------------------------------------------------------------
(* Two voices are never heard at once (mixer.ts schedules each after the    *)
(* last), what is scheduled fills the backlog without a source beyond it,   *)
(* and the pieces of streamed voices are heard in the order they came.      *)
VoicesInTurn ==
  \A p, q \in playing :
    /\ p # q => p.upto <= q.from \/ q.upto <= p.from
    /\ p.upto <= backlog
    /\ streaming /\ p.upto <= q.from => p.segment <= q.segment

(* The dubbing lags behind the video by the limit and one voice at most,    *)
(* however fast voices arrive and whether or not they come in pieces.       *)
BacklogBounded ==
  backlog <= MaxBacklog + (IF streaming THEN MaxParts * MaxLength ELSE MaxLength)

(* A subtitle whose voice has been scheduled waits for exactly the start of *)
(* a voice of its segment, and no subtitle is displayed twice: the fallback *)
(* timer, the scheduled voice, its failure and a stop never both release it.*)
SubtitleWithVoice ==
  /\ TypeOK
  /\ \A w \in screen.waiting : w.left > 0 =>
       \E p \in playing : p.segment = w.segment /\ p.from = w.left
  /\ \A s \in Segments : screen.shown[s] <= 1

(* Every subtitle that arrives is displayed, whatever happens to its voice, *)
(* unless a pause, a seek or a voice that starts has made it obsolete.      *)
EverySubtitleShown ==
  \A s \in Segments : s <= Len(sent) ~> (screen.shown[s] > 0 \/ s \in screen.gone)
=============================================================================
