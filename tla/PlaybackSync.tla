---------------------------- MODULE PlaybackSync ----------------------------
(***************************************************************************)
(* How the extension and the backend agree on the position of the video:    *)
(* the playback session of the extension (content.ts in Firefox, where it   *)
(* runs in the page, offscreen.ts in Chrome, where the background forwards  *)
(* what happens in the page), its WebSocket, and the gateway's session.     *)
(*                                                                          *)
(* Both ends count seeks in a generation of their own and never exchange    *)
(* it but in the messages that go back: a voice is played only if the two   *)
(* are equal.  Decoding is asynchronous, so a second counter, the playback  *)
(* epoch, drops what a seek or a pause has overtaken.  Subtitles go through *)
(* TtsSubtitleSync, which holds them until their voice starts, and the      *)
(* SubtitleCueScheduler, whose renderer outlives the sessions.  The end of  *)
(* a session has two halves, before and after it awaits the AudioContext;   *)
(* a new session may start between them.                                    *)
(*                                                                          *)
(* A sentence is its number.  The pipeline is reduced to its generation, to *)
(* the sentences it has heard and not yet translated, and to sending them.  *)
(* Dubbing from captions is left out.                                       *)
(***************************************************************************)
EXTENDS Naturals, Sequences, FiniteSets

CONSTANTS
  MaxSessions,    \* bound: sessions of the page
  MaxGeneration,  \* bound: the extension's generation
  MaxEpoch,       \* bound: the playback epoch up to which the user pauses
  MaxSentences    \* bound: sentences spoken

ASSUME PlaybackAssumption ==
  /\ {MaxSessions, MaxEpoch, MaxSentences} \subseteq Nat
  /\ MaxGeneration \in Nat \ {0}

Sessions == 1..MaxSessions
Sentences == 1..MaxSentences

VARIABLES
  browser,        \* "firefox": the session runs in the page, "chrome": offscreen
  session,        \* the session of the extension, 0: null
  started,        \* sessions started so far
  phase,          \* of the session: socket not open, opening, SESSION_READY
                  \* received, or its start has failed
  ending,         \* clean-ups that await the AudioContext, and their socket
  generation, playbackEpoch,  \* of the session
  paused,         \* the video is paused
  decoding,       \* voices in decodeAudioData, with what was captured
  audio,          \* voices scheduled in the AudioMixer
  held,           \* TtsSubtitleSync: subtitles waiting for a timer
  cues,           \* SubtitleCueScheduler: the cue on display and the queued ones
  cueGeneration,  \* SubtitleCueScheduler: generation
  toServer, toClient,        \* messages in flight, per session
  gateway, serverGeneration, \* the gateway's session and its pipeline
  inPipeline,     \* sentences the pipeline has heard and not sent yet
  heard,          \* history: sentences captured so far
  refused         \* history: cues of the current generation that were refused

player == <<browser, session, started, phase, ending, generation, playbackEpoch, paused>>
sound == <<decoding, audio>>
subtitles == <<held, cues, cueGeneration, refused>>
server == <<gateway, serverGeneration, inPipeline, heard>>
wires == <<toServer, toClient>>
vars == <<player, sound, subtitles, server, wires>>

Requests == [kind : {"start", "seek", "audio", "stop"}, sentence : 0..MaxSentences]
Messages == [kind : {"ready", "error", "subtitle", "syncedSubtitle", "tts"},
             sentence : 0..MaxSentences, generation : Nat]
Voices == [session : Sessions, sentence : Sentences, generation : Nat, epoch : Nat]
Cues == [session : Sessions, sentence : Sentences, generation : Nat]
Cleanups == [session : Sessions, ws : {"connecting", "open"}]

Init ==
  /\ browser \in {"chrome", "firefox"}
  /\ session = 0 /\ started = 0 /\ phase = "none" /\ ending = {}
  /\ generation = 1 /\ playbackEpoch = 1 /\ paused = FALSE
  /\ decoding = {} /\ audio = {} /\ held = {} /\ cues = {} /\ cueGeneration = 0
  /\ toServer = [s \in Sessions |-> <<>>]
  /\ toClient = [s \in Sessions |-> <<>>]
  /\ gateway = [s \in Sessions |-> "none"]
  /\ serverGeneration = [s \in Sessions |-> 1]
  /\ inPipeline = [s \in Sessions |-> {}]
  /\ heard = 0 /\ refused = {}

(* What the extension sends, and what the pipeline sends back.              *)
Request(kind) == [kind |-> kind, sentence |-> 0]
Audio(n) == [kind |-> "audio", sentence |-> n]
Sent(kind, n, g) == [kind |-> kind, sentence |-> n, generation |-> g]

Cleanup(ws) == [session |-> session, ws |-> ws]
-----------------------------------------------------------------------------
(* A new playback session.  The clean-up of one that failed may still be    *)
(* waiting.                                                                 *)
StartSession ==
  /\ session = 0 /\ started < MaxSessions
  /\ session' = started + 1 /\ started' = started + 1
  /\ phase' = "connecting" /\ generation' = 1 /\ playbackEpoch' = 1
  /\ UNCHANGED <<browser, ending, paused, sound, subtitles, server, wires>>

(* onopen: it does not ask whether the start has failed.                    *)
SocketOpens ==
  /\ \/ phase = "connecting" /\ phase' = "opening" /\ UNCHANGED ending
     \/ /\ phase = "failing" /\ Cleanup("connecting") \in ending
        /\ ending' = (ending \ {Cleanup("connecting")}) \union {Cleanup("open")}
        /\ UNCHANGED phase
  /\ toServer' = [toServer EXCEPT ![session] = Append(@, Request("start"))]
  /\ UNCHANGED <<browser, session, started, generation, playbackEpoch, paused, sound,
                 subtitles, server, toClient>>

(* What a seek and a pause have in common: no voice goes on and no held     *)
(* subtitle of the session is shown.                                        *)
Silence == audio' = {} /\ held' = {c \in held : c.session # session}

(* The user seeks.  In Chrome the background forwards a seek only to a      *)
(* session it believes to be ACTIVE; in Firefox the page handles it at once *)
(* and tells the backend if the socket is open.                             *)
Seek ==
  /\ session # 0 /\ generation < MaxGeneration
  /\ browser = "firefox" \/ phase = "ready"
  /\ generation' = generation + 1 /\ playbackEpoch' = playbackEpoch + 1
  /\ Silence
  /\ toServer' = IF phase \in {"opening", "ready"} \/ Cleanup("open") \in ending
                 THEN [toServer EXCEPT ![session] = Append(@, Request("seek"))]
                 ELSE toServer
  /\ UNCHANGED <<browser, session, started, phase, ending, paused, decoding, cues,
                 cueGeneration, refused, server, toClient>>

(* The user pauses: the backend is not told.                                *)
Pause ==
  /\ ~paused /\ playbackEpoch < MaxEpoch
  /\ paused' = TRUE
  /\ IF session # 0 /\ (browser = "firefox" \/ phase = "ready")
     THEN playbackEpoch' = playbackEpoch + 1 /\ Silence
     ELSE UNCHANGED <<playbackEpoch, audio, held>>
  /\ UNCHANGED <<browser, session, started, phase, ending, generation, decoding, cues,
                 cueGeneration, refused, server, wires>>

Resume ==
  /\ paused /\ paused' = FALSE
  /\ UNCHANGED <<browser, session, started, phase, ending, generation, playbackEpoch, sound,
                 subtitles, server, wires>>

(* The video plays and the PCM of a sentence is sent.                       *)
Capture ==
  /\ phase = "ready" /\ ~paused /\ heard < MaxSentences
  /\ heard' = heard + 1
  /\ toServer' = [toServer EXCEPT ![session] = Append(@, Audio(heard + 1))]
  /\ UNCHANGED <<player, sound, subtitles, gateway, serverGeneration, inPipeline, toClient>>

(* Before the await of a clean-up: the mixer is disconnected, no voice goes *)
(* on.  It is done once for a session.                                      *)
CleanupBegins ==
  /\ audio' = {}
  /\ ending' = IF phase = "failing" THEN ending
               ELSE ending \union {Cleanup(IF phase = "connecting" THEN "connecting" ELSE "open")}

(* The start fails or times out: it is cleaned up, but stays the session of *)
(* the extension.                                                           *)
StartFails ==
  /\ phase \in {"connecting", "opening"}
  /\ phase' = "failing"
  /\ CleanupBegins
  /\ UNCHANGED <<browser, session, started, generation, playbackEpoch, paused, decoding,
                 subtitles, server, toServer>>

(* The end of a session, asked for or after a failure.  Only in Chrome are  *)
(* the held subtitles dropped at once; the decodes cannot be recalled.      *)
EndSession ==
  /\ session' = 0 /\ phase' = "none" /\ playbackEpoch' = playbackEpoch + 1
  /\ CleanupBegins
  /\ held' = IF browser = "chrome" THEN {c \in held : c.session # session} ELSE held
  /\ UNCHANGED <<browser, started, generation, paused, decoding, cues, cueGeneration,
                 refused, server, toServer>>

StopSession == session # 0 /\ EndSession /\ UNCHANGED toClient

(* Faulty: the subtitles stay on display.                                   *)
CleanupWithoutHiding(e) ==
  /\ ending' = ending \ {e}
  /\ toServer' = IF e.ws = "open"
                 THEN [toServer EXCEPT ![e.session] = Append(@, Request("stop"))]
                 ELSE toServer
  /\ held' = {c \in held : c.session # e.session}
  /\ UNCHANGED <<browser, session, started, phase, generation, playbackEpoch, paused, sound,
                 cues, cueGeneration, refused, server, toClient>>

(* The AudioContext is closed: the socket is closed, and in Firefox what is *)
(* on display is hidden and the last scheduled voice stopped, whichever     *)
(* session they are of.                                                     *)
CleanupContinues(e) ==
  /\ ending' = ending \ {e}
  /\ toServer' = IF e.ws = "open"
                 THEN [toServer EXCEPT ![e.session] = Append(@, Request("stop"))]
                 ELSE toServer
  /\ IF browser = "firefox"
     THEN /\ held' = {c \in held : c.session # e.session} /\ cues' = {}
          /\ \E stopped \in {{}} \union {{v} : v \in audio} : audio' = audio \ stopped
     ELSE UNCHANGED <<held, cues, audio>>
  /\ UNCHANGED <<browser, session, started, phase, generation, playbackEpoch, paused, decoding,
                 cueGeneration, refused, server, toClient>>
-----------------------------------------------------------------------------
(* push of SubtitleCueScheduler, if it accepts the cue.                     *)
Push(c) ==
  IF c.generation < cueGeneration
  THEN /\ refused' = refused \union {x \in {c} : x.generation = generation}
       /\ UNCHANGED <<cues, cueGeneration>>
  ELSE /\ cues' = (IF c.generation > cueGeneration THEN {} ELSE cues) \union {c}
       /\ cueGeneration' = c.generation
       /\ UNCHANGED refused

(* showNow of SubtitleCueScheduler, if it accepts the cue.                  *)
ShowNow(c) ==
  IF c.generation < cueGeneration
  THEN /\ refused' = refused \union {x \in {c} : x.generation = generation}
       /\ UNCHANGED <<cues, cueGeneration>>
  ELSE cues' = {c} /\ cueGeneration' = c.generation /\ UNCHANGED refused

(* The next message of session s reaches the extension: nothing is done for *)
(* a session that is over.                                                  *)
ClientReceives(s) ==
  /\ toClient[s] # <<>>
  /\ toClient' = [toClient EXCEPT ![s] = Tail(@)]
  /\ LET m == Head(toClient[s])
         cue == [session |-> s, sentence |-> m.sentence, generation |-> m.generation]
     IN  CASE s # session ->
                UNCHANGED <<player, sound, subtitles, server, toServer>>
           [] s = session /\ m.kind = "ready" ->
                /\ phase' = IF phase = "opening" THEN "ready" ELSE phase
                /\ UNCHANGED <<browser, session, started, ending, generation, playbackEpoch,
                               paused, sound, subtitles, server, toServer>>
           [] s = session /\ m.kind = "error" ->
                StartFails \/ (phase \notin {"connecting", "opening"} /\ EndSession)
           [] s = session /\ m.kind = "subtitle" ->
                /\ Push(cue)
                /\ UNCHANGED <<player, sound, held, server, toServer>>
           [] s = session /\ m.kind = "syncedSubtitle" ->
                /\ held' = held \union {cue}
                /\ UNCHANGED <<player, sound, cues, cueGeneration, refused, server, toServer>>
           [] s = session /\ m.kind = "tts" ->
                /\ decoding' = IF m.generation # generation THEN decoding
                               ELSE decoding \union
                                 {[session |-> s, sentence |-> m.sentence,
                                   generation |-> m.generation, epoch |-> playbackEpoch]}
                /\ UNCHANGED <<player, audio, subtitles, server, toServer>>

(* Faulty: only the session is looked at when the decode is over.           *)
DecodedUnchecked(v) ==
  /\ v \in decoding
  /\ decoding' = decoding \ {v}
  /\ audio' = IF v.session = session THEN audio \union {v} ELSE audio
  /\ UNCHANGED <<player, subtitles, server, wires>>

(* decodeAudioData settles: the voice is scheduled, unless a seek, a pause  *)
(* or a stop came first, the mixer's backlog is too long or the decode      *)
(* failed.                                                                  *)
Decoded(v) ==
  /\ v \in decoding
  /\ decoding' = decoding \ {v}
  /\ \/ UNCHANGED audio
     \/ /\ v.session = session /\ v.generation = generation /\ v.epoch = playbackEpoch
        /\ audio' = audio \union {v}
  /\ UNCHANGED <<player, subtitles, server, wires>>

(* A scheduled voice has been played.                                       *)
AudioEnds(v) ==
  /\ v \in audio
  /\ audio' = audio \ {v}
  /\ UNCHANGED <<player, decoding, subtitles, server, wires>>

(* The timer of a held subtitle: its voice starts, or did not come in time. *)
(* It shows nothing of a session that is over.                              *)
Release(c) ==
  /\ c \in held
  /\ held' = held \ {c}
  /\ IF c.session = session THEN ShowNow(c) ELSE UNCHANGED <<cues, cueGeneration, refused>>
  /\ UNCHANGED <<player, sound, server, wires>>

(* The time of a cue is over.                                               *)
CueEnds(c) ==
  /\ c \in cues
  /\ cues' = cues \ {c}
  /\ UNCHANGED <<player, sound, held, cueGeneration, refused, server, wires>>
-----------------------------------------------------------------------------
(* Faulty: the pipeline opens its new stream in a generation of its own.    *)
PipelineSeeksTwice(s) ==
  /\ serverGeneration' = [serverGeneration EXCEPT ![s] = @ + 2]
  /\ inPipeline' = [inPipeline EXCEPT ![s] = {}]

(* handleSeek of the pipeline: what it has not sent yet is dropped.         *)
PipelineSeeks(s) ==
  /\ serverGeneration' = [serverGeneration EXCEPT ![s] = @ + 1]
  /\ inPipeline' = [inPipeline EXCEPT ![s] = {}]

(* The gateway handles the next message of the socket of s: while the       *)
(* models are loading it ignores everything, and the end of the socket      *)
(* gives the start up.                                                      *)
GatewayReceives(s) ==
  /\ toServer[s] # <<>>
  /\ toServer' = [toServer EXCEPT ![s] = Tail(@)]
  /\ LET m == Head(toServer[s])
     IN  \/ /\ m.kind \in {"start", "stop"}
            /\ gateway' = [gateway EXCEPT ![s] =
                             IF m.kind = "start" THEN "starting" ELSE "closed"]
            /\ UNCHANGED <<serverGeneration, inPipeline>>
         \/ /\ m.kind = "seek" /\ gateway[s] = "active"
            /\ PipelineSeeks(s) /\ UNCHANGED gateway
         \/ /\ m.kind = "audio" /\ gateway[s] = "active"
            /\ inPipeline' = [inPipeline EXCEPT ![s] = @ \union {m.sentence}]
            /\ UNCHANGED <<gateway, serverGeneration>>
         \/ /\ m.kind \in {"seek", "audio"} /\ gateway[s] # "active"
            /\ UNCHANGED <<gateway, serverGeneration, inPipeline>>
  /\ UNCHANGED <<player, sound, subtitles, heard, toClient>>

(* startSession ends: the models are loaded, or the session is refused.     *)
GatewayAnswers(s) ==
  /\ gateway[s] = "starting"
  /\ \/ /\ gateway' = [gateway EXCEPT ![s] = "active"]
        /\ toClient' = [toClient EXCEPT ![s] = Append(@, Sent("ready", 0, 0))]
     \/ /\ gateway' = [gateway EXCEPT ![s] = "closed"]
        /\ toClient' = [toClient EXCEPT ![s] = Append(@, Sent("error", 0, 0))]
  /\ UNCHANGED <<player, sound, subtitles, serverGeneration, inPipeline, heard, toServer>>

(* The pipeline sends the first sentence it holds: a subtitle alone, or a   *)
(* subtitle to be held and its voice behind it.                             *)
PipelineSpeaks(s) ==
  /\ gateway[s] = "active"
  /\ \E n \in inPipeline[s] :
       /\ \A k \in inPipeline[s] : n <= k
       /\ inPipeline' = [inPipeline EXCEPT ![s] = @ \ {n}]
       /\ LET g == serverGeneration[s]
          IN  \E said \in {<<Sent("subtitle", n, g)>>,
                           <<Sent("syncedSubtitle", n, g), Sent("tts", n, g)>>} :
                toClient' = [toClient EXCEPT ![s] = @ \o said]
  /\ UNCHANGED <<player, sound, subtitles, gateway, serverGeneration, heard, toServer>>

Next ==
  \/ StartSession \/ SocketOpens \/ StopSession
  \/ StartFails /\ UNCHANGED toClient
  \/ \E e \in ending : CleanupContinues(e)
  \/ Seek \/ Pause \/ Resume \/ Capture
  \/ \E s \in Sessions :
       ClientReceives(s) \/ GatewayReceives(s) \/ GatewayAnswers(s) \/ PipelineSpeaks(s)
  \/ \E v \in decoding : Decoded(v)
  \/ \E v \in audio : AudioEnds(v)
  \/ \E c \in held : Release(c)
  \/ \E c \in cues : CueEnds(c)

Spec == Init /\ [][Next]_vars
-----------------------------------------------------------------------------
TypeOK ==
  /\ browser \in {"chrome", "firefox"}
  /\ session \in {0, started} /\ started \in 0..MaxSessions
  /\ phase \in {"none", "connecting", "opening", "ready", "failing"}
  /\ ending \subseteq Cleanups
  /\ generation \in 1..MaxGeneration /\ playbackEpoch \in Nat /\ paused \in BOOLEAN
  /\ decoding \subseteq Voices /\ audio \subseteq Voices
  /\ held \subseteq Cues /\ cues \subseteq Cues /\ refused \subseteq Cues
  /\ cueGeneration \in 0..MaxGeneration
  /\ toServer \in [Sessions -> Seq(Requests)]
  /\ toClient \in [Sessions -> Seq(Messages)]
  /\ gateway \in [Sessions -> {"none", "starting", "active", "closed"}]
  /\ serverGeneration \in [Sessions -> 1..MaxGeneration]
  /\ inPipeline \in [Sessions -> SUBSET Sentences]
  /\ heard \in 0..MaxSentences

(* Besides the types: a voice that is being decoded, or is scheduled, when  *)
(* the user seeks, pauses or stops is not heard after it; nor is one still  *)
(* in the pipeline or the socket at a seek or a stop.  (At a pause that one *)
(* is heard: NoVoiceWhilePaused.)                                           *)
VoiceOfThisPosition ==
  /\ TypeOK
  /\ \A v \in audio :
       v.session = session /\ v.generation = generation /\ v.epoch = playbackEpoch

(* The seeks on their way in a socket.                                      *)
Seeks(q) == {i \in DOMAIN q : q[i].kind = "seek"}

(* In Chrome the two counters agree but for the seeks on their way: if they *)
(* did not, every further voice would be dropped.                           *)
GenerationsAgree ==
  browser = "chrome" /\ phase = "ready" =>
    generation = serverGeneration[session] + Cardinality(Seeks(toServer[session]))

(* The README: after a seek the voice goes on from the new position.  What   *)
(* the pipeline says of its present position is not thrown away when no     *)
(* seek is on its way.                                                      *)
NewPositionIsVoiced ==
  phase = "ready" /\ Seeks(toServer[session]) = {} =>
    \A i \in DOMAIN toClient[session] :
      LET m == toClient[session][i]
      IN  m.kind = "tts" /\ m.generation = serverGeneration[session]
          => m.generation = generation

CueHasOwner ==
  browser = "firefox" => \A c \in cues \union held :
    c.session = session \/ \E e \in ending : e.session = c.session

NoLateCue == browser = "firefox" => \A c \in cues' \ cues : c.session = session

(* In Firefox, although a clean-up hides the subtitles only after it has    *)
(* awaited the AudioContext: what every step leaves on display or held is   *)
(* of the running session or of one whose clean-up still waits, and nothing *)
(* of a session that is over appears any more.                              *)
CuesOfThisSession == [][CueHasOwner' /\ NoLateCue]_vars

(* The end of a session leaves the next one alone.  It does not hold: the   *)
(* clean-up of a session that failed may go on when the next one has begun  *)
(* to speak.                                                                *)
EndLeavesNextSession ==
  [][\A e \in ending \ ending' : session \notin {0, e.session} => cues \subseteq cues']_vars

(* The checklist: TTS does not continue while paused.  It does not hold: a  *)
(* voice that comes from the socket after the pause is scheduled.           *)
NoVoiceWhilePaused == paused => audio = {}

(* The checklist: after a seek stale subtitles are cancelled; what appears  *)
(* is of the new position.  It does not hold: one that was on its way is    *)
(* still shown.                                                             *)
NewCueIsCurrent == [][\A c \in cues' \ cues : c.generation = generation]_vars

(* The scheduler refuses only the cues from before a seek.  It does not     *)
(* hold: it remembers the seeks of an earlier session.                      *)
CurrentCueAccepted == refused = {}
=============================================================================
