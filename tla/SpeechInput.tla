----------------------------- MODULE SpeechInput -----------------------------
(***************************************************************************)
(* From captured audio to recognised speech on the local machine: the       *)
(* pipeline opens a LocalSTTStreamSession, and another one after each seek, *)
(* which buffers audio and sends it in batches, one request at a time, to   *)
(* the speech worker, a Python process.  There a reader thread takes the    *)
(* commands from stdin, handles `cancel` at once and queues the rest for    *)
(* the main thread, which keeps an AudioSession per stream.                 *)
(*                                                                          *)
(* Every request may be refused, time out while the worker still works on   *)
(* it, or die with the worker, whose successor knows no stream: this stands *)
(* for JsonLineWorkerClient, see WorkerClient.  A chunk of audio is its     *)
(* number; which chunks hold speech, and where an utterance ends, is chosen.*)
(***************************************************************************)
EXTENDS Naturals, Sequences, FiniteSets, SequencesExt

CONSTANTS
  MaxStreams,     \* bound: streams the pipeline opens
  MaxChunks,      \* bound: chunks of audio captured
  MaxCrashes,     \* bound: ends of the worker process
  MaxBuffered,    \* maxBufferedMs, in chunks
  MaxBatch,       \* maxRequestMs, in chunks
  MaxFailures,    \* MAX_CONSECUTIVE_FAILURES
  MaxCancelled    \* MAX_CANCEL_ENTRIES

ASSUME SpeechAssumption ==
  /\ {MaxStreams, MaxChunks, MaxCrashes} \subseteq Nat
  /\ {MaxBuffered, MaxBatch, MaxFailures, MaxCancelled} \subseteq Nat \ {0}

Streams == 1..MaxStreams
Chunks == 1..MaxChunks

VARIABLES
  active,         \* the pipeline is active
  stream,         \* the fields of each LocalSTTStreamSession
  captured,       \* chunks captured so far
  awaiting,       \* requests whose promises are not settled
  stdin,          \* commands written and not read yet
  requests,       \* the queue of the main thread
  cancelled,      \* CancellationRegistry: the latest cancelled streams
  sessions,       \* AudioSessions: buffered chunks, by stream
  stdout,         \* answers written and not read yet
  crashes,        \* ends of the worker so far
  finals,         \* history: the chunks reported, utterance by utterance
  abandoned       \* history: streams whose end the worker was never told

node == <<active, stream, captured, finals, abandoned>>
worker == <<requests, cancelled, sessions>>
speechVars == <<node, awaiting, stdin, worker, stdout, crashes>>

Request(s, op, batch) == [stream |-> s, op |-> op, batch |-> batch]

(* closed: the pipeline has let go of the stream.                           *)
NewStream == [opened |-> FALSE, closed |-> FALSE, starting |-> FALSE, started |-> FALSE,
              startFailed |-> FALSE, inFlight |-> FALSE, aborted |-> FALSE,
              failures |-> 0, pending |-> <<>>]

SpeechTypeOK ==
  /\ active \in BOOLEAN /\ captured \in 0..MaxChunks /\ crashes \in 0..MaxCrashes
  /\ \A s \in Streams : LET x == stream[s] IN
       /\ {x.opened, x.closed, x.starting, x.started, x.startFailed, x.inFlight, x.aborted}
            \subseteq BOOLEAN
       /\ x.failures \in 0..MaxFailures
       /\ x.pending \in Seq([chunk : Chunks, gap : BOOLEAN]) /\ Len(x.pending) <= MaxBuffered
       /\ x.inFlight <=> \E r \in awaiting : r.stream = s /\ r.op = "audio"
       /\ x.starting <=> \E r \in awaiting : r.stream = s /\ r.op = "start"
  /\ \A r \in awaiting : r.stream \in Streams /\ r.op \in {"start", "audio", "discard"}
  /\ cancelled \in Seq(Streams) /\ Len(cancelled) <= MaxCancelled
  /\ DOMAIN sessions \subseteq Streams
  /\ finals \in Seq(Chunks) /\ abandoned \subseteq Streams

SpeechInit ==
  /\ active = TRUE /\ stream = [s \in Streams |-> NewStream] /\ captured = 0
  /\ awaiting = {} /\ stdin = <<>> /\ requests = <<>> /\ cancelled = <<>>
  /\ sessions = [s \in {} |-> <<>>] /\ stdout = <<>> /\ crashes = 0
  /\ finals = <<>> /\ abandoned = {}
-----------------------------------------------------------------------------
(* worker.request: the client writes the command or refuses it, in which    *)
(* case the promise is settled with an error later.                         *)
SendRequest(r, others) ==
  /\ awaiting' = others \union {r}
  /\ stdin' \in {stdin, Append(stdin, r)}

(* The number of chunks takeBatch joins: as many as fit, up to a gap.       *)
BatchLength(pending) ==
  LET Fits(m) == m <= MaxBatch /\ \A i \in 2..m : ~pending[i].gap
  IN Max({m \in 1..Len(pending) : m = 1 \/ Fits(m)})

(* pump for stream s with fields x, when the promises in others remain.     *)
Pump(s, x, others) ==
  IF x.inFlight \/ x.aborted \/ ~x.started \/ x.pending = <<>>
  THEN stream' = [stream EXCEPT ![s] = x] /\ awaiting' = others /\ UNCHANGED stdin
  ELSE LET n == BatchLength(x.pending)
       IN /\ stream' = [stream EXCEPT ![s] = [x EXCEPT !.inFlight = TRUE,
                                                 !.pending = SubSeq(@, n + 1, Len(@))]]
          /\ SendRequest(Request(s, "audio", [i \in 1..n |-> x.pending[i].chunk]), others)

(* Faulty: a stream that is over may be started again.                      *)
CanAlwaysStart(x) == ~x.starting

(* What startWorkerStream does to the fields, and its request.              *)
CanStart(x) == ~x.starting /\ ~x.aborted
Starting(x) == [x EXCEPT !.starting = TRUE, !.started = FALSE]

(* The stream the pipeline uses: the newest one, 0 for none.                *)
Newest == Cardinality({s \in Streams : stream[s].opened})
Current == IF Newest = 0 \/ stream[Newest].closed THEN 0 ELSE Newest

(* createStream.  Streams follow each other.                                *)
OpenStream ==
  /\ active /\ Current = 0 /\ Newest < MaxStreams
  /\ LET s == Newest + 1
     IN /\ stream' = [stream EXCEPT ![s] = Starting([NewStream EXCEPT !.opened = TRUE])]
        /\ SendRequest(Request(s, "start", <<>>), awaiting)
  /\ UNCHANGED <<active, captured, finals, abandoned, worker, stdout, crashes>>

(* sendAudioChunk: what does not fit pushes the oldest chunks out.          *)
SendAudioChunk(s, chunk) ==
  LET x == stream[s]
      longer == Append(x.pending, chunk)
      excess == Max({0, Len(longer) - MaxBuffered})
  IN IF x.aborted \/ x.startFailed
     THEN UNCHANGED <<stream, awaiting, stdin>>
     ELSE Pump(s, [x EXCEPT !.pending = SubSeq(longer, 1 + excess, Len(longer))], awaiting)

(* handleAudioChunk of the pipeline.  That the budget of the session is     *)
(* spent is a Stop.                                                         *)
HandleAudioChunk ==
  /\ active /\ Current # 0 /\ captured < MaxChunks /\ captured' = captured + 1
  /\ \E gap \in BOOLEAN : SendAudioChunk(Current, [chunk |-> captured', gap |-> gap])
  /\ UNCHANGED <<active, finals, abandoned, worker, stdout, crashes>>

(* abort of stream s with fields x: cancel is always written, end_stream if *)
(* the client has room for it.  A stream that gave up tells nothing.        *)
AbortStream(s, x, others) ==
  IF x.aborted
  THEN /\ stream' = [stream EXCEPT ![s] = [x EXCEPT !.closed = TRUE]]
       /\ abandoned' = abandoned \union {s}
       /\ awaiting' = others /\ UNCHANGED stdin
  ELSE LET discard == Request(s, "discard", <<>>)
       IN /\ stream' = [stream EXCEPT ![s] = [x EXCEPT !.aborted = TRUE, !.pending = <<>>,
                                                       !.closed = TRUE]]
          /\ awaiting' = others \union {discard}
          /\ \/ /\ stdin' = stdin \o <<Request(s, "cancel", <<>>), discard>>
                /\ UNCHANGED abandoned
             \/ /\ stdin' = Append(stdin, Request(s, "cancel", <<>>))
                /\ abandoned' = abandoned \union {s}

(* handleSeek: the old stream is aborted; OpenStream follows.               *)
Seek ==
  /\ active /\ Current # 0 /\ Newest < MaxStreams
  /\ AbortStream(Current, stream[Current], awaiting)
  /\ UNCHANGED <<active, captured, finals, worker, stdout, crashes>>

Stop ==
  /\ active /\ active' = FALSE /\ Current # 0
  /\ AbortStream(Current, stream[Current], awaiting)
  /\ UNCHANGED <<captured, finals, worker, stdout, crashes>>
-----------------------------------------------------------------------------
(* A fatal error makes the pipeline stop, which aborts the stream, unless   *)
(* it is a stream the pipeline has left behind.                             *)
Fatal(s, x, others) ==
  IF s = Current /\ active
  THEN active' = FALSE /\ AbortStream(s, x, others)
  ELSE /\ stream' = [stream EXCEPT ![s] = x] /\ awaiting' = others
       /\ UNCHANGED <<active, stdin, abandoned>>

(* The promise of r is fulfilled, with the utterance recognised, if any.    *)
Fulfilled(r, utterance) ==
  LET s == r.stream  x == stream[s]  others == awaiting \ {r}
  IN /\ finals' = IF x.aborted THEN finals ELSE finals \o utterance
     /\ CASE r.op = "start" -> Pump(s, [x EXCEPT !.starting = FALSE, !.started = TRUE], others)
          [] r.op = "audio" -> Pump(s, [x EXCEPT !.inFlight = FALSE, !.failures = 0], others)
          [] OTHER -> awaiting' = others /\ UNCHANGED <<stream, stdin>>
     /\ UNCHANGED <<active, abandoned>>

(* Faulty: the stream is not started again.                                 *)
NotStartedForgets(r) ==
  /\ stream' = [stream EXCEPT ![r.stream].inFlight = FALSE, ![r.stream].started = FALSE]
  /\ awaiting' = awaiting \ {r}
  /\ UNCHANGED <<active, finals, abandoned, stdin>>

(* The error "stream is not started": the worker is a new one.              *)
NotStarted(r) ==
  LET s == r.stream  x == [stream[r.stream] EXCEPT !.inFlight = FALSE]  others == awaiting \ {r}
  IN /\ IF CanStart(x)
        THEN /\ stream' = [stream EXCEPT ![s] = Starting(x)]
             /\ SendRequest(Request(s, "start", <<>>), others)
        ELSE stream' = [stream EXCEPT ![s] = x] /\ awaiting' = others /\ UNCHANGED stdin
     /\ UNCHANGED <<active, finals, abandoned>>

(* Faulty: the batch that failed is tried again.                            *)
AudioRetries(r) ==
  LET s == r.stream  x == [stream[r.stream] EXCEPT !.inFlight = FALSE]
      again == [i \in DOMAIN r.batch |-> [chunk |-> r.batch[i], gap |-> FALSE]]
      all == again \o x.pending
  IN /\ Pump(s, [x EXCEPT !.pending = SubSeq(all, 1, Min({MaxBuffered, Len(all)}))],
             awaiting \ {r})
     /\ UNCHANGED <<active, abandoned>>

(* Any other error.  One failed request does not end the stream, several in *)
(* a row do.                                                                *)
AudioFails(r) ==
  LET s == r.stream  x == [stream[r.stream] EXCEPT !.inFlight = FALSE]  others == awaiting \ {r}
      counted == [x EXCEPT !.failures = @ + 1]
  IN IF x.aborted
     THEN Pump(s, x, others) /\ UNCHANGED <<active, abandoned>>
     ELSE IF counted.failures >= MaxFailures
     THEN Fatal(s, [counted EXCEPT !.aborted = TRUE, !.pending = <<>>], others)
     ELSE Pump(s, counted, others) /\ UNCHANGED <<active, abandoned>>

StartFails(r) ==
  LET s == r.stream
      x == [stream[s] EXCEPT !.starting = FALSE, !.startFailed = TRUE, !.pending = <<>>]
  IN IF x.aborted
     THEN /\ stream' = [stream EXCEPT ![s] = x] /\ awaiting' = awaiting \ {r}
          /\ UNCHANGED <<active, stdin, abandoned>>
     ELSE Fatal(s, x, awaiting \ {r})

Rejected(r) ==
  /\ CASE r.op = "start" -> StartFails(r)
       [] r.op = "audio" -> AudioFails(r)
       [] OTHER -> awaiting' = awaiting \ {r} /\ UNCHANGED <<active, stream, stdin, abandoned>>
  /\ UNCHANGED finals

(* A line on stdout; of a request that was given up it is ignored.          *)
ReceiveAnswer ==
  /\ stdout # <<>> /\ stdout' = Tail(stdout)
  /\ LET a == Head(stdout)
     IN CASE a.request \notin awaiting -> UNCHANGED <<node, awaiting, stdin>>
          [] a.request \in awaiting /\ a.kind = "ok" -> Fulfilled(a.request, a.utterance)
          [] a.request \in awaiting /\ a.kind = "notStarted" -> NotStarted(a.request)
          [] OTHER -> Rejected(a.request)
  /\ UNCHANGED <<captured, worker, crashes>>

(* Refused by the client, or out of time: the worker may still work on it.  *)
TimesOut(r) ==
  /\ r \in awaiting
  /\ Rejected(r)
  /\ UNCHANGED <<captured, worker, stdout, crashes>>
-----------------------------------------------------------------------------
(* The worker.  read_requests: cancel never waits for the model.            *)
Remember(s) ==
  LET others == RemoveFirst(cancelled, s)
  IN Append(SubSeq(others, 1 + Max({0, Len(others) + 1 - MaxCancelled}), Len(others)), s)

ReadRequest ==
  /\ stdin # <<>> /\ stdin' = Tail(stdin)
  /\ LET r == Head(stdin)
     IN IF r.op = "cancel" THEN cancelled' = Remember(r.stream) /\ UNCHANGED requests
        ELSE requests' = Append(requests, r) /\ UNCHANGED cancelled
  /\ UNCHANGED <<node, awaiting, sessions, stdout, crashes>>

Emit(r, kind, utterance) ==
  stdout' = Append(stdout, [request |-> r, kind |-> kind, utterance |-> utterance])

Discarded(s) == [t \in DOMAIN sessions \ {s} |-> sessions[t]]
Put(s, buffer) == [t \in DOMAIN sessions \union {s} |-> IF t = s THEN buffer ELSE sessions[t]]

StreamCancelled(r) == r.op = "audio" /\ r.stream \in ToSet(cancelled)

(* A cancel that overtook its stream's audio drops the AudioSession.        *)
SkipCancelled(r) ==
  StreamCancelled(r) /\ sessions' = Discarded(r.stream) /\ Emit(r, "cancelled", <<>>)

HandleStart(r) ==
  r.op = "start" /\ sessions' = Put(r.stream, <<>>) /\ Emit(r, "ok", <<>>)

(* What is cut off is recognised, or found to be too short or noise.        *)
Recognised(buffer, cut) == {<<>>, SubSeq(buffer, 1, cut)}

(* The chunks join the utterance.  It may be cut, in mid-speech or at the   *)
(* end of the buffer (at most once in a batch, here); what is behind the cut*)
(* begins the next one.  When the recogniser throws at chunk e, the chunks  *)
(* behind e are never looked at.                                            *)
HandleAudio(r) ==
  /\ r.op = "audio" /\ ~StreamCancelled(r)
  /\ IF r.stream \notin DOMAIN sessions THEN Emit(r, "notStarted", <<>>) /\ UNCHANGED sessions
     ELSE LET kept == sessions[r.stream]
              buffer == kept \o r.batch
          IN \E cut \in 0..Len(buffer) :
               \/ /\ sessions' = Put(r.stream, SubSeq(buffer, cut + 1, Len(buffer)))
                  /\ \E utterance \in Recognised(buffer, cut) : Emit(r, "ok", utterance)
               \/ /\ cut > 0 /\ Emit(r, "error", <<>>)
                  /\ \E e \in Len(kept)..Len(buffer) :
                       sessions' = Put(r.stream, SubSeq(buffer, cut + 1, e))

HandleEnd(r) ==
  r.op = "discard" /\ sessions' = Discarded(r.stream) /\ Emit(r, "ok", <<>>)

HandleRequest ==
  /\ requests # <<>> /\ requests' = Tail(requests)
  /\ LET r == Head(requests)
     IN SkipCancelled(r) \/ HandleStart(r) \/ HandleAudio(r) \/ HandleEnd(r)
  /\ UNCHANGED <<node, awaiting, stdin, cancelled, crashes>>

(* The process ends and is replaced: every promise is rejected, in turn.    *)
WorkerCrashes ==
  /\ crashes < MaxCrashes /\ crashes' = crashes + 1
  /\ stdin' = <<>> /\ requests' = <<>> /\ cancelled' = <<>> /\ sessions' = [s \in {} |-> <<>>]
  /\ stdout' = [i \in 1..Cardinality(awaiting) |->
                  [request |-> SetToSeq(awaiting)[i], kind |-> "error", utterance |-> <<>>]]
  /\ UNCHANGED <<node, awaiting>>

SpeechNext ==
  \/ OpenStream \/ HandleAudioChunk \/ Seek \/ Stop
  \/ ReceiveAnswer \/ \E r \in awaiting : TimesOut(r)
  \/ ReadRequest \/ HandleRequest \/ WorkerCrashes

(* Every request has a timer; the answers and the worker may be slow.       *)
SpeechFairness ==
  /\ WF_speechVars(ReceiveAnswer) /\ WF_speechVars(\E r \in awaiting : TimesOut(r))
  /\ WF_speechVars(ReadRequest) /\ WF_speechVars(HandleRequest)

SpeechSpec == SpeechInit /\ [][SpeechNext]_speechVars /\ SpeechFairness
-----------------------------------------------------------------------------
(* Speech is reported in the order in which it was spoken and never twice,  *)
(* whatever fails, times out or is sent again: an utterance that is cut in  *)
(* mid-speech goes on where the cut was.                                    *)
SpokenOnceInOrder ==
  /\ SpeechTypeOK
  /\ \A i, j \in DOMAIN finals : i < j => finals[i] < finals[j]

(* The command that ends the stream is on its way.                          *)
EndOnItsWay(s) ==
  \E i \in DOMAIN (stdin \o requests) :
    LET r == (stdin \o requests)[i] IN r.stream = s /\ r.op = "discard"

(* The worker keeps no session of a stream that is over: either the command *)
(* that ends it is on its way, or the worker was never told (abandoned: the *)
(* stream gave up by itself, or the client had no room for end_stream).     *)
SessionsEnd ==
  \A s \in Streams : stream[s].closed /\ s \notin abandoned =>
    (s \in DOMAIN sessions => EndOnItsWay(s))

(* Audio that waits is sent or given up, also when the stream has to be     *)
(* started again in the middle: the pump never stops for good.              *)
AudioMovesOn ==
  \A s \in Streams : (stream[s].pending # <<>> ~> stream[s].pending = <<>>)
=============================================================================
