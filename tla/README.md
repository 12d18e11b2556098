# A TLA+ model of the video-dubbing extension and its local backend

The program dubs a playing video in Vietnamese. A browser extension captures the
video's audio, sends it over a WebSocket to a backend on the same machine, and
plays and shows what comes back. The backend recognises the speech, translates
each sentence and speaks the translation. The user meanwhile pauses, seeks,
changes mode, switches tabs and stops, and everything that is under way at that
moment (an utterance in the recogniser, a translation, a synthesis, a message, an
audio decoder, a timer) belongs to a position of the video that is no longer shown.

Almost everything hard in this code is one question, asked in many places: *what
happens to work that was started before the seek (pause, stop, restart) and ends
after it?* There are no locks and no threads in the TypeScript: the atomic step is
what the event loop runs between two `await`s, and every `await` is a place where
anything else may happen. The models follow that rule: one action is one such step.

Contents: [Inventory](#inventory) · [Modules](#modules-and-how-they-correspond-to-the-code) ·
[Runs](#runs-bounds-and-what-they-show) · [Findings](#where-the-program-and-its-documents-disagree) ·
[Fairness](#fairness) · [Proofs](#proofs) · [Not modelled](#what-is-not-modelled) · [Plan](#plan)

## Inventory

Paths are relative to `src/packages/` unless they begin with `runtime/`.

### Backend

| component | state | operations | talks to |
|---|---|---|---|
| **Realtime pipeline, text half** `backend/src/pipeline/realtime-pipeline.ts` | `generation`, `sttStreamToken`, `isActive`, `finalQueue`, `drainingFinals`, `processedFinalKeys`, `pendingFlushTimer`, `segmentCounter` | final transcript, drain loop, flush timer, seek, stop | called back by the STT stream; awaits the translation engine; calls the voice half |
| **Translation engine** `backend/src/translation/` | `pendingBuffer`, `resetVersion`, context window | translate (hold, join, forget, refuse, ask), flush, reset | awaits a translation provider |
| **Realtime pipeline, voice half** (same file) | `ttsQueue`, `activeTtsJobs`, `ttsEmitChain`, `mode`, one job per sentence | publish, enqueue, pump, synthesize whole or streamed, mode change, seek, stop | awaits the TTS engine; sends `SUBTITLE_EVENT`, `TTS_CHUNK` |
| **Script pipeline** `pipeline/script-pipeline.ts` | queue of caption sentences, accepted generation, lanes | receive a script, translate and speak by video time, reset | translation engine, TTS engine |
| **WebSocket gateway** `gateway/ws-gateway.ts` | sessions by id, sockets' sessions, starting sessions | start, audio, seek, mode, stop, close, limit | creates pipelines |
| **Local adapters** `local/local-{stt,tts,translation}.ts` | audio buffer and one request in flight; synthesis slots and waiters | push audio, restart, abort; synthesize, cancel a generation | worker client |
| **Python worker** `runtime/workers/vietdub_worker.py` | queue of requests, table of cancelled sessions, recogniser sessions | read commands, skip what was cancelled, recognise, translate, speak | the worker client, over stdin and stdout |
| **Worker client and pool** `local/worker-{client,pool}.ts` | child process, pending requests, reservations, state | request, cancel, time-out, start, exit | `runtime/workers/vietdub_worker.py` over stdin and stdout |
| **Models** `local/model-{manager,downloader}.ts`, `runtime/install_models.mjs` | manifest and artifacts on disk, hash cache in memory and on disk | download, install, check a component | disk and network |
| **Cloud providers** `stt/deepgram-stt.ts`, `tts/google-cloud-tts.ts`, `translation/gemini-translation.ts` | socket and reconnect state; none; none | stream; synthesize; translate | network |
| **Cost tracker, provider factory, server** | sums; adapters; HTTP server | record; build and warm up; routes | |

### Extension

| component | state | operations | talks to |
|---|---|---|---|
| **Session manager** `extension/src/background/session-manager.ts` | current record, `lifecycleGeneration`, `pendingStart`, the snapshot | start, stop, runtime events, change mode, mixer | a runtime: offscreen document (Chrome) or content script (Firefox) |
| **Background pages** `background/{chrome,firefox}-background.ts`, handshake, subtitle relay | offscreen document, injected tabs | relay messages, navigation, tab removal | session manager, content script, offscreen |
| **Playback session** `content/content.ts` (Firefox), `offscreen/offscreen.ts` (Chrome) | session, `generation`, `playbackEpoch`, decoders, mixer | open, seek, pause, play, receive, decode, end | the gateway's socket |
| **Subtitle timing** `sync/tts-subtitle-sync.ts`, `content/subtitle-scheduler.ts` | held subtitles, cues, `generation` | hold, release, push, show, clear | renderer |
| **WebSocket relay** `relay/ws-relay.ts` | socket state, `closeNotified` | bridge a page socket through a port | background, gateway |
| **Audio** `audio/` | scheduled voices, open streamed segments, stretchers | schedule, duck, stretch, stop | Web Audio |
| **Captions** `captions/` | script, the sentence being played | fetch captions, send script, play | gateway, mixer |
| **Popup** `popup/` | settings | start, stop, mixer | session manager |

### What is hard, and what correct means

* **Late answers.** A translation, a synthesis, a decode or a message of before a
  seek must leave no trace after it. The code has no cancellation it can rely on;
  it captures a generation before each await and compares after it.
* **Order.** Sentences are translated one at a time, but voices are synthesised
  concurrently and must still be heard in order, in whole or in streamed parts,
  when the first of them fails, is cancelled, or is cut in the middle.
* **Bounded queues that must not lose the subtitle.** When the voices fall behind,
  the oldest is dropped and its subtitle is shown; six places may emit it.
* **The held fragment.** The engine holds an incomplete sentence to join it to the
  next one; a timer flushes it if nobody speaks. Each final must be said at most
  once, and a fragment must not be forgotten.
* **Lifecycle.** START, STOP, replacement and failure of a session interleave
  through five awaits; STOP must win, and two sessions must never capture at once. The
  end of a session has an await of its own in the middle, in which the next may start.
* **Real time.** Voices are scheduled on an audio clock, subtitles on timers, and the
  captions player starts a voice where the video is: the three must meet again after
  every pause and seek.
* **Processes that die.** A worker may crash, stay silent, or answer a request that was
  given up; the service worker of the extension may be ended; models change on disk.
* **Two ends that count seeks separately.** The page and the pipeline each keep a
  `generation` and never exchange it except in the messages that go back.

The full list, line by line, is under `hazards` in `PROJECT.json`, each with the
property that would catch it or the reason there is none.

## Modules and how they correspond to the code

`map` in `PROJECT.json` gives the lines of every definition. Definitions whose
comment begins with *Faulty* are plausible mistakes, used to make sure that each
property can fail; no specification uses them.

* **`TranslationStage`** – text half and translation engine. `OnFinal` is the
  callback of the recogniser with `enqueueFinalTranscript`; `TakeNext` is one turn
  of `drainFinalQueue` up to its await (`HandleFinal`, `HandleFlush`);
  `TranslationHeld`, `TranslationPublished` and `TranslationDropped` are what
  follows the await, including the next turn of the loop (`DrainContinues`);
  `FlushTimerFires`, `HandleSeek` and `Stop` are the other three entry points.
  `drain` is the captured local state of the loop. A final is its arrival number, a
  text the set of finals in it. What the words decide (complete, tiny, too long,
  too far apart) is a choice, so every rule the completion guard could follow is
  included. `processedFinalKeys` is kept below the 500 entries at which the code
  forgets old ones.
* **`TtsStage`** – voice half. A job goes through stages that name the await it is
  at: `synth` (the engine), `audio` and `silent` (the predecessor in
  `ttsEmitChain`), `stream` and `ended` (the streaming variant). `PumpTtsQueue` is
  part of the actions that call it. `quit` is the early return that does not await
  the predecessor; `QueuedJobsCurrent`, part of `WorkConserving`, shows it is never taken.
* **`RealtimePipeline`** – the two halves composed by `INSTANCE`: they share the
  generation, the stream token and `isActive`; publication, seek and stop are joint
  steps. `BothHalves` says that the whole implements the specification of each
  half, so that what is established of a half alone holds of the whole; and, with
  `SegmentsAreNew`, that the voice half is always ready for the segment the text half
  is translating, so that the joint step never holds a publication up.
* **`SessionManager`** – the background's lifecycle. `startPhase` is how far
  `runStart` has got, `stopping` and `cleanup` are the two shared promises,
  `pendingStart` the START that waits for the stop of the session it replaces. The
  runtime is external: it answers each start, its messages of one session stay in
  order, and a stop may fail.
* **`ChromeHost`** – what that runtime is in Chrome. It EXTENDS `SessionManager`,
  takes its actions for commands and answers (`Manager`), and replaces the external
  runtime by the adapter of the service worker (`Prepared`, `StopAnswered`) and the
  offscreen document: `StartCapture` up to its first await, `ReplacementContinues`,
  `MediaSettles`, `ContextSettles`, the socket, `StopCapture`, `Cleanup`. `runtime` and
  `inbox` of `SessionManager` record what the code does and sends, so that
  `KeepsToManager` can say that each step is one `SessionManager` allows: a refinement
  of the environment. `Restart` ends the service worker: the manager begins anew, the
  document does not. `TabLeaves` is the STOP of a tab that is closed or navigates away.
* **`PlaybackSync`** – which position of the video things belong to: the two ends of a
  playback session with the messages between them: page or offscreen document, the gateway's
  session, and the pipeline reduced to its generation. `browser` chooses between the two
  hosts, which differ in when a seek is handled and in what the end of a session clears. The
  end is two actions, on either side of `await audioCtx.close()` (content.ts:1031):
  `CleanupBegins`, part of `EndSession` (the session is over at once) and of `StartFails`
  (it stays the session of the page, with a socket that may still open), and
  `CleanupContinues`, which sends SESSION_STOP, closes the socket and hides. `ending` holds
  the clean-ups in between, and a new session may start, fail and end while they wait.
* **`VoicePlayback`** – what a sentence becomes in the browser, against the clock: the
  subtitle held in `TtsSubtitleSync`, the voice decoded whole or taken in parts by
  `TtsStreamReceiver`, `AudioMixer.scheduleTTSBuffer`, the `SubtitleCueScheduler` with its
  queue and `mergeOldest`. `screen` is the state of both subtitle schedulers; the
  operators `Push`, `ShowNow`, `Release` take and return it, as the methods change it.
  Times are relative to now.
* **`ScriptDubbing`** – dubbing from captions: how the script is prepared (`PrepareScript`:
  captions of sentences are there at once; automatic captions are words, which go to the
  backend in chunks from the video's position on, are made sentences of in `Punctuated` and
  come back in `SentencesArrive`), `ScriptDubPlayer` in the page (`PlayerTicks` is a turn of
  its timer: `SendUpcoming` and the scheduling of every sentence), the session's socket, and
  `ScriptPipeline` (`Take` begins the next turn of its loop, `Translated` and `Spoken`
  follow its awaits). `StartScriptDubbing` is the end of the first chunk, `AddSegments` that
  of the others, while the player runs. `excused` is a history of the requests the code
  loses on purpose.
* **`SpeechInput`** – `LocalSTTStreamSession`, one per seek, over the worker:
  `HandleAudioChunk` buffers what the gateway gets, `Pump` sends one batch at a time,
  `Fulfilled`, `NotStarted` and `Rejected` are the continuations of its promise;
  `ReadRequest` is the reader thread of the Python process, which applies `cancel` at once,
  `HandleRequest` its main thread.
* **`ModelStore`** – the model files: `install_models.mjs` (`InstallStarts`, `DownloadEnds`,
  `WriteManifest`, and its death at any point), changes made by the user, and
  `LocalModelManager.checkComponent` with the cache of hashes. One artifact stands for
  all. It has no specification of its own.
* **`Gateway`** – `WebSocketGateway` with the local provider factory, over `ModelStore`:
  `StartSession` up to the await of the warm-up, `Proceed` after it (`Create` checks the
  files again), `WarmUpTimesOut`, `StopSession`, `Close`, `Terminate`, and the workers'
  readiness.
* **`WorkerClient`** – the line protocol with a worker process. `Ask` is `request` with
  the `start` it may cause; `ReadyLine`, `AnswerLine` and `BadLine` are what a line of
  stdout does; `ChildExits`, `StartupTimeout` and `BadLine` run `FailWorker`. Children
  are numbered, because a stopped child goes on writing and reports its exit when the
  next one may be there already. It has no specification of its own: what asks it is
  the adapter. `ReadyThenBadLine` is the one place where two lines of a chunk are
  handled before the continuation of the first.
* **`LocalTts`** – the voice adapter over that client: the slots and the line of
  `acquire` and `release`, the time-out of a call, and `cancelGeneration`, which
  aborts calls in line, at the start of a worker and at the worker. It is what
  `TtsStage` calls the engine.
* **`MC…`** – one per specification, with the reasons for the bounds.
* **`TranslationStageProofs`**, **`TtsStageProofs`**, **`SessionManagerProofs`**,
  **`PlaybackSyncProofs`**, **`VoicePlaybackProofs`**, **`RealtimePipelineProofs`** – the
  theorems about these modules; **`GatewayScriptProofs`** – those about `Gateway` and
  `ScriptDubbing`; **`LocalSpeechProofs`** – those about the two local adapters, `LocalTts`
  and `SpeechInput`. See [Proofs](#proofs).

## Runs, bounds and what they show

| run | checks | bounds |
|---|---|---|
| `TtsStage` | whole, clause-wise and streamed voices: `SubtitleOnce`, `WorkConserving`, `StreamedVoiceClosed`, `VoiceInOrder`, `OnlyCurrentSent` | 4 sentences, 2 slots, 1 waiting place, 2 parts, 1 seek, stop |
| `TranslationStage` | `TypeOK`, `HeldFragmentScheduled`, `FinalQueueBounded`, `OnlyCurrentSpeechPublished`, `PublishedOnceInOrder`; live: `NothingWaitsForEver` | 5 finals, 4 identifiers, a queue of 2, 1 seek, stop |
| `RealtimePipeline` | `BothHalves` (refinement), `SentSpeechIsCurrent`; live: `SpeechSettles` | 2 finals, 2 identifiers, 1 slot, 1 waiting place, 2 parts, 1 seek, stop |
| `SessionManager` | `ActiveIsLive`, `OneRuntime`, `StopWins`, no deadlock; live: `LifecycleSettles` | 3 sessions, 2 tabs, any number of stops |
| `ChromeHost` | `CapturesEnd`, `KeepsToManager` (refinement) | 2 sessions, 2 tabs, 1 restart of the service worker |
| `PlaybackSync` | `VoiceOfThisPosition` in both browsers, `GenerationsAgree` in Chrome, `CuesOfThisSession` in Firefox | 2 sessions, 2 sentences, 2 seeks in a session, a pause before the first of them |
| `VoicePlayback` | `VoicesInTurn`, `BacklogBounded`, `SubtitleWithVoice`; live: `EverySubtitleShown` | 3 sentences of up to 2 parts, 1 pause or seek, 1 queued cue, 1 open segment |
| `ScriptDubbing` | `VoiceInPlace`, `NothingForgotten`, `ScriptLoopSound` | 2 sentences of 2 ticks, known at once or in two chunks, voices of up to 3, a queue of 1; any two of 2 seeks, 1 pause, 1 change of mode |
| `SpeechInput` | `SpokenOnceInOrder`, `SessionsEnd`; live: `AudioMovesOn` | 2 streams, 3 chunks, batches and buffer of 2, 2 failures, 1 crash |
| `LocalTts` | `OneWorker`, `SlotsConserved`, `CancelledWhenStale`; live: `SynthesesSettle` | 3 syntheses, 2 slots, a worker queue of 1, 2 children, 1 cancelled generation |
| `Gateway` | `SessionsOwned`, `ReadyIsGenuine`, no deadlock; live: `StartsAnswered` | 3 sockets, 2 session ids, a limit of 1, 2 workers, 2 changes of the model file |
| `PlaybackSync_seek` | a claim of the README of the repository, violated (below) | the smallest in which the case happens |

Where a module's `TypeOK` is not a property of its own, it is a conjunct of one of the
invariants of the run.

What the runs about the browser, the captions, the workers and the gateway show:

* `SessionManager`: what runs belongs to the current record, but for sessions whose stop
  has failed: the code drops their record and does not try again, so such a session may go
  on beside the next one.
* `ChromeHost`: a STOP ends the session wherever it finds `runStartCapture`: at
  `getUserMedia`, at the AudioContext, at the socket. There is one more await, of the end
  of the session that is replaced (offscreen.ts:163). It is reached only after a restart of
  the service worker, by a START that finds a session without an owner, and a STOP that
  comes then ends nothing (divergence 2). `overlooked` records the sessions to which this
  has happened; `QuietAfterStop` says that as long as there is none, every answered STOP
  has ended its session, and `OneCapture` that two tabs are never heard at once – and even
  afterwards no session of before the first restart together with another. (With three
  sessions, two later starts may both await that end and both come up, and a second
  restart may leave both without an owner: the invariant speaks of the sessions of before
  the first restart, `First`. Larger instances than that of the run, with three sessions
  and two restarts, agree with it.)
* `PlaybackSync`: a voice that was being decoded or scheduled when the user seeks, pauses or
  stops is not heard any more, nor one that was on its way at a seek or a stop; one that
  was on its way at a pause is (divergence 3). In Firefox cues of a session that is
  over stay on display, and its timers run, until its clean-up goes on: `CuesOfThisSession`
  says that every cue has such a clean-up to hide it, and that nothing of the old session
  is added meanwhile.
* `VoicePlayback`: no order of decoders, fallback timers, parts and stops makes two
  voices overlap, leaves a subtitle behind or shows one twice; the lag is the limit and
  at most one voice.
* `ScriptDubbing`: what the player counts as sent is in the socket, in the pipeline or
  in the decoder, over every seek, or was lost to one of the three things listed in
  `excused`; a voice scheduled past the queue of the mixer neither overlaps another nor
  runs ahead of the video.
* `SpeechInput`: an audio request that fails or times out is not sent again, and the
  worker may have recognised it all the same: nothing is reported twice or out of
  order. A `cancel` overtakes the audio of its stream and the session is ended by it
  or by the `end_stream` behind it, even when the table of cancelled streams is full
  (unless the worker is never told, see below).
* `Gateway`: two sockets with one session id, or two ids for one place, never both get
  it, whichever closes, is refused or stops during the warm-up; SESSION_READY is never
  said over a file that was exchanged since it was hashed.

*Why the bounds are enough.* What distinguishes one late answer from another is whether a
seek or a stop fell before or after each await, and who was in front. One seek gives
"before" and "after"; a second changes nothing but the numbers, because every test is
equality with the present generation. Four sentences with two slots and one waiting place
give two running jobs, a waiting one and an overflow; a chain of three is the first in which
a job must wait for one that itself waits. Five finals over a queue of two give an awaited
item, a full queue, an overflow and a join. In the composition a stale job can hold the slot
while a sentence heard after the seek waits; overflow and longer chains are left to the run
of the voice half, which `BothHalves` says the composition refines. Three syntheses over two
slots and a worker that takes one request give a call in line, one that is refused and one
that is sent; two children give one that was stopped and the one that replaced it, and any
start after them throws, as any start may. Three sessions give one stopping, one replacing
it and one replacing that; the tabs are interchangeable, so the first session is put in a
given tab (`Explored`). In `ChromeHost` the document keeps one current session and one that
it ends, so two sessions and a restart between them give every pair. In `VoicePlayback` a
backlog limit of one tick with voices of one tick, or of two in two parts, gives one voice
below the limit and one above it. In `ScriptDubbing` two seeks let an answer of before the
first meet the generation of the second, and a voice longer than its sentence meets the
next; a seek, a pause and a change of mode disturb the player in the same way, by a tick
that finds the video elsewhere, so any two of them are explored and all the pairs of them.
In `SpeechInput` three chunks give one at the worker, one in a batch and one buffered; a
table of one cancelled stream is already full. In `Gateway` three sockets for a limit of one
give an owner, a rival for its id and a rival for the place. `Explored` in the MC modules
bounds the messages under way in `ScriptDubbing` and `SpeechInput`: longer sockets only
delay what is in them.

*Deadlock.* It is checked for `SessionManager` and `Gateway`, where the popup can always
give a command and a socket can always be opened. Elsewhere `CHECK_DEADLOCK FALSE` is
needed: a pipeline that was stopped and has no answer outstanding, and a page whose
bounded sessions, sentences, audio or commands are used up, do nothing more.

*Bounds in guards.* `MaxSegments`, `MaxFinals`, `MaxGeneration`, `MaxRecords`, `MaxSessions`
of `PlaybackSync`, `MaxEpoch`, `MaxChildren`, `MaxSentences`, `MaxRestarts`, `MaxParts`,
`MaxLength`, `MaxStops`, `Sentences`, `MaxSeeks`, `MaxPauses`, `MaxModeChanges`,
`MaxStreams`, `MaxChunks`, `MaxCrashes` and `MaxStamp` bound what the code does not bound.
`MaxPendingTts`, `MaxPendingFinals`, `Concurrency`, `MaxSessions` of `Gateway`,
`MaxBacklog`, `Fallback`, `MaxOpen`, `MaxQueued`, `Lookahead`, `Ahead`, `MinRemaining`,
`MaxLate`, `SendBatch`, `MaxBuffered`, `MaxBatch`, `MaxFailures` and `MaxCancelled` are
settings of the code, made small. The streaming mode and the browser are variables that the
initial state chooses and no step changes.

## Where the program and its documents disagree

1. **A seek before `SESSION_READY` silences Firefox for good** (`PlaybackSync_seek`, the
   one run that expects a violation). `onSeek` raises the page's generation at once
   (content.ts:189), but the message is not sent while the socket connects (:195) and
   is ignored by the gateway while the models load (ws-gateway.ts:77-79). The two
   counters differ from then on and every voice is thrown away. README.md:281 promises
   that dubbing goes on from the new position. Chrome is not affected
   (`GenerationsAgree`), because its background forwards seeks to active sessions only.

The models contain these, too. The definition named states what a reader would expect,
is kept beside the model and is violated; no run repeats it.

2. **A session comes up after its STOP** (`StopAlwaysEnds` of `ChromeHost`). The service
   worker is ended while a session is heard, and forgets it. START finds the session in the
   document and awaits its end before it makes its own session the current one
   (offscreen.ts:163); a STOP of that moment finds no such session, ends nothing and is
   answered as a success (offscreen.ts:530-533), and the session comes up afterwards.
   The popup shows that nothing runs, and the tab is dubbed until the next START.
   README.md:283 says that a stop restores the sound of the video at once, and
   docs/BROWSER_ACCEPTANCE_CHECKLIST.md:18 that it stops the dubbing.
3. **A sentence that arrives during a pause is spoken** (`NoVoiceWhilePaused` of
   `PlaybackSync`). Pausing silences what is scheduled and decoded, but a voice that
   arrives afterwards captures the new epoch and passes.
   docs/BROWSER_ACCEPTANCE_CHECKLIST.md:15 and README.md:279 say otherwise.
   (README.md:31 and docs/ARCHITECTURE.md also say that a pause raises the generation;
   the code raises the epoch only and tells the backend nothing.)
4. **A stale subtitle appears after a seek** (`NewCueIsCurrent`). Subtitles are not
   compared with the generation of the page, only with that of the last subtitle shown.
   docs/BROWSER_ACCEPTANCE_CHECKLIST.md:16 says stale generations are cancelled.
5. **The first subtitles after a restart are refused** (`CurrentCueAccepted`). The
   scheduler outlives the sessions and never lowers its generation, while each session
   begins at 1; its comment (subtitle-scheduler.ts:76) says that only cues from before
   a seek are refused.
6. **The late exit of a stopped worker stops its successor** (`OldExitIsNoFailure` of
   `WorkerClient`). The exit handler (worker-client.ts:246-251) does not look whether its
   process is still the client's child, though the comment at :349 takes the exit after
   SIGTERM for a mere consequence. For the same reason the rest of a line in
   `stdoutBuffer` (:97, :266) is not dropped with the process that wrote it, and spoils
   the first line of the next.
7. **A tab stays captured** (`StoppedReleasesTab` of `ChromeHost`). A STOP during
   `getUserMedia` (offscreen.ts:208) cleans a session that has no stream yet (:541);
   the stream it then receives is stopped by nobody.
8. **Captions from subtitles to dubbing** (`excused` in `ScriptDubbing`). After a change of
   mode the sentences that were already sent get no voice until a seek clears `sent`;
   README.md:17 and :228 offer the change of mode without any such condition. A sentence
   whose translation or synthesis fails loses its subtitle with its voice, and a full queue
   (200) refuses sentences without a word to the player.
9. **Sessions of the recogniser leak** (`abandoned` in `SpeechInput`). A stream that gives up
   after five failures does not tell the worker, and the `end_stream` of an abort is
   subject to the client's queue limit, so a full queue refuses it.
10. **Whole voices are heard in the order they are decoded** (offscreen.ts:427,
    content.ts:922). `VoicesInTurn` claims order for streamed voices only.
11. **The end of a failed session hides the subtitles of the next** (`EndLeavesNextSession`
    of `PlaybackSync`). When the AudioContext of the old session is closed, content.ts:1060-1061
    stops the voice that was scheduled last and hides what is on display, whoever's they
    are. STOP and START of the user wait for each other; a session that fails by itself
    does not make the next one wait.

## Fairness

Liveness is checked under weak fairness of continuations only.

* `TranslationStage` and the text half of `RealtimePipeline`: the drain loop's
  continuation (providers time out) and the armed timer. The recogniser owes nothing:
  that is the point of `NothingWaitsForEver`.
* The voice half of `RealtimePipeline`: every job's next step (`JobContinues`), except
  the arrival of a streamed part. The engines settle every request (local worker and
  cloud adapters have time-outs), and resolved promises run. Speech, seeks, mode
  changes and stops owe nothing.
* `LocalTts`: continuations, the time-out of a call and the start-up timer. The worker
  may stay silent for ever, and nothing is assumed of the timer of a single request.
* `SessionManager`: messages that were sent are delivered, a start or stop request
  is answered (the background's requests time out), continuations run. Commands and
  failures of a live session owe nothing.

* `VoicePlayback`: the clock and the timers of the page. The backend, the decoders and
  the user owe nothing: `EverySubtitleShown` holds when no voice ever comes.
* `SpeechInput`: answers that arrive are read, each request has a timer, the worker reads
  its commands and handles them. Audio and the user owe nothing, and no worker need
  start anew.
* `Gateway`: a warm-up that is settled is taken up, and its timer fires. No worker need
  ever become ready, and no socket need close.

`ChromeHost`, `PlaybackSync`, `ScriptDubbing` and `TtsStage` are checked for safety only.

## Proofs

Eight modules hold theorems. Each `EXTENDS` the module or the two modules it is about, so
that what is proved is proved of the very specification the run checks, for every value of the
constants that meets the module's assumption. The assumptions say that bounds are natural
numbers and that capacities the code takes from a positive setting are positive; two say
more: `LocalTtsAssumption` gives each call a request of its own and each cancelled
generation a cancel command, `GatewayAssumption` names the session of each connection. The
runs evaluate all of them.

No theorem is about an invariant that is inductive as it stands. In each module the
strengthening was checked by TLC as an invariant of the run first, then proved with one
lemma per action; the theorems at the end of the module only take it apart. Where an
action property is a theorem, it is derived from the same invariant.

| module | theorem | property |
|---|---|---|
| `TranslationStageProofs` | `TypeCorrect`, `QueueBounded`, `FragmentScheduled` | `TypeOK`, `FinalQueueBounded`, `HeldFragmentScheduled` |
| | `OnlyCurrentPublished`, `PublishedOnceAndInOrder` | `OnlyCurrentSpeechPublished`, `PublishedOnceInOrder` (actions) |
| `TtsStageProofs` | `SlotsNeverIdle`, `SubtitleSentOnce`, `StreamClosedOnce` | `WorkConserving`, `SubtitleOnce`, `StreamedVoiceClosed` |
| | `VoiceNeverGoesBack`, `NothingStaleSent` | `VoiceInOrder`, `OnlyCurrentSent` (actions) |
| `GatewayScriptProofs` | `EverySessionOwned`, `OnlyGenuineReady` | `SessionsOwned`, `ReadyIsGenuine` (action), of `Gateway` |
| | `VoicesStayInPlace`, `NothingIsForgotten`, `ScriptLoopIsSound` | `VoiceInPlace`, `NothingForgotten`, `ScriptLoopSound`, of `ScriptDubbing` |
| `SessionManagerProofs` | `StopAlwaysWins`, `OneSessionRuns`, `ActiveRuns` | `StopWins`, `OneRuntime`, `ActiveIsLive` |
| | `HostIsRuntime` | `KeepsToManager` (a refinement of the environment), of `ChromeHost` |
| | `CapturesAlwaysEnd` | `CapturesEnd`, of `ChromeHost` |
| | `SessionsWithHost` | `StopWins`, `OneRuntime` and `ActiveIsLive` of the composition, before a restart |
| `PlaybackSyncProofs` | `VoicesAreCurrent`, `SeeksAgree`, `CuesAreOwn` | `VoiceOfThisPosition`, `GenerationsAgree`, `CuesOfThisSession` |
| `LocalSpeechProofs` | `OneWorkerRuns`, `SlotsNeverLost`, `CancelledExactlyWhenStale` | `OneWorker`, `SlotsConserved`, `CancelledWhenStale` (action), of `LocalTts` |
| | `SpeechIsSpokenOnceInOrder`, `SpeechSessionsEnd` | `SpokenOnceInOrder`, `SessionsEnd`, of `SpeechInput` |
| `RealtimePipelineProofs` | `HalvesImplemented` | `BothHalves` (a refinement of both halves) |
| | `SentIsCurrent` | `SentSpeechIsCurrent` (action) |
| `VoicePlaybackProofs` | `OneVoiceAtATime`, `DubbingKeepsUp`, `ShownOnceWithItsVoice` | `VoicesInTurn`, `BacklogBounded`, `SubtitleWithVoice` |

The arguments, by module:

**`TranslationStageProofs`**: `CoreInv` and, on top of it, `OrderInv`.

* `QueueHasRoom`: queue length plus one for an armed timer is within the capacity.
  A timer is armed only by the loop, which has just taken an item, and a new final
  disarms it; so the place the flush item will take is free, although
  `schedulePendingFlush` pushes without looking at the length.
* `CapturedIsCurrent`: the armed timer and the queued items carry the present token
  and generation, because a seek clears both. Hence a flush item that is taken is
  handled, not skipped.
* `AwaitedExplains`: an awaited item is of the present generation, or of an older one
  and then the engine is empty; the engine holds a flushable fragment only while a
  *held* item is awaited. Without it the return of a stale `held` item could leave a
  fragment without its timer.
* `StoppedIsEmpty`: after `stop` nothing is queued, armed or held.
* `OrderInv` follows each final from its arrival to the segment it is published in: the
  published ones were spoken before what is being translated, that before the held
  fragment, that before what is queued; and everything but the published was heard on the
  stream that its item names. A flush and a join can therefore never both use a final.

**`TtsStageProofs`**: `StageInv`. Jobs are numbered as they are started. `SlotsFit` makes
the queue ascending and the slots in use the running jobs; `ChainFits` makes `previous`
lead from each job to the one started just before it, the queue come after the end of the
chain, and no job run below one that has settled. The order of voices is then the order
of turns: a job that sends has a settled predecessor, so nobody below it runs
(`LastVoiceFits`). `SubtitleBooked` says of each of the six places that may emit a
subtitle whether it still may; `VoiceBooked` does the same for the end of a stream.

**`RealtimePipelineProofs`**: `HalvesImplemented` is step simulation: the initial states are
initial in both halves, and every step of the whole is a step of each half or leaves its
variables alone. What takes an invariant, `PipelineInv`, is that the halves agree on the
segments. It counts them: each final can still make one segment when it is handled and
one when its fragment is flushed, so `segmentCounter`, twice the finals in the queue and
one for a held fragment stay within twice the arrivals (`TextFits`), and the segment
awaited is one the voice half has a place for and has not seen. `SentIsCurrent` follows the
stream token of a final through the queue, the fragment and the await of the text half
(`HeardOn`), over the segment it is published in to the token of the job (`FinalFits`); the
voice half sends for jobs of the present token only. The two halves each compare the token
on their own; that no pair of their tests leaves a gap is what is proved.

**`GatewayScriptProofs`**, for `Gateway`: `GatewayInv` is `StoreInv` (no hash is kept for a
stamp the file has not had yet, so each change of the file makes every hash of it old) and
`SessionInv` (what the maps say under a session id belongs to a connection of that id, whose
socket is not closed; a session is active or starting, never both; the two maps together are
within the limit).

For `ScriptDubbing` the same module has `ScriptInv`, which is about the page, the socket both
ways and the loop of the pipeline together.

* `InPlace`: the voices that are scheduled follow each other and end by `lastVoiceEnd`; a
  pause leaves none; none runs ahead of its sentence.
* `LoopFits`: a sentence is queued once and only behind a job of the loop, and what is queued
  was accepted in the generation the pipeline is in. A seek therefore leaves at most the
  job that runs of the generation before.
* `Counted`: seeks are counted in the socket, as in `PlaybackSync`: each request in it is of
  the generation the pipeline will have when it comes to read it.
* `AskedOnce`, `Answered`: in one generation a sentence is asked for once, and what is accepted
  or answered was asked for.
* `ModeFollows`, `AskedInMode`: when the pipeline has read everything it has the mode of the
  page, and what is not excused was asked for behind the last change of mode. Without it
  an answer without a voice could come to a page that waits for one.
* `Remembered` puts these together: what the player has asked for, and is not excused, is
  complete or `Coming` – in the socket, in the queue, in the loop, on its way back or
  being decoded.

The player, `sendUpcoming` and `enqueue` are loops over sentences, which the model states as
recursive functions. `Loops` and `LoopRuns` say that such a function exists; `PlayAllKeeps`,
`UpcomingKeeps` and `EnqueuedKeeps` say that a set of states that each turn keeps, the loop
keeps. An action is then one lemma about one turn, and one about what comes after the loop.

**`SessionManagerProofs`**: `LifeInv`. `Talks` lists, for each point `runStart` may be at,
what may run and what may be in flight: an answer is owed as long as it awaits one, ACTIVE
never comes without *started* behind it, nothing but a failure comes later. `RecordFits`
ties the flags of a record together, `CurrentFits` the snapshot and the wish of the user
to the current record, `PendingFits` the START that waits to the stop it waits for.

For `ChromeHost` the same module has `HostInv`, in three parts. `EraInv` holds in every era
of the service worker: how the fields of a session of the document go together (`DocOf`),
that a session of before the first restart is heard only as the current one and not started
any more (`EraOf`, `StartOf`), and that a STOP is in the pipe or awaits a cleanup, never
both (`StopOf`). `StopInv` adds, also for every era, where the START and the STOP of each
record are: no START follows the STOP of its record, and while no STOP was overlooked a
session that replaces another, or has got further, is the only one (`WayFits`). `Books`
holds until the first restart, when the manager still knows all sessions: what `runtime`
says agrees with how far the capture is, only the current record has a stop that is not
answered. So a START finds the document empty, and every step of the document is a stutter
or one of `RuntimeGoesLive`, `RuntimeRefuses`, `RuntimeFails` and `RuntimeStops`; and until
then, what is proved of `SessionManager` holds of the composed system (`SessionsWithHost`).
After a restart `KeepsToManager` promises nothing, for the new worker knows of no session.

**`PlaybackSyncProofs`**: `SyncInv`. Seeks are counted in the socket: in Chrome the page's
generation is the pipeline's plus the seeks on their way (`NothingLost`); in Firefox it is
never behind it (`NeverAhead`), which is just what divergence 1 makes of it. The
rest says that a start comes first in its socket and that nothing is answered before it.
`EndingFits`: a session has at most one clean-up, and one that has not failed has none
while it runs. `NothingSaidYet`: before SESSION_READY a session has heard and said
nothing, so one whose start failed leaves no cue behind when it ends without a clean-up
of its own to come. `CuesAreOwn` follows from the two: a cue is of the session or of one
that is in `ending`.

**`LocalSpeechProofs`**, for `LocalTts`: `VoiceInv` is `ClientInv` (a request that is
pending was written to the present child, one that is reserved waits for the present start,
and the limit counts both) and `AdapterInv` (the slots are those of the calls that hold one,
and a call is in line exactly while every slot is taken).

For `SpeechInput` the same module has `SpeechInv`. It is stated of values, not of variables,
because the handlers of the adapter are operators that several actions share.

* `Opened`: streams are opened one after the other, and all but the latest are closed.
* `Promises`: the flags of a stream say which promises wait, at most one of each kind. Hence
  an answer that is read is the one its flag waits for.
* `InOrder`: the chunks of a stream that is neither closed nor aborted lie on one line –
  what was reported, the answers, the session in the worker, its commands there, those in
  the pipe, the buffer of the adapter – and every chunk stands before those further up the
  line. A step moves a batch from one place of the line to the next and keeps it
  (`Flows`, `Line`). Chunks that are reported are therefore reported in order and once.
* `Untouched`: nothing is known anywhere of a stream that was not opened yet.
* `Ends`: of a stream that was closed and not abandoned, the command that ends it is in one
  of the two queues with no start of the stream after it, or its session is gone. This
  is what holds however a cancel overtakes an audio command and however many entries the
  table of cancelled streams has dropped.

**`VoicePlaybackProofs`**: `VoiceInv`. `Voices`: the sources of the mixer are disjoint, lie
within the backlog and follow the order of the sentences. `Lag`: only the newest voice
still grows, and it began when the backlog was within the limit, so the lag is the limit
and one voice. `Timed`: a subtitle that waits has a source that begins with it.
`InOnePlace`: a sentence is held, waits, is in one cue of the queue, or was shown, and is
never in two of these; `mergeOldest` keeps it so.

*Only model-checked.* Every invariant, action property and refinement that a passing run
checks is a theorem. What is not proved is liveness under fairness, which needs `ENABLED` and
is outside this prover: `NothingWaitsForEver`, `SpeechSettles`, `LifecycleSettles`,
`EverySubtitleShown`, `AudioMovesOn`, `SynthesesSettle` and `StartsAnswered` stay with TLC. So does
`NewPositionIsVoiced`, which the code violates. The induction theorems of the library take
an operator as a parameter, which the provers cannot instantiate. Where a proof needs
induction over the turns of a loop or the length of a sequence, it takes the least element
of a set of numbers instead (`LeastIs`, `CountUp`, from `NatLessThanWellFounded` and `WFMin`). No
module declares a `RECURSIVE` operator, so every module can be proved about.

## What is not modelled

* Signal processing (`audio/`, voice activity detection), linguistic rules (completion
  guard, text rules, punctuation) and the inference itself: numbers and words, not
  protocol. Where their result matters it is a choice.
* Popup, subtitle layout, cost sums, diagnostics, packaging and acceptance scripts; the
  shared type declarations.
* The cloud providers: they are not used unless the environment asks for them. The
  reconnect of the Deepgram stream is the part worth a module.
* The local translation adapter and the WebSocket relay: they keep no state that other parts
  depend on; that the relay closes once is one flag in one object. The worker pool, whose
  choice of a worker no property can tell apart from any other.
* In the worker client: frame sizes, partial results, several adapters on one worker,
  and an error event of the child's stdin, for which there is no listener.
* In the realtime pipeline: interim transcripts, timing estimates, cost, metrics.
* In the session manager: warnings, mixer updates, `changeMode`, forwarding of video
  events. In `ChromeHost`: navigation inside the tab, an offscreen document that dies.
* In `ScriptDubbing`: the fetching and parsing of captions, stalls of the video, the limit on
  scheduled voices, catching up by stretching, the grace of one second. The sentence
  is remembered by its number where the code captures an index into a list that later
  additions would sort again.
* In `SpeechInput`: `endStream`, because the pipeline aborts local streams; more than one
  utterance in the answer to a batch.
* In `Gateway`: the cloud factory; a pipeline that ends by itself, which keeps its place
  until its socket closes; a second session id on one socket, which would leave the
  first without an owner and which the extension never sends; the refusal of an audio
  format, which the validation before it makes unreachable. The runtime's own model
  manager, which has no cache; a worker that opens the file later than it was checked.

## Plan

All modules of the plan are written, and every safety invariant and action property of the
runs is a theorem. What would follow is more of the code:

* the reconnect of the Deepgram stream, several adapters on one worker;
* the hazards that the modules show to happen. Most contradict a document and are listed as
  divergences; a stream that `getUserMedia` answers with after a STOP does not, for no
  document speaks of it. Once the code is changed there, `StopAlwaysEnds`,
  `NoVoiceWhilePaused`, `NewCueIsCurrent`, `CurrentCueAccepted`, `EndLeavesNextSession`,
  `OldExitIsNoFailure` and `StoppedReleasesTab` become properties of their runs.
