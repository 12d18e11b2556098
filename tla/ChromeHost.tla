----------------------------- MODULE ChromeHost -----------------------------
(***************************************************************************)
(* What SessionManager calls the runtime, in Chrome: the adapter of the      *)
(* service worker (chrome-background.ts) and the offscreen document that     *)
(* captures the tab (offscreen.ts), composed with SessionManager.  Its       *)
(* external actions give way to the code; runtime and inbox stay, as the     *)
(* record of what the code does and sends, so that its own next-state        *)
(* relation says whether the code keeps to what it counts on.                *)
(*                                                                          *)
(* A session of the offscreen document is named by its record: every record  *)
(* has a sessionId of its own and starts one capture, so startFlight is      *)
(* never joined.  The service worker may be ended by the browser while it    *)
(* has nothing to do; it forgets everything and the document does not.       *)
(* Left out: what is played and forwarded during a session (PlaybackSync),   *)
(* a second ERROR for one failure, and a document that dies.                 *)
(***************************************************************************)
EXTENDS SessionManager, FiniteSets

CONSTANT MaxRestarts   \* bound: ends of the service worker

ASSUME RestartAssumption == MaxRestarts \in Nat

VARIABLES
  preparing,       \* of each record: the await of runtime.start
  toOffscreen,     \* messages to the document
  stopsWaiting,    \* STOP_CAPTUREs that await the end of a cleanup
  currentSession,  \* of the document, 0: null
  capture,         \* of each record: how far startCapture is
  replaced,        \* of each record: the session startCapture ends first
  quit,            \* of each record: session.cancelled
  failureNotified, cleanupPromise, mediaStream, audioCtx,   \* of each record
  ws,              \* of each record: the state of its socket
  forgotten,       \* history: per restart, the records of before
  overlooked       \* history: records whose STOP_CAPTURE came while they were replacing

background == <<currentRecord, lifecycleGeneration, sessionSequence, pendingStart, state,
                sessionId, record, startPhase, stopping>>
document == <<currentSession, capture, replaced, quit, failureNotified, cleanupPromise,
              mediaStream, audioCtx, ws>>
hostVars == <<vars, preparing, toOffscreen, stopsWaiting, document, forgotten, overlooked>>

HostInit ==
  /\ Init
  /\ preparing = [r \in Records |-> "no"] /\ toOffscreen = <<>> /\ stopsWaiting = {}
  /\ currentSession = 0
  /\ capture = [r \in Records |-> "none"]
  /\ replaced = [r \in Records |-> 0]
  /\ quit = [r \in Records |-> FALSE]
  /\ failureNotified = [r \in Records |-> FALSE]
  /\ cleanupPromise = [r \in Records |-> "none"]
  /\ mediaStream = [r \in Records |-> FALSE]
  /\ audioCtx = [r \in Records |-> FALSE]
  /\ ws = [r \in Records |-> "none"]
  /\ forgotten = <<>> /\ overlooked = {}

To(type, r) == [type |-> type, of |-> r]
Says(r, news) == inbox' = [inbox EXCEPT ![r] = Append(@, news)]
-----------------------------------------------------------------------------
(* The service worker.                                                      *)

(* The tab of the session is closed, or shows another video.                *)
TabLeaves == sessionId # 0 /\ Stop

(* A step of SessionManager.  A cleanup it begins is runtime.stop, which    *)
(* sends STOP_CAPTURE before it awaits.                                     *)
Manager ==
  /\ \/ \E t \in Tabs \union {NoTab} : Start(t)
     \/ Stop \/ TabLeaves
     \/ \E r \in Records : Answer(r)
  /\ \/ cleanup' = cleanup /\ toOffscreen' = toOffscreen
     \/ \E r \in Records : /\ cleanup'[r] # cleanup[r]
                           /\ toOffscreen' = Append(toOffscreen, To("STOP_CAPTURE", r))
  /\ preparing' = [r \in Records |->
       IF startPhase[r] # "start" /\ startPhase'[r] = "start" THEN "stream" ELSE preparing[r]]
  /\ UNCHANGED <<stopsWaiting, document, forgotten, overlooked>>

(* runtime.start is refused.                                                *)
Refuse(r) ==
  /\ Says(r, "refused")
  /\ runtime' = [runtime EXCEPT ![r] = IF @ = "starting" THEN "refused" ELSE "off"]

(* Faulty: the signal is not looked at after an await.                      *)
PreparedUnchecked(r) ==
  /\ preparing[r] \in {"stream", "ping"}
  /\ IF preparing[r] = "stream"
     THEN /\ preparing' = [preparing EXCEPT ![r] = "ping"]
          /\ UNCHANGED <<toOffscreen, external>>
     ELSE /\ preparing' = [preparing EXCEPT ![r] = "sent"]
          /\ toOffscreen' = Append(toOffscreen, To("START_CAPTURE", r))
          /\ UNCHANGED external
  /\ UNCHANGED <<background, cleanup, wanted, stopsWaiting, document, forgotten, overlooked>>

(* runtime.start goes on: Chrome grants the stream or denies it, then the   *)
(* page answers the ping or does not.  The document is there since          *)
(* ensureReady.                                                             *)
Prepared(r) ==
  /\ preparing[r] \in {"stream", "ping"}
  /\ \/ /\ cancelled[r] \/ preparing[r] = "stream"
        /\ preparing' = [preparing EXCEPT ![r] = "over"]
        /\ Refuse(r)
        /\ UNCHANGED toOffscreen
     \/ /\ ~cancelled[r] /\ preparing[r] = "stream"
        /\ preparing' = [preparing EXCEPT ![r] = "ping"]
        /\ UNCHANGED <<toOffscreen, external>>
     \/ /\ ~cancelled[r] /\ preparing[r] = "ping"
        /\ preparing' = [preparing EXCEPT ![r] = "sent"]
        /\ toOffscreen' = Append(toOffscreen, To("START_CAPTURE", r))
        /\ UNCHANGED external
  /\ UNCHANGED <<background, cleanup, wanted, stopsWaiting, document, forgotten, overlooked>>

(* The browser ends the service worker when it waits for nothing: a new one *)
(* starts with no session, the document keeps its own.                      *)
Restart ==
  /\ Len(forgotten) < MaxRestarts
  /\ sessionSequence > 0 /\ toOffscreen = <<>> /\ pendingStart = {}
  /\ \A r \in Records : /\ startPhase[r] \in {"unborn", "settled"} /\ ~stopping[r]
                        /\ cleanup[r] # "pending" /\ inbox[r] = <<>>
  /\ forgotten' = Append(forgotten, 1..sessionSequence)
  /\ currentRecord' = 0 /\ lifecycleGeneration' = 0 /\ state' = "IDLE" /\ sessionId' = 0
  /\ UNCHANGED <<sessionSequence, pendingStart, record, startPhase, stopping, cleanup,
                 external, wanted, preparing, toOffscreen, stopsWaiting, document, overlooked>>
-----------------------------------------------------------------------------
(* The offscreen document.                                                  *)

Current(r) == currentSession = r /\ ~quit[r]

(* cleanupSession up to its await, once per session: the tracks stop and    *)
(* the graph is taken apart; the rest waits for the AudioContext to close.  *)
(* There is no socket yet if there is no AudioContext.                      *)
Cleanup(r) ==
  IF cleanupPromise[r] # "none" THEN UNCHANGED <<cleanupPromise, mediaStream>>
  ELSE /\ mediaStream' = [mediaStream EXCEPT ![r] = FALSE]
       /\ cleanupPromise' = [cleanupPromise EXCEPT ![r] = IF audioCtx[r] THEN "closing" ELSE "done"]

(* Faulty: the session is cleaned up and stays the current one.             *)
StopOnlyCleans == UNCHANGED <<currentSession, quit>> /\ Cleanup(currentSession)

(* stopCapture of the current session, up to its await.                     *)
StopCapture ==
  /\ currentSession' = 0
  /\ quit' = [quit EXCEPT ![currentSession] = TRUE]
  /\ Cleanup(currentSession)

(* failSession: the failure is told once and the session stopped.           *)
FailSession(r) ==
  IF failureNotified[r] \/ quit[r]
  THEN UNCHANGED <<external, failureNotified, currentSession, quit, cleanupPromise, mediaStream>>
  ELSE /\ failureNotified' = [failureNotified EXCEPT ![r] = TRUE]
       /\ Says(r, "fatal")
       /\ runtime' = [runtime EXCEPT ![r] = IF @ = "starting" THEN "failing" ELSE "off"]
       /\ StopCapture

(* The catch block of runStartCapture, up to its await.                     *)
Caught(r) == capture' = [capture EXCEPT ![r] = "catch"] /\ Cleanup(r)

(* startCapture up to its first await: a session that is there is ended     *)
(* first.                                                                   *)
StartCapture(r) ==
  IF currentSession = 0
  THEN /\ currentSession' = r
       /\ capture' = [capture EXCEPT ![r] = "media"]
       /\ UNCHANGED <<quit, replaced, cleanupPromise, mediaStream>>
  ELSE /\ StopCapture
       /\ capture' = [capture EXCEPT ![r] = "replacing"]
       /\ replaced' = [replaced EXCEPT ![r] = currentSession]

(* runtime.stop of r is answered.                                           *)
StopAnswered(r) ==
  /\ cleanup' = [cleanup EXCEPT ![r] = "done"]
  /\ runtime' = [runtime EXCEPT ![r] = IF @ \in {"starting", "failing"} THEN "failing" ELSE "off"]

(* The next message of the service worker.  A STOP_CAPTURE of a session      *)
(* that still replaces another finds another session, or none, the current  *)
(* one: it ends nothing and is answered as a success.                       *)
Receive ==
  /\ toOffscreen # <<>>
  /\ toOffscreen' = Tail(toOffscreen)
  /\ LET r == Head(toOffscreen).of
     IN  \/ /\ Head(toOffscreen).type = "START_CAPTURE"
            /\ StartCapture(r)
            /\ UNCHANGED <<stopsWaiting, cleanup, runtime, overlooked>>
         \/ /\ Head(toOffscreen).type = "STOP_CAPTURE" /\ currentSession = r
            /\ StopCapture
            /\ stopsWaiting' = stopsWaiting \union {r}
            /\ UNCHANGED <<capture, replaced, cleanup, runtime, overlooked>>
         \/ /\ Head(toOffscreen).type = "STOP_CAPTURE" /\ currentSession # r
            /\ StopAnswered(r)
            /\ overlooked' = overlooked \union {x \in {r} : capture[x] = "replacing"}
            /\ UNCHANGED <<stopsWaiting, currentSession, quit, capture, replaced,
                           cleanupPromise, mediaStream>>
  /\ UNCHANGED <<background, inbox, wanted, preparing, failureNotified, audioCtx, ws, forgotten>>

(* stopCapture goes on after the cleanup.                                   *)
StopContinuesOffscreen(r) ==
  /\ r \in stopsWaiting /\ cleanupPromise[r] = "done"
  /\ stopsWaiting' = stopsWaiting \ {r}
  /\ StopAnswered(r)
  /\ UNCHANGED <<background, inbox, wanted, preparing, toOffscreen, document, forgotten,
                 overlooked>>

(* startCapture goes on after the session it replaces has ended.            *)
ReplacementContinues(r) ==
  /\ capture[r] = "replacing" /\ cleanupPromise[replaced[r]] = "done"
  /\ currentSession' = r
  /\ capture' = [capture EXCEPT ![r] = "media"]
  /\ UNCHANGED <<replaced, quit, failureNotified, cleanupPromise, mediaStream, audioCtx, ws>>

(* getUserMedia answers.  The stream is stored before anything is looked    *)
(* at; the AudioContext is made if the session is still current.            *)
MediaSettles(r) ==
  /\ capture[r] = "media"
  /\ \/ Caught(r) /\ UNCHANGED audioCtx
     \/ /\ Current(r)
        /\ mediaStream' = [mediaStream EXCEPT ![r] = TRUE]
        /\ audioCtx' = [audioCtx EXCEPT ![r] = TRUE]
        /\ capture' = [capture EXCEPT ![r] = "context"]
        /\ UNCHANGED cleanupPromise
     \/ /\ ~Current(r)
        /\ mediaStream' = [mediaStream EXCEPT ![r] = cleanupPromise[r] # "none"]
        /\ cleanupPromise' = [cleanupPromise EXCEPT ![r] = IF @ = "none" THEN "done" ELSE @]
        /\ capture' = [capture EXCEPT ![r] = "catch"]
        /\ UNCHANGED audioCtx
  /\ UNCHANGED <<currentSession, replaced, quit, failureNotified, ws>>

(* The AudioContext runs or is blocked; the socket is made.                 *)
ContextSettles(r) ==
  /\ capture[r] = "context"
  /\ \/ Caught(r) /\ UNCHANGED ws
     \/ /\ Current(r)
        /\ capture' = [capture EXCEPT ![r] = "socket"]
        /\ ws' = [ws EXCEPT ![r] = "connecting"]
        /\ UNCHANGED <<cleanupPromise, mediaStream>>
  /\ UNCHANGED <<currentSession, replaced, quit, failureNotified, audioCtx>>

(* The timer of connectWebSocket.                                           *)
ConnectTimesOut(r) ==
  /\ capture[r] = "socket"
  /\ Caught(r)
  /\ UNCHANGED <<currentSession, replaced, quit, failureNotified, audioCtx, ws>>

SocketOpens(r) ==
  /\ ws[r] = "connecting"
  /\ ws' = [ws EXCEPT ![r] = "open"]
  /\ UNCHANGED <<currentSession, capture, replaced, quit, failureNotified, cleanupPromise,
                 mediaStream, audioCtx>>

(* cleanupSession goes on when the AudioContext is closed.                  *)
CleanupContinues(r) ==
  /\ cleanupPromise[r] = "closing"
  /\ cleanupPromise' = [cleanupPromise EXCEPT ![r] = "done"]
  /\ audioCtx' = [audioCtx EXCEPT ![r] = FALSE]
  /\ ws' = [ws EXCEPT ![r] = IF @ \in {"connecting", "open"} THEN "closing" ELSE @]
  /\ UNCHANGED <<currentSession, capture, replaced, quit, failureNotified, mediaStream>>

(* Steps of the document that nobody is told of.                            *)
Quiet(r) ==
  /\ \/ ReplacementContinues(r)
     \/ MediaSettles(r)
     \/ ContextSettles(r)
     \/ ConnectTimesOut(r)
     \/ SocketOpens(r)
     \/ CleanupContinues(r)
  /\ UNCHANGED <<background, cleanup, external, wanted, preparing, toOffscreen, stopsWaiting,
                 forgotten, overlooked>>

(* SESSION_READY of the current session: the PCM begins to flow, ACTIVE is  *)
(* told and START_CAPTURE answered.                                         *)
SessionReady(r) ==
  /\ capture[r] = "socket" /\ ws[r] = "open" /\ Current(r)
  /\ capture' = [capture EXCEPT ![r] = "live"]
  /\ runtime' = [runtime EXCEPT ![r] = "live"]
  /\ inbox' = [inbox EXCEPT ![r] = @ \o <<"ACTIVE", "started">>]
  /\ UNCHANGED <<background, cleanup, wanted, preparing, toOffscreen, stopsWaiting, currentSession,
                 replaced, quit, failureNotified, cleanupPromise, mediaStream, audioCtx, ws, forgotten,
                 overlooked>>

(* runStartCapture throws after the cleanup in its catch block.             *)
CatchThrows(r) ==
  /\ capture[r] = "catch" /\ cleanupPromise[r] = "done"
  /\ capture' = [capture EXCEPT ![r] = "refused"]
  /\ Refuse(r)
  /\ UNCHANGED <<background, cleanup, wanted, preparing, toOffscreen, stopsWaiting, currentSession,
                 replaced, quit, failureNotified, cleanupPromise, mediaStream, audioCtx, ws, forgotten,
                 overlooked>>

(* onerror, onclose, or a fatal ERROR of the backend: it ends               *)
(* connectWebSocket if that is pending, otherwise the session.  The close   *)
(* comes after an error, and after the end of a cleanup.                    *)
SocketFails(r) ==
  /\ \E after \in CASE ws[r] = "connecting" -> {"closing"}
                    [] ws[r] = "open" -> {"closing", "closed"} \union (IF Current(r) THEN {"open"} ELSE {})
                    [] ws[r] = "closing" -> {"closed"}
                    [] OTHER -> {} :
       ws' = [ws EXCEPT ![r] = after]
  /\ \/ /\ capture[r] = "socket"
        /\ Caught(r)
        /\ UNCHANGED <<external, failureNotified, currentSession, quit>>
     \/ /\ capture[r] # "socket" /\ Current(r)
        /\ FailSession(r)
        /\ UNCHANGED capture
     \/ /\ capture[r] # "socket" /\ ~Current(r)
        /\ UNCHANGED <<external, failureNotified, currentSession, quit, cleanupPromise,
                       mediaStream, capture>>
  /\ UNCHANGED <<background, cleanup, wanted, preparing, toOffscreen, stopsWaiting, replaced,
                 audioCtx, forgotten, overlooked>>

HostStep(r) ==
  \/ Prepared(r)
  \/ StopContinuesOffscreen(r)
  \/ Quiet(r)
  \/ SessionReady(r)
  \/ CatchThrows(r)
  \/ SocketFails(r)

HostNext ==
  \/ Manager
  \/ Receive
  \/ \E r \in Records : HostStep(r)
  \/ Restart

HostSpec == HostInit /\ [][HostNext]_hostVars
-----------------------------------------------------------------------------
HostTypeOK ==
  /\ preparing \in [Records -> {"no", "stream", "ping", "sent", "over"}]
  /\ toOffscreen \in Seq([type : {"START_CAPTURE", "STOP_CAPTURE"}, of : Records])
  /\ stopsWaiting \subseteq Records
  /\ currentSession \in 0..MaxRecords /\ overlooked \subseteq Records
  /\ capture \in [Records -> {"none", "replacing", "media", "context", "socket", "catch", "live", "refused"}]
  /\ replaced \in [Records -> 0..MaxRecords]
  /\ quit \in [Records -> BOOLEAN] /\ failureNotified \in [Records -> BOOLEAN]
  /\ cleanupPromise \in [Records -> {"none", "closing", "done"}]
  /\ mediaStream \in [Records -> BOOLEAN] /\ audioCtx \in [Records -> BOOLEAN]
  /\ ws \in [Records -> {"none", "connecting", "open", "closing", "closed"}]
  /\ \A r \in Records : ws[r] \in {"connecting", "open"} => audioCtx[r]

(* Until the service worker is ended, the adapter and the offscreen         *)
(* document are a runtime as SessionManager counts on: no answer or event   *)
(* comes that it does not expect, and what a stop has ended stays ended.    *)
KeepsToManager == [][forgotten' = <<>> => Next]_vars

(* README.md:283: after a stop the dubbing is over.  It does not hold: only  *)
(* after a restart of the service worker can startCapture find a session to *)
(* end first, and while it awaits that end, its own session is not yet the  *)
(* current one.  A STOP_CAPTURE of that moment ends nothing, is answered as *)
(* a success, and the session comes up afterwards without an owner.         *)
StopAlwaysEnds ==
  \A r \in Records : cleanup[r] = "done" => currentSession # r

(* That is the only way.  Unless a STOP has found a session replacing        *)
(* another, a STOP that was answered ended the session wherever it found    *)
(* runStartCapture, and nothing comes up after it: an AudioContext, or the  *)
(* socket that goes with it, is at most still closing.                      *)
QuietAfterStop ==
  overlooked = {} =>
    /\ StopAlwaysEnds
    /\ \A r \in Records : cleanup[r] = "done" => (audioCtx[r] => cleanupPromise[r] # "none")

Captures(r) == audioCtx[r] /\ cleanupPromise[r] = "none"

(* Begun before the service worker was ended for the first time.            *)
First(r) == forgotten = <<>> \/ r \in forgotten[1]

(* Two tabs are never heard at once, unless a STOP has found a session      *)
(* replacing another; and even then a session that the first restart of the *)
(* service worker left without an owner ends before a later one is heard.   *)
(* (The session that came up after its STOP is not replaced by the next,    *)
(* if that one too waited for the end of an old one.)                       *)
OneCapture ==
  /\ HostTypeOK
  /\ \A q, r \in Records :
       q # r /\ Captures(q) /\ Captures(r) => overlooked # {} /\ ~First(q) /\ ~First(r)

(* What the offscreen document promises of the tabs, in every order of      *)
(* commands, answers of the browser and restarts: OneCapture, and           *)
(* QuietAfterStop.                                                          *)
CapturesEnd == OneCapture /\ QuietAfterStop

(* A tab whose session has ended, its start included, is not captured.      *)
StoppedReleasesTab ==
  \A r \in Records :
    cleanupPromise[r] = "done" /\ capture[r] \in {"live", "refused"} => ~mediaStream[r]
=============================================================================
