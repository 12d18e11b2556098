--------------------------- MODULE SessionManager ---------------------------
(***************************************************************************)
(* The lifecycle of a dubbing session in the extension's background page:   *)
(* SessionManager.  START, STOP and the events of the runtime (the          *)
(* offscreen document of Chrome, the content script of Firefox) reach it in *)
(* any order, while runStart, stop and the cleanups they share are waiting  *)
(* for the runtime's answers.                                               *)
(*                                                                          *)
(* A session is its record, numbered by sessionSequence.  The runtime is    *)
(* external and is modelled by what SessionManager counts on: per session   *)
(* its messages arrive in the order it sent them, the ACTIVE event before   *)
(* the answer to start; it answers every start, be it after the stop of the *)
(* session; and after a stop that succeeded it neither runs nor comes up    *)
(* any more: ChromeHost has the code behind this.  A stop may fail.         *)
(* Warnings, mixer, mode and seek forwarding are left out.                  *)
(***************************************************************************)
EXTENDS Naturals, Sequences, SequencesExt

CONSTANTS
  Tabs,        \* tabs with a video
  NoTab,       \* a tab id that beginStart refuses
  MaxRecords   \* bound: sessions begun

ASSUME SessionAssumption == NoTab \notin Tabs /\ MaxRecords \in Nat \ {0}

Records == 1..MaxRecords
States == {"IDLE", "INITIALIZING", "READY", "CONNECTING", "ACTIVE", "STOPPING", "ERROR"}
Starting == {"INITIALIZING", "READY", "CONNECTING"}

(* runStart: not begun; awaits ensureReady; awaits start; awaits the        *)
(* cleanup in its catch block, having found the record cancelled or not;    *)
(* settled.                                                                 *)
StartPhases == {"unborn", "ensureReady", "start", "catchCancelled", "catchFailed", "settled"}

VARIABLES
  currentRecord,       \* 0: null
  lifecycleGeneration,
  sessionSequence,
  pendingStart,        \* {} or one: it waits for a record's stop, then for one's start
  state, sessionId,    \* of the snapshot, 0: null
  tab, generation, cancelled, runtimeFailureHandled,  \* of each record
  startPhase,          \* of each record: how far runStart is (startPromise)
  stopping,            \* of each record: stopPromise is pending
  cleanup,             \* of each record: cleanupPromise
  runtime,             \* external: what runs for the session
  inbox,               \* external: messages of the runtime in flight
  wanted               \* history: the user's last command was START

record == <<tab, generation, cancelled, runtimeFailureHandled>>
external == <<runtime, inbox>>
vars == <<currentRecord, lifecycleGeneration, sessionSequence, pendingStart, state,
          sessionId, record, startPhase, stopping, cleanup, external, wanted>>

Init ==
  /\ currentRecord = 0 /\ lifecycleGeneration = 0 /\ sessionSequence = 0
  /\ pendingStart = {} /\ state = "IDLE" /\ sessionId = 0
  /\ tab = [r \in Records |-> NoTab]
  /\ generation = [r \in Records |-> 0]
  /\ cancelled = [r \in Records |-> FALSE]
  /\ runtimeFailureHandled = [r \in Records |-> FALSE]
  /\ startPhase = [r \in Records |-> "unborn"]
  /\ stopping = [r \in Records |-> FALSE]
  /\ cleanup = [r \in Records |-> "none"]
  /\ runtime = [r \in Records |-> "off"]
  /\ inbox = [r \in Records |-> <<>>]
  /\ wanted = FALSE

IsCurrent(r) == ~cancelled[r] /\ generation[r] = lifecycleGeneration
                  /\ currentRecord = r /\ sessionId = r

(* cleanupRecord: the runtime is asked to stop once per record.             *)
CleanupRecord(r) == cleanup' = [cleanup EXCEPT ![r] = IF @ = "none" THEN "pending" ELSE @]

(* beginStart up to the first await of runStart.                            *)
BeginStart(t) ==
  IF t = NoTab
  THEN /\ state' = "ERROR" /\ sessionId' = 0 /\ currentRecord' = 0
       /\ UNCHANGED <<lifecycleGeneration, sessionSequence, tab, generation, startPhase>>
  ELSE /\ sessionSequence' = sessionSequence + 1
       /\ lifecycleGeneration' = lifecycleGeneration + 1
       /\ currentRecord' = sessionSequence' /\ sessionId' = sessionSequence'
       /\ state' = "INITIALIZING"
       /\ tab' = [tab EXCEPT ![sessionSequence'] = t]
       /\ generation' = [generation EXCEPT ![sessionSequence'] = lifecycleGeneration']
       /\ startPhase' = [startPhase EXCEPT ![sessionSequence'] = "ensureReady"]

(* stop of the current record: at most one stop of it is in flight.         *)
StopCurrent ==
  IF stopping[currentRecord]
  THEN UNCHANGED <<cancelled, lifecycleGeneration, state, stopping, cleanup>>
  ELSE /\ cancelled' = [cancelled EXCEPT ![currentRecord] = TRUE]
       /\ lifecycleGeneration' = lifecycleGeneration + 1
       /\ state' = "STOPPING"
       /\ stopping' = [stopping EXCEPT ![currentRecord] = TRUE]
       /\ CleanupRecord(currentRecord)

(* start answers with a promise it already has, and changes nothing.        *)
AlreadyStarting(t) ==
  \/ pendingStart # {}
  \/ /\ currentRecord # 0 /\ ~cancelled[currentRecord] /\ tab[currentRecord] = t
     /\ \/ state = "ACTIVE"
        \/ state \in Starting /\ startPhase[currentRecord] # "settled"

(* Faulty: the new session does not wait for the end of the old one.        *)
StartAtOnce(t) ==
  /\ sessionSequence < MaxRecords
  /\ wanted' = TRUE
  /\ IF AlreadyStarting(t)
     THEN UNCHANGED <<currentRecord, lifecycleGeneration, sessionSequence, pendingStart,
                      state, sessionId, record, startPhase, stopping, cleanup>>
     ELSE /\ BeginStart(t)
          /\ UNCHANGED <<pendingStart, runtimeFailureHandled, stopping>>
          /\ IF currentRecord = 0 THEN UNCHANGED <<cancelled, cleanup>>
             ELSE /\ cancelled' = [cancelled EXCEPT ![currentRecord] = TRUE]
                  /\ CleanupRecord(currentRecord)
  /\ UNCHANGED external

(* start: a session that exists is stopped first; the new one begins when   *)
(* that stop has resolved.                                                  *)
Start(t) ==
  /\ sessionSequence < MaxRecords
  /\ wanted' = TRUE
  /\ IF AlreadyStarting(t)
     THEN UNCHANGED <<currentRecord, lifecycleGeneration, sessionSequence, pendingStart,
                      state, sessionId, record, startPhase, stopping, cleanup>>
     ELSE IF currentRecord # 0
     THEN /\ StopCurrent
          /\ pendingStart' = {[cancelled |-> FALSE, tab |-> t, awaits |-> "stop", of |-> currentRecord]}
          /\ UNCHANGED <<currentRecord, sessionSequence, sessionId, tab, generation,
                         runtimeFailureHandled, startPhase>>
     ELSE /\ BeginStart(t)
          /\ UNCHANGED <<pendingStart, cancelled, runtimeFailureHandled, stopping, cleanup>>
  /\ UNCHANGED external

(* Faulty: the START that waits is not cancelled.                           *)
StopKeepsPending ==
  /\ wanted' = FALSE
  /\ IF currentRecord = 0
     THEN /\ state' = "IDLE" /\ sessionId' = 0
          /\ UNCHANGED <<cancelled, lifecycleGeneration, stopping, cleanup>>
     ELSE StopCurrent /\ UNCHANGED sessionId
  /\ UNCHANGED <<currentRecord, sessionSequence, pendingStart, tab, generation,
                 runtimeFailureHandled, startPhase, external>>

(* stop, by the user or because the tab is gone: it cancels the START that  *)
(* waits for the old session's end as well.                                 *)
Stop ==
  /\ wanted' = FALSE
  /\ pendingStart' = {[p EXCEPT !.cancelled = TRUE] : p \in pendingStart}
  /\ IF currentRecord = 0
     THEN /\ state' = "IDLE" /\ sessionId' = 0
          /\ UNCHANGED <<cancelled, lifecycleGeneration, stopping, cleanup>>
     ELSE StopCurrent /\ UNCHANGED sessionId
  /\ UNCHANGED <<currentRecord, sessionSequence, tab, generation, runtimeFailureHandled,
                 startPhase, external>>
-----------------------------------------------------------------------------
(* stop goes on after the cleanup, and with it the START that waited: no    *)
(* other task runs in between.                                              *)
StopContinues(r) ==
  /\ stopping[r] /\ cleanup[r] \in {"done", "failed"}
  /\ stopping' = [stopping EXCEPT ![r] = FALSE]
  /\ LET replacement == {p \in pendingStart : p.awaits = "stop" /\ p.of = r}
         allowed == {p \in replacement : cleanup[r] = "done" /\ ~p.cancelled}
     IN  IF allowed # {}
         THEN \E p \in allowed :
                /\ BeginStart(p.tab)
                /\ pendingStart' = IF p.tab = NoTab THEN {}
                                   ELSE {[p EXCEPT !.awaits = "start", !.of = sessionSequence']}
         ELSE /\ pendingStart' = pendingStart \ replacement
              /\ currentRecord' = 0 /\ sessionId' = 0
              /\ state' = IF cleanup[r] = "failed" THEN "ERROR" ELSE "IDLE"
              /\ UNCHANGED <<lifecycleGeneration, sessionSequence, tab, generation, startPhase>>
  /\ UNCHANGED <<cancelled, runtimeFailureHandled, cleanup, external, wanted>>

(* The catch block of runStart, up to its await.                            *)
StartCaught(r) ==
  /\ startPhase' = [startPhase EXCEPT ![r] =
       IF ~cancelled[r] /\ currentRecord = r THEN "catchFailed" ELSE "catchCancelled"]
  /\ CleanupRecord(r)
  /\ UNCHANGED <<state, runtime>>

(* ensureReady resolves or throws.                                          *)
EnsureReadySettles(r) ==
  /\ startPhase[r] = "ensureReady"
  /\ \/ StartCaught(r)
     \/ /\ IsCurrent(r)
        /\ startPhase' = [startPhase EXCEPT ![r] = "start"]
        /\ state' = "CONNECTING"
        /\ runtime' = [runtime EXCEPT ![r] = "starting"]
        /\ UNCHANGED cleanup
  /\ UNCHANGED <<currentRecord, lifecycleGeneration, sessionSequence, pendingStart,
                 sessionId, record, stopping, inbox, wanted>>

(* Faulty: it stays pending.                                                *)
KeepPendingStart(r) == UNCHANGED pendingStart

(* The START that replaced a session has an answer with the start of r.     *)
ForgetPendingStart(r) ==
  pendingStart' = {p \in pendingStart : p.awaits = "stop" \/ p.of # r}

(* Faulty: the answer is believed after a STOP.                             *)
StartSettlesUnchecked(r) ==
  /\ inbox[r] # <<>> /\ Head(inbox[r]) \in {"started", "refused"}
  /\ inbox' = [inbox EXCEPT ![r] = Tail(@)]
  /\ IF Head(inbox[r]) = "started"
     THEN /\ state' = "ACTIVE"
          /\ startPhase' = [startPhase EXCEPT ![r] = "settled"]
          /\ ForgetPendingStart(r)
          /\ UNCHANGED <<cleanup, runtime>>
     ELSE StartCaught(r) /\ UNCHANGED pendingStart
  /\ UNCHANGED <<currentRecord, lifecycleGeneration, sessionSequence, sessionId, record,
                 stopping, wanted>>

(* The answer of runtime.start is the next message of r.                    *)
StartSettles(r) ==
  /\ inbox[r] # <<>> /\ Head(inbox[r]) \in {"started", "refused"}
  /\ inbox' = [inbox EXCEPT ![r] = Tail(@)]
  /\ IF Head(inbox[r]) = "started" /\ IsCurrent(r)
     THEN /\ state' = "ACTIVE"
          /\ startPhase' = [startPhase EXCEPT ![r] = "settled"]
          /\ ForgetPendingStart(r)
          /\ UNCHANGED <<cleanup, runtime>>
     ELSE StartCaught(r) /\ UNCHANGED pendingStart
  /\ UNCHANGED <<currentRecord, lifecycleGeneration, sessionSequence, sessionId, record,
                 stopping, wanted>>

(* runStart goes on after the cleanup in its catch block and throws.        *)
CatchContinues(r) ==
  /\ startPhase[r] \in {"catchCancelled", "catchFailed"}
  /\ cleanup[r] \in {"done", "failed"}
  /\ state' = IF startPhase[r] = "catchFailed" /\ currentRecord = r THEN "ERROR" ELSE state
  /\ startPhase' = [startPhase EXCEPT ![r] = "settled"]
  /\ ForgetPendingStart(r)
  /\ UNCHANGED <<currentRecord, lifecycleGeneration, sessionSequence, sessionId, record,
                 stopping, cleanup, external, wanted>>

(* handleRuntimeEvent: the runtime says that session r is active, or that   *)
(* it failed for good.                                                      *)
HandleRuntimeEvent(r) ==
  /\ inbox[r] # <<>> /\ Head(inbox[r]) \in {"ACTIVE", "fatal"}
  /\ inbox' = [inbox EXCEPT ![r] = Tail(@)]
  /\ IF currentRecord # r \/ sessionId # r \/ cancelled[r]
     THEN UNCHANGED <<state, cancelled, runtimeFailureHandled, lifecycleGeneration, cleanup>>
     ELSE IF Head(inbox[r]) = "ACTIVE"
     THEN /\ state' = "ACTIVE"
          /\ UNCHANGED <<cancelled, runtimeFailureHandled, lifecycleGeneration, cleanup>>
     ELSE /\ state' = "ERROR"
          /\ cancelled' = [cancelled EXCEPT ![r] = TRUE]
          /\ runtimeFailureHandled' = [runtimeFailureHandled EXCEPT ![r] = TRUE]
          /\ lifecycleGeneration' = lifecycleGeneration + 1
          /\ CleanupRecord(r)
  /\ UNCHANGED <<currentRecord, sessionSequence, pendingStart, sessionId, tab, generation,
                 startPhase, stopping, runtime, wanted>>
-----------------------------------------------------------------------------
(* External.  runtime.start succeeds in the runtime.                        *)
RuntimeGoesLive(r) ==
  /\ runtime[r] = "starting"
  /\ runtime' = [runtime EXCEPT ![r] = "live"]
  /\ inbox' = [inbox EXCEPT ![r] = @ \o <<"ACTIVE", "started">>]

(* External.  runtime.start is refused.                                     *)
RuntimeRefuses(r) ==
  /\ runtime[r] \in {"starting", "failing"}
  /\ runtime' = [runtime EXCEPT ![r] = IF @ = "starting" THEN "refused" ELSE "off"]
  /\ inbox' = [inbox EXCEPT ![r] = Append(@, "refused")]

(* External.  A session that runs fails, or one that could not start sends  *)
(* an ERROR event of its own, before or after the refusal.                  *)
RuntimeFails(r) ==
  /\ runtime[r] \in {"starting", "live", "refused"}
  /\ runtime' = [runtime EXCEPT ![r] = IF @ = "starting" THEN "failing" ELSE "off"]
  /\ inbox' = [inbox EXCEPT ![r] = Append(@, "fatal")]

(* External.  runtime.stop settles; a start it has stopped will be refused. *)
RuntimeStops(r) ==
  /\ cleanup[r] = "pending"
  /\ \/ /\ cleanup' = [cleanup EXCEPT ![r] = "done"]
        /\ runtime' = [runtime EXCEPT ![r] = IF @ \in {"starting", "failing"} THEN "failing" ELSE "off"]
        /\ UNCHANGED inbox
     \/ /\ cleanup' = [cleanup EXCEPT ![r] = "failed"]
        /\ UNCHANGED external

RuntimeStep(r) ==
  /\ \/ RuntimeStops(r)
     \/ (RuntimeGoesLive(r) \/ RuntimeRefuses(r) \/ RuntimeFails(r)) /\ UNCHANGED cleanup
  /\ UNCHANGED <<currentRecord, lifecycleGeneration, sessionSequence, pendingStart, state,
                 sessionId, record, startPhase, stopping, wanted>>

Answer(r) ==
  \/ StopContinues(r)
  \/ EnsureReadySettles(r)
  \/ StartSettles(r)
  \/ CatchContinues(r)
  \/ HandleRuntimeEvent(r)

Next ==
  \/ \E t \in Tabs \union {NoTab} : Start(t)
  \/ Stop
  \/ \E r \in Records : Answer(r) \/ RuntimeStep(r)

Spec == Init /\ [][Next]_vars

(* What is owed to session r: messages are delivered and promises settle,   *)
(* for the runtime's requests all have timeouts or an answer of the         *)
(* browser.  The user need not act, and a live runtime need not fail.       *)
Owed(r) ==
  \/ Answer(r)
  \/ RuntimeStep(r) /\ (runtime[r] \in {"starting", "failing"} \/ cleanup'[r] # cleanup[r])

Fairness == \A r \in Records : WF_vars(Owed(r))

FairSpec == Spec /\ Fairness
-----------------------------------------------------------------------------
TypeOK ==
  /\ currentRecord \in 0..MaxRecords
  /\ lifecycleGeneration \in Nat /\ sessionSequence \in 0..MaxRecords
  /\ pendingStart \subseteq
       [cancelled : BOOLEAN, tab : Tabs \union {NoTab}, awaits : {"stop", "start"}, of : Records]
  /\ state \in States /\ sessionId \in {0, currentRecord}
  /\ tab \in [Records -> Tabs \union {NoTab}]
  /\ generation \in [Records -> Nat]
  /\ cancelled \in [Records -> BOOLEAN]
  /\ runtimeFailureHandled \in [Records -> BOOLEAN]
  /\ startPhase \in [Records -> StartPhases]
  /\ stopping \in [Records -> BOOLEAN]
  /\ cleanup \in [Records -> {"none", "pending", "done", "failed"}]
  /\ runtime \in [Records -> {"off", "starting", "failing", "refused", "live"}]
  /\ inbox \in [Records -> Seq({"ACTIVE", "started", "refused", "fatal"})]
  /\ wanted \in BOOLEAN

(* The popup says ACTIVE only of a session that runs, or whose failure is   *)
(* on its way; and the generation test never cancels the session the user   *)
(* is waiting for.                                                          *)
ActiveIsLive ==
  /\ state = "ACTIVE" =>
       /\ currentRecord # 0 /\ ~cancelled[currentRecord]
       /\ runtime[currentRecord] = "live" \/ "fatal" \in Range(inbox[currentRecord])
  /\ currentRecord # 0 /\ ~cancelled[currentRecord] =>
       generation[currentRecord] = lifecycleGeneration /\ sessionId = currentRecord

(* Besides the types: no session is forgotten while it runs, and as long as *)
(* no stop fails two never capture at once.  What runs belongs to the       *)
(* current record, unless its stop was asked for and failed: such a session *)
(* may go on beside the next one.  And the record of a cancelled session    *)
(* has asked for the stop of its runtime.                                   *)
OneRuntime ==
  /\ TypeOK
  /\ \A r \in Records :
       /\ runtime[r] \in {"starting", "live"} => r = currentRecord \/ cleanup[r] = "failed"
       /\ cancelled[r] => cleanup[r] # "none"

(* STOP wins: no session is starting or active unless START was the last    *)
(* command, even when the STOP fell between a stop and its replacement.     *)
StopWins == state \in Starting \union {"ACTIVE"} => wanted

(* No command leaves the extension between two states for ever, and no      *)
(* pending START stays to swallow the next ones.                            *)
LifecycleSettles ==
  []<>(state \in {"IDLE", "ACTIVE", "ERROR"} /\ pendingStart = {})
=============================================================================
