------------------------- MODULE SessionManagerProofs -------------------------
(***************************************************************************)
(* Proofs about SessionManager and ChromeHost, for any number of tabs,      *)
(* sessions and restarts.  SessionManager: STOP wins, no session is         *)
(* forgotten while its runtime runs, and the popup says ACTIVE of a session *)
(* that runs.  ChromeHost: its code is the runtime SessionManager counts    *)
(* on, and what the offscreen document captures ends.                       *)
(*                                                                          *)
(* The inductive invariant LifeInv says what is in the air for a session at *)
(* each point of its runStart (Talks), how its flags go together            *)
(* (RecordFits), and what the one current record, the snapshot and the      *)
(* START that waits have to do with them.  HostInv adds what holds of the   *)
(* pipe and the document in every era of the service worker (EraInv), where *)
(* the START and the STOP of every session are (StopInv) and, before the    *)
(* first restart, how they agree with the manager (Books).                  *)
(***************************************************************************)
EXTENDS ChromeHost, SequenceTheorems, TLAPS

Begun == {"catchCancelled", "catchFailed", "settled"}

(* What runs and what is in flight for a session, by the phase of runStart: *)
(* an answer to start is owed as long as runStart waits for one, ACTIVE is  *)
(* never sent without "started" after it, and nothing but a failure comes   *)
(* later.                                                                   *)
Talks(rt, in, phase, cl) ==
  \/ phase \in {"unborn", "ensureReady"} /\ rt = "off" /\ in = <<>>
  \/ /\ phase = "start"
     /\ \/ rt = "starting" /\ in = <<>> /\ cl # "done"
        \/ rt = "failing" /\ in \in {<<>>, <<"fatal">>}
        \/ rt = "refused" /\ in = <<"refused">>
        \/ rt = "live" /\ in \in {<<"ACTIVE", "started">>, <<"started">>} /\ cl # "done"
        \/ rt = "off" /\ in \in {<<"ACTIVE", "started">>, <<"started">>} /\ cl = "done"
        \/ rt = "off" /\ in \in {<<"ACTIVE", "started", "fatal">>, <<"started", "fatal">>,
                                 <<"fatal", "refused">>, <<"refused">>, <<"refused", "fatal">>}
  \/ /\ phase \in Begun
     /\ \/ rt = "live" /\ in = <<>> /\ cl # "done"
        \/ rt = "refused" /\ in = <<>>
        \/ rt = "off" /\ in \in {<<>>, <<"fatal">>}

RecordFits(r, cur, seq, can, phase, stp, cl, rt, in) ==
  /\ Talks(rt, in, phase, cl)
  /\ can => cl # "none"
  /\ ~can /\ phase \notin Begun => cl = "none"
  /\ stp => can /\ r = cur
  /\ r > seq => phase = "unborn" /\ ~can
  /\ rt \in {"starting", "live"} => r = cur \/ cl = "failed"

RecordsFit ==
  \A r \in Records : RecordFits(r, currentRecord, sessionSequence, cancelled[r], startPhase[r],
                                stopping[r], cleanup[r], runtime[r], inbox[r])

(* The runtime runs, or the news of its end is in flight.                   *)
Shown(rt, in) ==
  \/ rt = "live"
  \/ rt = "off" /\ in \in {<<"ACTIVE", "started", "fatal">>, <<"started", "fatal">>, <<"fatal">>}

(* The snapshot, the current record and the user's wish.                    *)
CurrentFits ==
  /\ sessionId \in {0, currentRecord}
  /\ currentRecord # 0 /\ ~cancelled[currentRecord] =>
       generation[currentRecord] = lifecycleGeneration /\ sessionId = currentRecord /\ wanted
  /\ state \in Starting \union {"ACTIVE"} => currentRecord # 0 /\ ~cancelled[currentRecord]
  /\ state = "ACTIVE" => /\ cleanup[currentRecord] = "none"
                         /\ Shown(runtime[currentRecord], inbox[currentRecord])

Pendings == [cancelled : BOOLEAN, tab : Tabs \union {NoTab}, awaits : {"stop", "start"}, of : Records]

(* A START that waits for a stop waits for that of the current record.      *)
PendingFits ==
  \A p \in pendingStart :
    /\ p.cancelled \/ wanted
    /\ p.awaits = "stop" => /\ p.of = currentRecord /\ stopping[p.of]
                            /\ sessionSequence < MaxRecords

Typed ==
  /\ currentRecord \in 0..sessionSequence /\ sessionSequence \in 0..MaxRecords
  /\ lifecycleGeneration \in Nat /\ state \in States /\ wanted \in BOOLEAN
  /\ pendingStart \subseteq Pendings
  /\ tab \in [Records -> Tabs \union {NoTab}] /\ generation \in [Records -> Nat]
  /\ cancelled \in [Records -> BOOLEAN] /\ runtimeFailureHandled \in [Records -> BOOLEAN]
  /\ startPhase \in [Records -> StartPhases] /\ stopping \in [Records -> BOOLEAN]
  /\ cleanup \in [Records -> {"none", "pending", "done", "failed"}]
  /\ runtime \in [Records -> {"off", "starting", "failing", "refused", "live"}]
  /\ inbox \in [Records -> Seq({"ACTIVE", "started", "refused", "fatal"})]

LifeInv == Typed /\ RecordsFit /\ CurrentFits /\ PendingFits
-----------------------------------------------------------------------------
(* The messages that are read and sent, one by one.                         *)
LEMMA Reading ==
  /\ Head(<<"ACTIVE", "started">>) = "ACTIVE" /\ Tail(<<"ACTIVE", "started">>) = <<"started">>
  /\ Head(<<"started">>) = "started" /\ Tail(<<"started">>) = <<>>
  /\ Head(<<"ACTIVE", "started", "fatal">>) = "ACTIVE"
  /\ Tail(<<"ACTIVE", "started", "fatal">>) = <<"started", "fatal">>
  /\ Head(<<"started", "fatal">>) = "started" /\ Tail(<<"started", "fatal">>) = <<"fatal">>
  /\ Head(<<"fatal", "refused">>) = "fatal" /\ Tail(<<"fatal", "refused">>) = <<"refused">>
  /\ Head(<<"refused", "fatal">>) = "refused" /\ Tail(<<"refused", "fatal">>) = <<"fatal">>
  /\ Head(<<"refused">>) = "refused" /\ Tail(<<"refused">>) = <<>>
  /\ Head(<<"fatal">>) = "fatal" /\ Tail(<<"fatal">>) = <<>>
  OBVIOUS

LEMMA OneMore ==
  ASSUME NEW a, NEW b, NEW c
  PROVE  Append(<<a>>, b) = <<a, b>> /\ Append(<<a, b>>, c) = <<a, b, c>>
<1> DEFINE S == {a, b, c}
<1>1. <<a>> \in Seq(S) /\ <<a, b>> \in Seq(S) /\ <<a, b, c>> \in Seq(S)
  OBVIOUS
<1>2. /\ Append(<<a>>, b) \in Seq(S) /\ Len(Append(<<a>>, b)) = 2
      /\ Append(<<a>>, b)[1] = a /\ Append(<<a>>, b)[2] = b
  BY <1>1
<1>3. /\ Append(<<a, b>>, c) \in Seq(S) /\ Len(Append(<<a, b>>, c)) = 3
      /\ Append(<<a, b>>, c)[1] = a /\ Append(<<a, b>>, c)[2] = b /\ Append(<<a, b>>, c)[3] = c
  BY <1>1
<1>4. Append(<<a>>, b) = <<a, b>>
  <2>1. \A i \in 1..2 : Append(<<a>>, b)[i] = <<a, b>>[i]
    BY <1>2
  <2> QED
    BY <1>1, <1>2, <2>1, SeqEqual
<1>5. Append(<<a, b>>, c) = <<a, b, c>>
  <2>1. \A i \in 1..3 : Append(<<a, b>>, c)[i] = <<a, b, c>>[i]
    BY <1>3
  <2> QED
    BY <1>1, <1>3, <2>1, SeqEqual
<1> QED
  BY <1>4, <1>5

LEMMA Sending ==
  /\ <<>> \o <<"ACTIVE", "started">> = <<"ACTIVE", "started">>
  /\ Append(<<>>, "fatal") = <<"fatal">> /\ Append(<<>>, "refused") = <<"refused">>
  /\ Append(<<"fatal">>, "refused") = <<"fatal", "refused">>
  /\ Append(<<"refused">>, "fatal") = <<"refused", "fatal">>
  /\ Append(<<"started">>, "fatal") = <<"started", "fatal">>
  /\ Append(<<"ACTIVE", "started">>, "fatal") = <<"ACTIVE", "started", "fatal">>
<1>1. <<>> \o <<"ACTIVE", "started">> = <<"ACTIVE", "started">>
  OBVIOUS
<1>2. Append(<<>>, "fatal") = <<"fatal">> /\ Append(<<>>, "refused") = <<"refused">>
  OBVIOUS
<1>3. Append(<<"fatal">>, "refused") = <<"fatal", "refused">>
  BY OneMore, Zenon
<1>4. Append(<<"refused">>, "fatal") = <<"refused", "fatal">>
  BY OneMore, Zenon
<1>5. Append(<<"started">>, "fatal") = <<"started", "fatal">>
  BY OneMore, Zenon
<1>6. Append(<<"ACTIVE", "started">>, "fatal") = <<"ACTIVE", "started", "fatal">>
  BY OneMore, Zenon
<1> QED
  BY <1>1, <1>2, <1>3, <1>4, <1>5, <1>6

(* An answer to start ends the phase "start".                               *)
LEMMA AnswerTaken ==
  ASSUME NEW rt, NEW in, NEW phase, NEW cl, NEW after \in Begun, NEW cl2,
         Talks(rt, in, phase, cl), in # <<>>, Head(in) \in {"started", "refused"},
         cl2 = cl \/ (cl = "none" /\ cl2 = "pending")
  PROVE  /\ Talks(rt, Tail(in), after, cl2) /\ phase = "start"
         /\ Head(in) = "started" /\ cl = "none" => Shown(rt, Tail(in))
         /\ Head(in) = "refused" => ~Shown(rt, in)
  BY Reading DEF Talks, Begun, Shown

(* An event of the runtime leaves the phase alone.                          *)
LEMMA EventTaken ==
  ASSUME NEW rt, NEW in, NEW phase, NEW cl, NEW cl2,
         Talks(rt, in, phase, cl), in # <<>>, Head(in) \in {"ACTIVE", "fatal"},
         cl2 = cl \/ (cl = "none" /\ cl2 = "pending")
  PROVE  /\ Talks(rt, Tail(in), phase, cl2)
         /\ Head(in) = "ACTIVE" => phase = "start" /\ (cl = "none" => Shown(rt, Tail(in)))
  BY Reading DEF Talks, Begun, Shown

(* runStart catches an error, or asks the runtime to start.                 *)
LEMMA PhaseLeft ==
  ASSUME NEW rt, NEW in, NEW cl, NEW cl2, Talks(rt, in, "ensureReady", cl)
  PROVE  /\ \A after \in Begun : Talks(rt, in, after, cl2)
         /\ cl = "none" => Talks("starting", in, "start", cl)
         /\ ~Shown(rt, in) /\ rt = "off"
  BY DEF Talks, Begun, Shown

(* What the runtime does.                                                   *)
LEMMA RuntimeTalks ==
  ASSUME NEW rt, NEW in, NEW phase, NEW cl, Talks(rt, in, phase, cl)
  PROVE  /\ rt = "starting" => Talks("live", in \o <<"ACTIVE", "started">>, phase, cl)
         /\ rt = "starting" => Talks("refused", Append(in, "refused"), phase, cl)
         /\ rt = "failing" => Talks("off", Append(in, "refused"), phase, cl)
         /\ rt = "starting" => Talks("failing", Append(in, "fatal"), phase, cl)
         /\ rt \in {"live", "refused"} => Talks("off", Append(in, "fatal"), phase, cl)
         /\ rt = "live" => Shown("off", Append(in, "fatal"))
         /\ rt \in {"starting", "failing", "refused"} => ~Shown(rt, in)
<1>1. rt = "starting" => Talks("live", in \o <<"ACTIVE", "started">>, phase, cl)
  BY Sending DEF Talks, Begun
<1>2. rt = "starting" => Talks("refused", Append(in, "refused"), phase, cl)
  BY Sending DEF Talks, Begun
<1>3. rt = "failing" => Talks("off", Append(in, "refused"), phase, cl)
  BY Sending DEF Talks, Begun
<1>4. rt = "starting" => Talks("failing", Append(in, "fatal"), phase, cl)
  BY Sending DEF Talks, Begun
<1>5. rt \in {"live", "refused"} => Talks("off", Append(in, "fatal"), phase, cl)
  BY Sending DEF Talks, Begun
<1>6. /\ rt = "live" => Shown("off", Append(in, "fatal"))
      /\ rt \in {"starting", "failing", "refused"} => ~Shown(rt, in)
  BY Sending DEF Talks, Begun, Shown
<1> QED
  BY <1>1, <1>2, <1>3, <1>4, <1>5, <1>6

LEMMA StopTalks ==
  ASSUME NEW rt, NEW in, NEW phase, Talks(rt, in, phase, "pending")
  PROVE  /\ Talks(rt, in, phase, "failed")
         /\ Talks(IF rt \in {"starting", "failing"} THEN "failing" ELSE "off", in, phase, "done")
  BY DEF Talks, Begun
-----------------------------------------------------------------------------
(* Only session r changes.                                                  *)
LEMMA OneRecord ==
  ASSUME RecordsFit, NEW r \in Records, UNCHANGED <<currentRecord, sessionSequence>>,
         \A q \in Records \ {r} :
           /\ cancelled'[q] = cancelled[q] /\ startPhase'[q] = startPhase[q]
           /\ stopping'[q] = stopping[q] /\ cleanup'[q] = cleanup[q]
           /\ runtime'[q] = runtime[q] /\ inbox'[q] = inbox[q],
         RecordFits(r, currentRecord, sessionSequence, cancelled'[r], startPhase'[r],
                    stopping'[r], cleanup'[r], runtime'[r], inbox'[r])
  PROVE  RecordsFit'
<1> SUFFICES ASSUME NEW q \in Records
             PROVE  RecordFits(q, currentRecord', sessionSequence', cancelled'[q], startPhase'[q],
                               stopping'[q], cleanup'[q], runtime'[q], inbox'[q])
  BY DEF RecordsFit
<1>1. RecordFits(q, currentRecord, sessionSequence, cancelled[q], startPhase[q],
                 stopping[q], cleanup[q], runtime[q], inbox[q])
  BY DEF RecordsFit
<1> QED
  BY <1>1

(* A cancelled session may have asked for its cleanup, at any phase.        *)
LEMMA CleanupTalks ==
  ASSUME NEW rt, NEW in, NEW phase, NEW cl, Talks(rt, in, phase, cl)
  PROVE  Talks(rt, in, phase, IF cl = "none" THEN "pending" ELSE cl)
  BY DEF Talks

LEMMA StopCurrentKeeps ==
  ASSUME LifeInv, currentRecord # 0, StopCurrent, wanted' \in BOOLEAN,
         UNCHANGED <<currentRecord, sessionSequence, sessionId, tab, generation,
                     runtimeFailureHandled, startPhase, external>>
  PROVE  /\ Typed' <=> pendingStart' \subseteq Pendings
         /\ RecordsFit' /\ CurrentFits' /\ stopping'[currentRecord]
<1> DEFINE r == currentRecord
<1>1. r \in Records
  BY SessionAssumption DEF LifeInv, Typed, Records
<1>2. RecordFits(r, r, sessionSequence, cancelled[r], startPhase[r],
                 stopping[r], cleanup[r], runtime[r], inbox[r])
  BY <1>1 DEF LifeInv, RecordsFit
<1>3. CASE stopping[r]
  <2>1. UNCHANGED <<cancelled, lifecycleGeneration, state, stopping, cleanup>>
    BY <1>3 DEF StopCurrent
  <2>2. cancelled[r]
    BY <1>2, <1>3 DEF RecordFits
  <2>3. Typed' <=> pendingStart' \subseteq Pendings
    BY <2>1 DEF LifeInv, Typed, external
  <2>4. RecordsFit'
    BY <2>1 DEF LifeInv, RecordsFit, external
  <2>5. CurrentFits'
    BY <2>1, <2>2 DEF LifeInv, CurrentFits
  <2> QED
    BY <1>3, <2>1, <2>3, <2>4, <2>5
<1>4. CASE ~stopping[r]
  <2>1. /\ cancelled' = [cancelled EXCEPT ![r] = TRUE]
        /\ lifecycleGeneration' = lifecycleGeneration + 1 /\ state' = "STOPPING"
        /\ stopping' = [stopping EXCEPT ![r] = TRUE]
        /\ cleanup' = [cleanup EXCEPT ![r] = IF @ = "none" THEN "pending" ELSE @]
    BY <1>4 DEF StopCurrent, CleanupRecord
  <2>2. /\ cancelled'[r] /\ stopping'[r]
        /\ cleanup'[r] = IF cleanup[r] = "none" THEN "pending" ELSE cleanup[r]
        /\ cleanup'[r] # "none"
    BY <1>1, <2>1 DEF LifeInv, Typed
  <2>3. Typed' <=> pendingStart' \subseteq Pendings
    <3>1. /\ cancelled' \in [Records -> BOOLEAN] /\ stopping' \in [Records -> BOOLEAN]
          /\ cleanup' \in [Records -> {"none", "pending", "done", "failed"}]
      BY <1>1, <2>1 DEF LifeInv, Typed
    <3>2. lifecycleGeneration' \in Nat /\ state' \in States
      BY <2>1 DEF LifeInv, Typed, States
    <3> QED
      BY <1>1, <3>1, <3>2 DEF LifeInv, Typed, external
  <2>4. RecordFits(r, currentRecord, sessionSequence, cancelled'[r], startPhase'[r],
                   stopping'[r], cleanup'[r], runtime'[r], inbox'[r])
    <3>1. Talks(runtime'[r], inbox'[r], startPhase'[r], cleanup'[r])
      BY <1>2, <2>2, CleanupTalks DEF RecordFits, external
    <3>2. ~(r > sessionSequence)
      BY <1>1 DEF LifeInv, Typed, Records
    <3> QED
      BY <2>2, <3>1, <3>2 DEF RecordFits
  <2>5. RecordsFit'
    BY <1>1, <2>1, <2>4, OneRecord DEF LifeInv, Typed, external
  <2>6. CurrentFits'
    BY <2>1, <2>2 DEF LifeInv, CurrentFits, Starting
  <2> QED
    BY <2>2, <2>3, <2>5, <2>6
<1> QED
  BY <1>3, <1>4

(* A session begins, or is refused for want of a tab, once the session      *)
(* before it is stopped.                                                    *)
LEMMA BeginStartKeeps ==
  ASSUME LifeInv, NEW t \in Tabs \union {NoTab}, BeginStart(t), sessionSequence < MaxRecords,
         \/ currentRecord = 0 /\ stopping' = stopping
         \/ /\ cleanup[currentRecord] = "done"
            /\ stopping' = [stopping EXCEPT ![currentRecord] = FALSE],
         wanted' \in BOOLEAN, wanted', pendingStart' \subseteq Pendings,
         \A p \in pendingStart' : p.awaits = "start",
         UNCHANGED <<cancelled, runtimeFailureHandled, cleanup, external>>
  PROVE  LifeInv'
<1> DEFINE n == sessionSequence + 1
<1>0. /\ n \in Records /\ sessionSequence \in Nat /\ currentRecord \in 0..sessionSequence
      /\ \A q \in Records : q \in Nat /\ q # 0
  BY SessionAssumption DEF LifeInv, Typed, Records
<1>1. RecordFits(n, currentRecord, sessionSequence, cancelled[n], startPhase[n],
                 stopping[n], cleanup[n], runtime[n], inbox[n])
  BY <1>0 DEF LifeInv, RecordsFit
<1>2. /\ ~cancelled[n] /\ startPhase[n] = "unborn" /\ ~stopping[n] /\ cleanup[n] = "none"
      /\ runtime[n] = "off" /\ inbox[n] = <<>>
  BY <1>0, <1>1 DEF RecordFits, Talks, Begun
<1>3. stopping' \in [Records -> BOOLEAN] /\ \A q \in Records : ~stopping'[q]
  <2>1. \A q \in Records : stopping[q] => q = currentRecord
    BY DEF LifeInv, RecordsFit, RecordFits
  <2>2. stopping \in [Records -> BOOLEAN]
    BY DEF LifeInv, Typed
  <2> QED
    BY <1>0, <2>1, <2>2
<1>4. \A q \in Records : runtime[q] \in {"starting", "live"} => cleanup[q] = "failed"
  BY <1>0 DEF LifeInv, RecordsFit, RecordFits, Talks
<1>5. CASE t = NoTab
  <2>1. /\ state' = "ERROR" /\ sessionId' = 0 /\ currentRecord' = 0
        /\ UNCHANGED <<lifecycleGeneration, sessionSequence, tab, generation, startPhase>>
    BY <1>5 DEF BeginStart
  <2>2. Typed'
    BY <1>0, <1>3, <2>1 DEF LifeInv, Typed, external, States
  <2>3. RecordsFit'
    BY <1>3, <1>4, <2>1 DEF LifeInv, RecordsFit, RecordFits, external
  <2>4. CurrentFits' /\ PendingFits'
    BY <2>1 DEF CurrentFits, PendingFits, Starting
  <2> QED
    BY <2>2, <2>3, <2>4 DEF LifeInv
<1>6. CASE t # NoTab
  <2>1. /\ sessionSequence' = n /\ lifecycleGeneration' = lifecycleGeneration + 1
        /\ currentRecord' = n /\ sessionId' = n /\ state' = "INITIALIZING"
        /\ tab' = [tab EXCEPT ![n] = t]
        /\ generation' = [generation EXCEPT ![n] = lifecycleGeneration']
        /\ startPhase' = [startPhase EXCEPT ![n] = "ensureReady"]
    BY <1>6 DEF BeginStart
  <2>2. Typed'
    <3>1. /\ currentRecord' \in 0..sessionSequence' /\ sessionSequence' \in 0..MaxRecords
          /\ lifecycleGeneration' \in Nat /\ state' \in States
      BY <1>0, <2>1, SessionAssumption DEF LifeInv, Typed, States
    <3>2. /\ tab' \in [Records -> Tabs \union {NoTab}] /\ generation' \in [Records -> Nat]
          /\ startPhase' \in [Records -> StartPhases]
      BY <1>0, <2>1, <3>1 DEF LifeInv, Typed, StartPhases
    <3> QED
      BY <1>3, <3>1, <3>2 DEF LifeInv, Typed, external
  <2>3. /\ startPhase'[n] = "ensureReady" /\ generation'[n] = lifecycleGeneration'
        /\ \A q \in Records \ {n} : startPhase'[q] = startPhase[q]
    BY <1>0, <2>1 DEF LifeInv, Typed
  <2>4. RecordsFit'
    <3> SUFFICES ASSUME NEW q \in Records
                 PROVE  RecordFits(q, n, n, cancelled[q], startPhase'[q],
                                   stopping'[q], cleanup[q], runtime[q], inbox[q])
      BY <2>1 DEF RecordsFit, external
    <3>1. RecordFits(q, currentRecord, sessionSequence, cancelled[q], startPhase[q],
                     stopping[q], cleanup[q], runtime[q], inbox[q])
      BY DEF LifeInv, RecordsFit
    <3>2. CASE q = n
      BY <1>0, <1>2, <1>3, <2>3, <3>2 DEF RecordFits, Talks
    <3>3. CASE q # n
      <4>1. q > n => q > sessionSequence
        BY <1>0
      <4> QED
        BY <1>3, <1>4, <2>3, <3>1, <3>3, <4>1 DEF RecordFits
    <3> QED
      BY <3>2, <3>3
  <2>5. CurrentFits'
    BY <1>0, <1>2, <2>1, <2>3 DEF CurrentFits
  <2>6. PendingFits'
    BY DEF PendingFits
  <2> QED
    BY <2>2, <2>4, <2>5, <2>6 DEF LifeInv
<1> QED
  BY <1>5, <1>6

LEMMA StartKeeps ==
  ASSUME LifeInv, NEW t \in Tabs \union {NoTab}, Start(t)
  PROVE  LifeInv'
<1>1. wanted' = TRUE /\ UNCHANGED external /\ sessionSequence < MaxRecords
  BY DEF Start
<1>2. CASE AlreadyStarting(t)
  <2>1. UNCHANGED <<currentRecord, lifecycleGeneration, sessionSequence, pendingStart,
                    state, sessionId, record, startPhase, stopping, cleanup>>
    BY <1>2 DEF Start
  <2> QED
    BY <1>1, <2>1 DEF LifeInv, Typed, RecordsFit, CurrentFits, PendingFits, record, external
<1>3. CASE ~AlreadyStarting(t) /\ currentRecord # 0
  <2>1. /\ StopCurrent
        /\ pendingStart' = {[cancelled |-> FALSE, tab |-> t, awaits |-> "stop", of |-> currentRecord]}
        /\ UNCHANGED <<currentRecord, sessionSequence, sessionId, tab, generation,
                       runtimeFailureHandled, startPhase>>
    BY <1>3 DEF Start
  <2>2. currentRecord \in Records
    BY <1>3, SessionAssumption DEF LifeInv, Typed, Records
  <2>3. pendingStart' \subseteq Pendings
    BY <2>1, <2>2 DEF Pendings
  <2>4. Typed' /\ RecordsFit' /\ CurrentFits' /\ stopping'[currentRecord]
    BY <1>1, <1>3, <2>1, <2>3, StopCurrentKeeps
  <2>5. PendingFits'
    BY <1>1, <2>1, <2>4 DEF PendingFits
  <2> QED
    BY <2>4, <2>5 DEF LifeInv
<1>4. CASE ~AlreadyStarting(t) /\ currentRecord = 0
  <2>1. /\ BeginStart(t)
        /\ UNCHANGED <<pendingStart, cancelled, runtimeFailureHandled, stopping, cleanup>>
    BY <1>4 DEF Start
  <2>2. pendingStart' = {}
    BY <1>4, <2>1 DEF AlreadyStarting
  <2> QED
    BY <1>1, <1>4, <2>1, <2>2, BeginStartKeeps
<1> QED
  BY <1>2, <1>3, <1>4

LEMMA StopKeeps ==
  ASSUME LifeInv, Stop
  PROVE  LifeInv'
<1>1. /\ wanted' = FALSE
      /\ pendingStart' = {[p EXCEPT !.cancelled = TRUE] : p \in pendingStart}
      /\ UNCHANGED <<currentRecord, sessionSequence, tab, generation, runtimeFailureHandled,
                     startPhase, external>>
  BY DEF Stop
<1>2. /\ pendingStart' \subseteq Pendings
      /\ \A p \in pendingStart' : p.cancelled /\ \E q \in pendingStart : p.awaits = q.awaits /\ p.of = q.of
  <2> SUFFICES ASSUME NEW p \in pendingStart'
               PROVE  /\ p \in Pendings /\ p.cancelled
                      /\ \E q \in pendingStart : p.awaits = q.awaits /\ p.of = q.of
    OBVIOUS
  <2>1. PICK q \in pendingStart : p = [q EXCEPT !.cancelled = TRUE]
    BY <1>1
  <2>2. q \in Pendings
    BY DEF LifeInv, Typed
  <2>3. p \in Pendings /\ p.cancelled /\ p.awaits = q.awaits /\ p.of = q.of
    BY <2>1, <2>2 DEF Pendings
  <2> QED
    BY <2>3
<1>3. CASE currentRecord = 0
  <2>1. /\ state' = "IDLE" /\ sessionId' = 0
        /\ UNCHANGED <<cancelled, lifecycleGeneration, stopping, cleanup>>
    BY <1>3 DEF Stop
  <2>2. Typed'
    BY <1>1, <1>2, <2>1 DEF LifeInv, Typed, external, States
  <2>3. RecordsFit' /\ CurrentFits'
    BY <1>1, <1>3, <2>1 DEF LifeInv, RecordsFit, CurrentFits, external, Starting
  <2>4. PendingFits'
    BY <1>1, <1>2, <2>1 DEF LifeInv, PendingFits
  <2> QED
    BY <2>2, <2>3, <2>4 DEF LifeInv
<1>4. CASE currentRecord # 0
  <2>1. StopCurrent /\ UNCHANGED sessionId
    BY <1>4 DEF Stop
  <2>2. Typed' /\ RecordsFit' /\ CurrentFits' /\ stopping'[currentRecord]
    BY <1>1, <1>2, <1>4, <2>1, StopCurrentKeeps
  <2>3. PendingFits'
    BY <1>1, <1>2, <2>2 DEF LifeInv, PendingFits
  <2> QED
    BY <2>2, <2>3 DEF LifeInv
<1> QED
  BY <1>3, <1>4

(* The continuation of a stop, with the START that waited for it.           *)
LEMMA StopContinuesKeeps ==
  ASSUME LifeInv, NEW r \in Records, StopContinues(r)
  PROVE  LifeInv'
<1> DEFINE replacement == {p \in pendingStart : p.awaits = "stop" /\ p.of = r}
           allowed == {p \in replacement : cleanup[r] = "done" /\ ~p.cancelled}
<1>1. /\ stopping[r] /\ cleanup[r] \in {"done", "failed"}
      /\ stopping' = [stopping EXCEPT ![r] = FALSE]
      /\ UNCHANGED <<cancelled, runtimeFailureHandled, cleanup, external, wanted>>
  BY DEF StopContinues
<1>2. r = currentRecord /\ cancelled[r]
  BY <1>1 DEF LifeInv, RecordsFit, RecordFits
<1>3. CASE allowed # {}
  <2>1. PICK p \in allowed :
          /\ BeginStart(p.tab)
          /\ pendingStart' = IF p.tab = NoTab THEN {}
                             ELSE {[p EXCEPT !.awaits = "start", !.of = sessionSequence']}
    BY <1>3 DEF StopContinues
  <2>2. /\ p \in Pendings /\ p.awaits = "stop" /\ ~p.cancelled /\ cleanup[r] = "done"
        /\ sessionSequence < MaxRecords /\ wanted
    BY DEF LifeInv, Typed, PendingFits
  <2>3. p.tab # NoTab => sessionSequence' \in Records
    BY <2>1, <2>2, SessionAssumption DEF BeginStart, LifeInv, Typed, Records
  <2>4. /\ pendingStart' \subseteq Pendings
        /\ \A q \in pendingStart' : q.awaits = "start"
    BY <2>1, <2>2, <2>3 DEF Pendings
  <2>5. p.tab \in Tabs \union {NoTab} /\ wanted' = wanted /\ wanted \in BOOLEAN
    BY <1>1, <2>2 DEF Pendings, LifeInv, Typed
  <2> QED
    BY <1>1, <1>2, <2>1, <2>2, <2>4, <2>5, BeginStartKeeps
<1>4. CASE allowed = {}
  <2>1. /\ pendingStart' = pendingStart \ replacement
        /\ currentRecord' = 0 /\ sessionId' = 0
        /\ state' = IF cleanup[r] = "failed" THEN "ERROR" ELSE "IDLE"
        /\ UNCHANGED <<lifecycleGeneration, sessionSequence, tab, generation, startPhase>>
    BY <1>4 DEF StopContinues
  <2>2. Typed'
    BY <1>1, <2>1 DEF LifeInv, Typed, external, States
  <2>3. CurrentFits'
    BY <2>1 DEF CurrentFits, Starting
  <2>4. PendingFits'
    BY <1>1, <1>2, <2>1 DEF LifeInv, PendingFits
  <2>5. RecordsFit'
    <3> SUFFICES ASSUME NEW q \in Records
                 PROVE  RecordFits(q, 0, sessionSequence, cancelled[q], startPhase[q],
                                   stopping'[q], cleanup[q], runtime[q], inbox[q])
      BY <1>1, <2>1 DEF RecordsFit, external
    <3>1. RecordFits(q, r, sessionSequence, cancelled[q], startPhase[q],
                     stopping[q], cleanup[q], runtime[q], inbox[q])
      BY <1>2 DEF LifeInv, RecordsFit
    <3>2. ~stopping'[q]
      BY <1>1, <3>1 DEF LifeInv, Typed, RecordFits
    <3>3. runtime[q] \in {"starting", "live"} => cleanup[q] = "failed"
      BY <1>1, <3>1 DEF RecordFits, Talks
    <3> QED
      BY <3>1, <3>2, <3>3 DEF RecordFits
  <2> QED
    BY <2>2, <2>3, <2>4, <2>5 DEF LifeInv
<1> QED
  BY <1>3, <1>4

(* runStart catches an error: with that, session r is past "start", and its *)
(* cleanup is asked for.                                                    *)
LEMMA StartCaughtKeeps ==
  ASSUME LifeInv, NEW r \in Records, StartCaught(r),
         inbox' \in [Records -> Seq({"ACTIVE", "started", "refused", "fatal"})],
         \A q \in Records \ {r} : inbox'[q] = inbox[q],
         \A after \in Begun, cl \in {cleanup[r], "pending"} :
           cl = cleanup[r] \/ cleanup[r] = "none" => Talks(runtime[r], inbox'[r], after, cl),
         startPhase[r] # "unborn",
         r = currentRecord /\ ~cancelled[r] => state # "ACTIVE",
         pendingStart' \subseteq pendingStart,
         UNCHANGED <<currentRecord, lifecycleGeneration, sessionSequence, sessionId, record,
                     stopping, wanted>>
  PROVE  LifeInv'
<1>1. /\ startPhase' = [startPhase EXCEPT ![r] =
             IF ~cancelled[r] /\ currentRecord = r THEN "catchFailed" ELSE "catchCancelled"]
      /\ cleanup' = [cleanup EXCEPT ![r] = IF @ = "none" THEN "pending" ELSE @]
      /\ UNCHANGED <<state, runtime>>
      /\ UNCHANGED <<tab, generation, cancelled, runtimeFailureHandled>>
  BY DEF StartCaught, CleanupRecord, record
<1>2. /\ startPhase'[r] \in Begun /\ cleanup'[r] # "none"
      /\ cleanup'[r] = IF cleanup[r] = "none" THEN "pending" ELSE cleanup[r]
  BY <1>1 DEF LifeInv, Typed, Begun
<1>3. Typed'
  BY <1>1 DEF LifeInv, Typed, StartPhases
<1>4. RecordFits(r, currentRecord, sessionSequence, cancelled[r], startPhase[r],
                 stopping[r], cleanup[r], runtime[r], inbox[r])
  BY DEF LifeInv, RecordsFit
<1>5. Talks(runtime[r], inbox'[r], startPhase'[r], cleanup'[r])
  BY <1>2
<1>6. RecordFits(r, currentRecord, sessionSequence, cancelled[r], startPhase'[r],
                 stopping[r], cleanup'[r], runtime[r], inbox'[r])
  BY <1>2, <1>4, <1>5 DEF RecordFits
<1>7. RecordsFit'
  BY <1>1, <1>6, OneRecord DEF LifeInv, Typed
<1>8. CurrentFits'
  <2>1. currentRecord # r => cleanup'[currentRecord] = cleanup[currentRecord]
                               \/ currentRecord = 0
    BY <1>1 DEF LifeInv, Typed
  <2>2. currentRecord # r /\ currentRecord # 0 => inbox'[currentRecord] = inbox[currentRecord]
    BY SessionAssumption DEF LifeInv, Typed, Records
  <2> QED
    BY <1>1, <2>1, <2>2 DEF LifeInv, CurrentFits, Starting
<1>9. PendingFits'
  BY DEF LifeInv, PendingFits
<1> QED
  BY <1>3, <1>7, <1>8, <1>9 DEF LifeInv

LEMMA EnsureReadyKeeps ==
  ASSUME LifeInv, NEW r \in Records, EnsureReadySettles(r)
  PROVE  LifeInv'
<1>1. /\ startPhase[r] = "ensureReady"
      /\ UNCHANGED <<currentRecord, lifecycleGeneration, sessionSequence, pendingStart,
                     sessionId, record, stopping, inbox, wanted>>
  BY DEF EnsureReadySettles
<1>2. RecordFits(r, currentRecord, sessionSequence, cancelled[r], startPhase[r],
                 stopping[r], cleanup[r], runtime[r], inbox[r])
  BY DEF LifeInv, RecordsFit
<1>3. Talks(runtime[r], inbox[r], "ensureReady", cleanup[r])
  BY <1>1, <1>2 DEF RecordFits
<1>4. CASE StartCaught(r)
  <2>1. \A after \in Begun, cl \in {cleanup[r], "pending"} : Talks(runtime[r], inbox'[r], after, cl)
    BY <1>1, <1>3, PhaseLeft
  <2>2. r = currentRecord /\ ~cancelled[r] => state # "ACTIVE"
    BY <1>3, PhaseLeft DEF LifeInv, CurrentFits
  <2> QED
    BY <1>1, <1>4, <2>1, <2>2, StartCaughtKeeps DEF LifeInv, Typed
<1>5. CASE /\ IsCurrent(r)
           /\ startPhase' = [startPhase EXCEPT ![r] = "start"]
           /\ state' = "CONNECTING"
           /\ runtime' = [runtime EXCEPT ![r] = "starting"]
           /\ UNCHANGED cleanup
  <2>1. r = currentRecord /\ ~cancelled[r] /\ cleanup[r] = "none"
    BY <1>1, <1>2, <1>5 DEF IsCurrent, RecordFits, Begun
  <2>2. /\ startPhase'[r] = "start" /\ runtime'[r] = "starting"
        /\ UNCHANGED <<tab, generation, cancelled, runtimeFailureHandled>>
    BY <1>1, <1>5 DEF LifeInv, Typed, record
  <2>3. Typed'
    BY <1>1, <1>5, <2>2 DEF LifeInv, Typed, StartPhases, States
  <2>4. Talks(runtime'[r], inbox'[r], startPhase'[r], cleanup'[r])
    BY <1>1, <1>3, <1>5, <2>1, <2>2, PhaseLeft
  <2>5. RecordFits(r, currentRecord, sessionSequence, cancelled'[r], startPhase'[r],
                   stopping'[r], cleanup'[r], runtime'[r], inbox'[r])
    BY <1>1, <1>2, <1>5, <2>1, <2>2, <2>4 DEF RecordFits
  <2>6. RecordsFit'
    BY <1>1, <1>5, <2>2, <2>5, OneRecord DEF LifeInv, Typed
  <2>7. currentRecord # 0
    BY <2>1 DEF Records
  <2>8. CurrentFits' /\ PendingFits'
    BY <1>1, <1>5, <2>1, <2>2, <2>7 DEF LifeInv, CurrentFits, PendingFits, Starting
  <2> QED
    BY <2>3, <2>6, <2>8 DEF LifeInv
<1> QED
  BY <1>4, <1>5 DEF EnsureReadySettles

LEMMA StartSettlesKeeps ==
  ASSUME LifeInv, NEW r \in Records, StartSettles(r)
  PROVE  LifeInv'
<1>1. /\ inbox[r] # <<>> /\ Head(inbox[r]) \in {"started", "refused"}
      /\ inbox' = [inbox EXCEPT ![r] = Tail(@)]
      /\ UNCHANGED <<currentRecord, lifecycleGeneration, sessionSequence, sessionId, record,
                     stopping, wanted>>
  BY DEF StartSettles
<1>2. RecordFits(r, currentRecord, sessionSequence, cancelled[r], startPhase[r],
                 stopping[r], cleanup[r], runtime[r], inbox[r])
  BY DEF LifeInv, RecordsFit
<1>3. Talks(runtime[r], inbox[r], startPhase[r], cleanup[r])
  BY <1>2 DEF RecordFits
<1>4. /\ inbox' \in [Records -> Seq({"ACTIVE", "started", "refused", "fatal"})]
      /\ inbox'[r] = Tail(inbox[r]) /\ \A q \in Records \ {r} : inbox'[q] = inbox[q]
  BY <1>1 DEF LifeInv, Typed
<1>5. /\ startPhase[r] = "start"
      /\ \A after \in Begun, cl \in {cleanup[r], "pending"} :
           cl = cleanup[r] \/ cleanup[r] = "none" => Talks(runtime[r], inbox'[r], after, cl)
  <2>1. startPhase[r] = "start"
    <3>1. "settled" \in Begun
      BY DEF Begun
    <3> QED
      BY <1>1, <1>3, <3>1, AnswerTaken
  <2>2. ASSUME NEW after \in Begun, NEW cl, cl = cleanup[r] \/ (cleanup[r] = "none" /\ cl = "pending")
        PROVE  Talks(runtime[r], Tail(inbox[r]), after, cl)
    BY <1>1, <1>3, <2>2, AnswerTaken
  <2> QED
    BY <1>4, <2>1, <2>2
<1>6. CASE Head(inbox[r]) = "started" /\ IsCurrent(r)
  <2>1. /\ state' = "ACTIVE" /\ startPhase' = [startPhase EXCEPT ![r] = "settled"]
        /\ pendingStart' \subseteq pendingStart
        /\ UNCHANGED <<cleanup, runtime>>
        /\ UNCHANGED <<tab, generation, cancelled, runtimeFailureHandled>>
    BY <1>1, <1>6 DEF StartSettles, ForgetPendingStart, record
  <2>2. r = currentRecord /\ ~cancelled[r] /\ cleanup[r] = "none" /\ currentRecord # 0
    BY <1>2, <1>5, <1>6 DEF IsCurrent, RecordFits, Begun, Records
  <2>3. Shown(runtime'[r], inbox'[r])
    <3>1. "settled" \in Begun
      BY DEF Begun
    <3>2. Shown(runtime[r], Tail(inbox[r]))
      BY <1>1, <1>3, <1>6, <2>2, <3>1, AnswerTaken
    <3> QED
      BY <1>4, <2>1, <3>2
  <2>4. startPhase'[r] = "settled" /\ "settled" \in Begun
    BY <2>1 DEF LifeInv, Typed, Begun
  <2>5. Typed'
    BY <1>1, <1>4, <2>1 DEF LifeInv, Typed, StartPhases, States
  <2>6. RecordFits(r, currentRecord, sessionSequence, cancelled'[r], startPhase'[r],
                   stopping'[r], cleanup'[r], runtime'[r], inbox'[r])
    BY <1>1, <1>2, <1>5, <2>1, <2>2, <2>4 DEF RecordFits
  <2>7. RecordsFit'
    BY <1>1, <1>4, <2>1, <2>6, OneRecord DEF LifeInv, Typed
  <2>8. CurrentFits' /\ PendingFits'
    BY <1>1, <2>1, <2>2, <2>3 DEF LifeInv, CurrentFits, PendingFits, Starting
  <2> QED
    BY <2>5, <2>7, <2>8 DEF LifeInv
<1>7. CASE ~(Head(inbox[r]) = "started" /\ IsCurrent(r))
  <2>1. StartCaught(r) /\ UNCHANGED pendingStart
    BY <1>7 DEF StartSettles
  <2>2. r = currentRecord /\ ~cancelled[r] => state # "ACTIVE"
    <3> SUFFICES ASSUME r = currentRecord, ~cancelled[r], state = "ACTIVE" PROVE FALSE
      OBVIOUS
    <3>1. IsCurrent(r) /\ Shown(runtime[r], inbox[r])
      BY DEF IsCurrent, LifeInv, CurrentFits
    <3> QED
      BY <1>1, <1>3, <1>7, <3>1, AnswerTaken DEF Begun
  <2> QED
    BY <1>1, <1>4, <1>5, <2>1, <2>2, StartCaughtKeeps
<1> QED
  BY <1>6, <1>7

(* The end of a cleanup in runStart: nothing but its promise is left.       *)
LEMMA CatchKeeps ==
  ASSUME LifeInv, NEW r \in Records, CatchContinues(r)
  PROVE  LifeInv'
<1>1. /\ startPhase[r] \in {"catchCancelled", "catchFailed"}
      /\ state' = IF startPhase[r] = "catchFailed" /\ currentRecord = r THEN "ERROR" ELSE state
      /\ startPhase' = [startPhase EXCEPT ![r] = "settled"]
      /\ pendingStart' \subseteq pendingStart
      /\ UNCHANGED <<currentRecord, lifecycleGeneration, sessionSequence, sessionId, tab,
                     generation, cancelled, runtimeFailureHandled,
                     stopping, cleanup, runtime, inbox, wanted>>
  BY DEF CatchContinues, ForgetPendingStart, record, external
<1>2. RecordFits(r, currentRecord, sessionSequence, cancelled[r], startPhase[r],
                 stopping[r], cleanup[r], runtime[r], inbox[r])
  BY DEF LifeInv, RecordsFit
<1>3. RecordFits(r, currentRecord, sessionSequence, cancelled[r], "settled",
                 stopping[r], cleanup[r], runtime[r], inbox[r])
  BY <1>1, <1>2 DEF RecordFits, Talks, Begun
<1>4. startPhase'[r] = "settled"
  BY <1>1 DEF LifeInv, Typed
<1>5. Typed'
  BY <1>1 DEF LifeInv, Typed, StartPhases, States
<1>6. RecordsFit'
  BY <1>1, <1>3, <1>4, OneRecord DEF LifeInv, Typed
<1>7. CurrentFits' /\ PendingFits'
  BY <1>1 DEF LifeInv, CurrentFits, PendingFits, Starting
<1> QED
  BY <1>5, <1>6, <1>7 DEF LifeInv

LEMMA EventKeeps ==
  ASSUME LifeInv, NEW r \in Records, HandleRuntimeEvent(r)
  PROVE  LifeInv'
<1>1. /\ inbox[r] # <<>> /\ Head(inbox[r]) \in {"ACTIVE", "fatal"}
      /\ inbox' = [inbox EXCEPT ![r] = Tail(@)]
      /\ UNCHANGED <<currentRecord, sessionSequence, pendingStart, sessionId, tab, generation,
                     startPhase, stopping, runtime, wanted>>
  BY DEF HandleRuntimeEvent
<1>2. RecordFits(r, currentRecord, sessionSequence, cancelled[r], startPhase[r],
                 stopping[r], cleanup[r], runtime[r], inbox[r])
  BY DEF LifeInv, RecordsFit
<1>3. Talks(runtime[r], inbox[r], startPhase[r], cleanup[r])
  BY <1>2 DEF RecordFits
<1>4. /\ inbox' \in [Records -> Seq({"ACTIVE", "started", "refused", "fatal"})]
      /\ inbox'[r] = Tail(inbox[r]) /\ \A q \in Records \ {r} : inbox'[q] = inbox[q]
  BY <1>1 DEF LifeInv, Typed
<1>5. /\ Talks(runtime[r], inbox'[r], startPhase[r], cleanup[r])
      /\ Head(inbox[r]) = "ACTIVE" =>
           startPhase[r] = "start" /\ (cleanup[r] = "none" => Shown(runtime[r], inbox'[r]))
  BY <1>1, <1>3, <1>4, EventTaken
<1>6. r # 0
  BY DEF Records
<1>7. CASE currentRecord # r \/ sessionId # r \/ cancelled[r]
  <2>1. UNCHANGED <<state, cancelled, runtimeFailureHandled, lifecycleGeneration, cleanup>>
    BY <1>7 DEF HandleRuntimeEvent
  <2>2. Typed'
    BY <1>1, <1>4, <2>1 DEF LifeInv, Typed
  <2>3. RecordFits(r, currentRecord, sessionSequence, cancelled'[r], startPhase'[r],
                   stopping'[r], cleanup'[r], runtime'[r], inbox'[r])
    BY <1>1, <1>2, <1>5, <2>1 DEF RecordFits
  <2>4. RecordsFit'
    BY <1>1, <1>4, <2>1, <2>3, OneRecord DEF LifeInv
  <2>5. state = "ACTIVE" => currentRecord \in Records \ {r}
    BY <1>6, <1>7, SessionAssumption DEF LifeInv, Typed, CurrentFits, Records
  <2>6. CurrentFits' /\ PendingFits'
    BY <1>1, <1>4, <2>1, <2>5 DEF LifeInv, CurrentFits, PendingFits
  <2> QED
    BY <2>2, <2>4, <2>6 DEF LifeInv
<1>8. CASE currentRecord = r /\ ~cancelled[r] /\ Head(inbox[r]) = "ACTIVE" /\ sessionId = r
  <2>1. state' = "ACTIVE" /\ UNCHANGED <<cancelled, runtimeFailureHandled, lifecycleGeneration, cleanup>>
    BY <1>8 DEF HandleRuntimeEvent
  <2>2. cleanup[r] = "none"
    BY <1>2, <1>5, <1>8 DEF RecordFits, Begun
  <2>3. Typed'
    BY <1>1, <1>4, <2>1 DEF LifeInv, Typed, States
  <2>4. RecordFits(r, currentRecord, sessionSequence, cancelled'[r], startPhase'[r],
                   stopping'[r], cleanup'[r], runtime'[r], inbox'[r])
    BY <1>1, <1>2, <1>5, <2>1 DEF RecordFits
  <2>5. RecordsFit'
    BY <1>1, <1>4, <2>1, <2>4, OneRecord DEF LifeInv
  <2>6. CurrentFits' /\ PendingFits'
    BY <1>1, <1>5, <1>6, <1>8, <2>1, <2>2 DEF LifeInv, CurrentFits, PendingFits
  <2> QED
    BY <2>3, <2>5, <2>6 DEF LifeInv
<1>9. CASE currentRecord = r /\ ~cancelled[r] /\ Head(inbox[r]) # "ACTIVE" /\ sessionId = r
  <2>1. /\ state' = "ERROR" /\ cancelled' = [cancelled EXCEPT ![r] = TRUE]
        /\ runtimeFailureHandled' = [runtimeFailureHandled EXCEPT ![r] = TRUE]
        /\ lifecycleGeneration' = lifecycleGeneration + 1
        /\ cleanup' = [cleanup EXCEPT ![r] = IF @ = "none" THEN "pending" ELSE @]
    BY <1>9 DEF HandleRuntimeEvent, CleanupRecord
  <2>2. /\ cancelled'[r] /\ cleanup'[r] # "none"
        /\ cleanup'[r] = IF cleanup[r] = "none" THEN "pending" ELSE cleanup[r]
    BY <2>1 DEF LifeInv, Typed
  <2>3. Typed'
    BY <1>1, <1>4, <2>1 DEF LifeInv, Typed, States
  <2>4. Talks(runtime'[r], inbox'[r], startPhase'[r], cleanup'[r])
    BY <1>1, <1>5, <2>2, CleanupTalks
  <2>5. ~(r > sessionSequence)
    BY <1>9 DEF LifeInv, Typed, Records
  <2>6. RecordFits(r, currentRecord, sessionSequence, cancelled'[r], startPhase'[r],
                   stopping'[r], cleanup'[r], runtime'[r], inbox'[r])
    BY <1>1, <1>2, <1>9, <2>2, <2>4, <2>5 DEF RecordFits
  <2>7. RecordsFit'
    BY <1>1, <1>4, <2>1, <2>6, OneRecord DEF LifeInv, Typed
  <2>8. CurrentFits' /\ PendingFits'
    BY <1>1, <1>9, <2>1, <2>2 DEF LifeInv, CurrentFits, PendingFits, Starting
  <2> QED
    BY <2>3, <2>7, <2>8 DEF LifeInv
<1> QED
  BY <1>7, <1>8, <1>9

(* What the runtime does to one session, as its messages and flags show it. *)
LEMMA RuntimeEffect ==
  ASSUME LifeInv, NEW r \in Records,
         runtime' \in [Records -> {"off", "starting", "failing", "refused", "live"}],
         cleanup' \in [Records -> {"none", "pending", "done", "failed"}],
         inbox' \in [Records -> Seq({"ACTIVE", "started", "refused", "fatal"})],
         \A q \in Records \ {r} :
           runtime'[q] = runtime[q] /\ cleanup'[q] = cleanup[q] /\ inbox'[q] = inbox[q],
         Talks(runtime'[r], inbox'[r], startPhase[r], cleanup'[r]),
         cleanup'[r] = cleanup[r] \/ (cleanup[r] = "pending" /\ cleanup'[r] # "none"),
         runtime'[r] \in {"starting", "live"} =>
           /\ runtime[r] \in {"starting", "live"}
           /\ cleanup'[r] = cleanup[r] \/ cleanup'[r] = "failed",
         cleanup[r] = "none" /\ Shown(runtime[r], inbox[r]) => Shown(runtime'[r], inbox'[r]),
         UNCHANGED <<currentRecord, lifecycleGeneration, sessionSequence, pendingStart, state,
                     sessionId, tab, generation, cancelled, runtimeFailureHandled,
                     startPhase, stopping, wanted>>
  PROVE  LifeInv'
<1>1. Typed'
  BY DEF LifeInv, Typed
<1>2. RecordFits(r, currentRecord, sessionSequence, cancelled[r], startPhase[r],
                 stopping[r], cleanup[r], runtime[r], inbox[r])
  BY DEF LifeInv, RecordsFit
<1>3. RecordFits(r, currentRecord, sessionSequence, cancelled'[r], startPhase'[r],
                 stopping'[r], cleanup'[r], runtime'[r], inbox'[r])
  BY <1>2 DEF RecordFits
<1>4. RecordsFit'
  BY <1>3, OneRecord DEF LifeInv
<1>5. currentRecord # 0 => currentRecord \in Records
  BY SessionAssumption DEF LifeInv, Typed, Records
<1>6. CurrentFits' /\ PendingFits'
  BY <1>5 DEF LifeInv, CurrentFits, PendingFits, Starting
<1> QED
  BY <1>1, <1>4, <1>6 DEF LifeInv

(* The runtime answers a start, fails, or settles a stop.                   *)
LEMMA RuntimeKeeps ==
  ASSUME LifeInv, NEW r \in Records, RuntimeStep(r)
  PROVE  LifeInv'
<1>1. UNCHANGED <<currentRecord, lifecycleGeneration, sessionSequence, pendingStart, state,
                  sessionId, tab, generation, cancelled, runtimeFailureHandled,
                  startPhase, stopping, wanted>>
  BY DEF RuntimeStep, record
<1>2. Talks(runtime[r], inbox[r], startPhase[r], cleanup[r])
  BY DEF LifeInv, RecordsFit, RecordFits
<1>3. /\ runtime \in [Records -> {"off", "starting", "failing", "refused", "live"}]
      /\ cleanup \in [Records -> {"none", "pending", "done", "failed"}]
      /\ inbox \in [Records -> Seq({"ACTIVE", "started", "refused", "fatal"})]
  BY DEF LifeInv, Typed
<1>4. CASE RuntimeGoesLive(r) /\ UNCHANGED cleanup
  <2>1. /\ runtime[r] = "starting" /\ runtime' = [runtime EXCEPT ![r] = "live"]
        /\ inbox' = [inbox EXCEPT ![r] = inbox[r] \o <<"ACTIVE", "started">>]
    BY <1>4 DEF RuntimeGoesLive
  <2>2. runtime'[r] = "live" /\ inbox'[r] = inbox[r] \o <<"ACTIVE", "started">>
    BY <1>3, <2>1
  <2>3. Talks(runtime'[r], inbox'[r], startPhase[r], cleanup'[r])
    BY <1>2, <1>4, <2>1, <2>2, RuntimeTalks
  <2>4. Shown(runtime'[r], inbox'[r])
    BY <2>2 DEF Shown
  <2>5. /\ runtime' \in [Records -> {"off", "starting", "failing", "refused", "live"}]
        /\ inbox' \in [Records -> Seq({"ACTIVE", "started", "refused", "fatal"})]
    <3>1. inbox[r] \o <<"ACTIVE", "started">> \in Seq({"ACTIVE", "started", "refused", "fatal"})
      BY <1>3
    <3> QED
      BY <1>3, <2>1, <3>1
  <2>6. \A q \in Records \ {r} :
          runtime'[q] = runtime[q] /\ cleanup'[q] = cleanup[q] /\ inbox'[q] = inbox[q]
    BY <1>3, <1>4, <2>1
  <2>7. cleanup' \in [Records -> {"none", "pending", "done", "failed"}]
    BY <1>4, <1>3
  <2>8. runtime'[r] \in {"starting", "live"} =>
          runtime[r] \in {"starting", "live"} /\ cleanup'[r] = cleanup[r]
    BY <1>4, <2>1, <2>2
  <2>9. cleanup[r] = "none" /\ Shown(runtime[r], inbox[r]) => Shown(runtime'[r], inbox'[r])
    BY <2>3, <2>4
  <2>10. cleanup'[r] = cleanup[r]
    BY <1>4
  <2> QED
    BY <1>1, <2>3, <2>5, <2>6, <2>7, <2>8, <2>9, <2>10, RuntimeEffect
<1>5. CASE RuntimeRefuses(r) /\ UNCHANGED cleanup
  <2>1. /\ runtime[r] \in {"starting", "failing"}
        /\ runtime' = [runtime EXCEPT ![r] = IF runtime[r] = "starting" THEN "refused" ELSE "off"]
        /\ inbox' = [inbox EXCEPT ![r] = Append(inbox[r], "refused")]
    BY <1>5 DEF RuntimeRefuses
  <2>2. /\ runtime'[r] = IF runtime[r] = "starting" THEN "refused" ELSE "off"
        /\ inbox'[r] = Append(inbox[r], "refused")
    BY <1>3, <2>1
  <2>3. Talks(runtime'[r], inbox'[r], startPhase[r], cleanup'[r]) /\ ~Shown(runtime[r], inbox[r])
    BY <1>2, <1>5, <2>1, <2>2, RuntimeTalks
  <2>5. /\ runtime' \in [Records -> {"off", "starting", "failing", "refused", "live"}]
        /\ inbox' \in [Records -> Seq({"ACTIVE", "started", "refused", "fatal"})]
    <3>1. Append(inbox[r], "refused") \in Seq({"ACTIVE", "started", "refused", "fatal"})
      BY <1>3
    <3> QED
      BY <1>3, <2>1, <3>1
  <2>6. \A q \in Records \ {r} :
          runtime'[q] = runtime[q] /\ cleanup'[q] = cleanup[q] /\ inbox'[q] = inbox[q]
    BY <1>3, <1>5, <2>1
  <2>7. cleanup' \in [Records -> {"none", "pending", "done", "failed"}]
    BY <1>5, <1>3
  <2>8. runtime'[r] \in {"starting", "live"} =>
          runtime[r] \in {"starting", "live"} /\ cleanup'[r] = cleanup[r]
    BY <1>5, <2>1, <2>2
  <2>9. cleanup[r] = "none" /\ Shown(runtime[r], inbox[r]) => Shown(runtime'[r], inbox'[r])
    BY <2>3
  <2>10. cleanup'[r] = cleanup[r]
    BY <1>5
  <2> QED
    BY <1>1, <2>3, <2>5, <2>6, <2>7, <2>8, <2>9, <2>10, RuntimeEffect
<1>6. CASE RuntimeFails(r) /\ UNCHANGED cleanup
  <2>1. /\ runtime[r] \in {"starting", "live", "refused"}
        /\ runtime' = [runtime EXCEPT ![r] = IF runtime[r] = "starting" THEN "failing" ELSE "off"]
        /\ inbox' = [inbox EXCEPT ![r] = Append(inbox[r], "fatal")]
    BY <1>6 DEF RuntimeFails
  <2>2. /\ runtime'[r] = IF runtime[r] = "starting" THEN "failing" ELSE "off"
        /\ inbox'[r] = Append(inbox[r], "fatal")
    BY <1>3, <2>1
  <2>3. /\ Talks(runtime'[r], inbox'[r], startPhase[r], cleanup'[r])
        /\ Shown(runtime[r], inbox[r]) => Shown(runtime'[r], inbox'[r])
    BY <1>2, <1>6, <2>1, <2>2, RuntimeTalks
  <2>5. /\ runtime' \in [Records -> {"off", "starting", "failing", "refused", "live"}]
        /\ inbox' \in [Records -> Seq({"ACTIVE", "started", "refused", "fatal"})]
    <3>1. Append(inbox[r], "fatal") \in Seq({"ACTIVE", "started", "refused", "fatal"})
      BY <1>3
    <3> QED
      BY <1>3, <2>1, <3>1
  <2>6. \A q \in Records \ {r} :
          runtime'[q] = runtime[q] /\ cleanup'[q] = cleanup[q] /\ inbox'[q] = inbox[q]
    BY <1>3, <1>6, <2>1
  <2>7. cleanup' \in [Records -> {"none", "pending", "done", "failed"}]
    BY <1>6, <1>3
  <2>8. runtime'[r] \in {"starting", "live"} =>
          runtime[r] \in {"starting", "live"} /\ cleanup'[r] = cleanup[r]
    BY <1>6, <2>1, <2>2
  <2>9. cleanup[r] = "none" /\ Shown(runtime[r], inbox[r]) => Shown(runtime'[r], inbox'[r])
    BY <2>3
  <2>10. cleanup'[r] = cleanup[r]
    BY <1>6
  <2> QED
    BY <1>1, <2>3, <2>5, <2>6, <2>7, <2>8, <2>9, <2>10, RuntimeEffect
<1>7. CASE RuntimeStops(r)
  <2>1. CASE /\ cleanup[r] = "pending" /\ cleanup' = [cleanup EXCEPT ![r] = "done"]
             /\ runtime' = [runtime EXCEPT ![r] =
                              IF runtime[r] \in {"starting", "failing"} THEN "failing" ELSE "off"]
             /\ UNCHANGED inbox
    <3>1. /\ cleanup'[r] = "done"
          /\ runtime'[r] = IF runtime[r] \in {"starting", "failing"} THEN "failing" ELSE "off"
      BY <1>3, <2>1
    <3>2. Talks(runtime'[r], inbox'[r], startPhase[r], cleanup'[r])
      BY <1>2, <2>1, <3>1, StopTalks
    <3> QED
      BY <1>1, <1>3, <2>1, <3>1, <3>2, RuntimeEffect
  <2>2. CASE cleanup[r] = "pending" /\ cleanup' = [cleanup EXCEPT ![r] = "failed"] /\ UNCHANGED external
    <3>1. cleanup'[r] = "failed" /\ UNCHANGED <<runtime, inbox>>
      BY <1>3, <2>2 DEF external
    <3>2. Talks(runtime'[r], inbox'[r], startPhase[r], cleanup'[r])
      BY <1>2, <2>2, <3>1, StopTalks
    <3> QED
      BY <1>1, <1>3, <2>2, <3>1, <3>2, RuntimeEffect
  <2> QED
    BY <1>7, <2>1, <2>2 DEF RuntimeStops
<1> QED
  BY <1>4, <1>5, <1>6, <1>7 DEF RuntimeStep
-----------------------------------------------------------------------------
LEMMA LifeInit == Init => LifeInv
<1> SUFFICES ASSUME Init PROVE LifeInv
  OBVIOUS
<1>1. Typed
  <2>1. /\ 0 \in 0..0 /\ 0 \in 0..MaxRecords /\ 0 \in Nat
        /\ <<>> \in Seq({"ACTIVE", "started", "refused", "fatal"})
    BY SessionAssumption
  <2> QED
    BY <2>1 DEF Init, Typed, States, StartPhases
<1>2. RecordsFit
  BY DEF Init, RecordsFit, RecordFits, Talks
<1> QED
  BY <1>1, <1>2 DEF Init, LifeInv, CurrentFits, PendingFits, Starting

LEMMA LifeNext == LifeInv /\ [Next]_vars => LifeInv'
<1> SUFFICES ASSUME LifeInv, [Next]_vars PROVE LifeInv'
  OBVIOUS
<1>1. CASE UNCHANGED vars
  BY <1>1 DEF vars, record, external, LifeInv, Typed, RecordsFit, CurrentFits, PendingFits
<1>2. ASSUME NEW r \in Records, Answer(r) PROVE LifeInv'
  BY <1>2, StopContinuesKeeps, EnsureReadyKeeps, StartSettlesKeeps, CatchKeeps, EventKeeps
  DEF Answer
<1> QED
  BY <1>1, <1>2, StartKeeps, StopKeeps, RuntimeKeeps DEF Next

LEMMA LifeAlways == Spec => []LifeInv
BY LifeInit, LifeNext, PTL DEF Spec

(* What follows from LifeInv.                                               *)
LEMMA LifeStops == LifeInv => StopWins
  BY DEF LifeInv, CurrentFits, StopWins

LEMMA LifeIsOne == LifeInv => OneRuntime
<1> SUFFICES ASSUME LifeInv PROVE OneRuntime
  OBVIOUS
<1>1. TypeOK
  BY SessionAssumption DEF LifeInv, Typed, CurrentFits, TypeOK, Pendings
<1>2. ASSUME NEW r \in Records
      PROVE  /\ runtime[r] \in {"starting", "live"} => r = currentRecord \/ cleanup[r] = "failed"
             /\ cancelled[r] => cleanup[r] # "none"
  BY DEF LifeInv, RecordsFit, RecordFits
<1> QED
  BY <1>1, <1>2 DEF OneRuntime

LEMMA LifeIsShown == LifeInv => ActiveIsLive
<1>1. ASSUME NEW in, in \in {<<"ACTIVE", "started", "fatal">>, <<"started", "fatal">>, <<"fatal">>}
      PROVE  "fatal" \in Range(in)
  <2>1. \E i \in DOMAIN in : in[i] = "fatal"
    BY <1>1
  <2> QED
    BY <2>1 DEF Range
<1> QED
  BY <1>1 DEF LifeInv, CurrentFits, Shown, ActiveIsLive

(* STOP wins against every START, answer and event that is still under way: *)
(* no session is starting or active unless START was the last command.      *)
THEOREM StopAlwaysWins == Spec => []StopWins
BY LifeStops, LifeAlways, PTL

(* However many sessions were begun, two never capture at once as long as   *)
(* no stop fails: a session that runs is the current one or one whose stop  *)
(* has failed (such a one may go on beside it); and a cancelled session was *)
(* asked to stop.                                                           *)
THEOREM OneSessionRuns == Spec => []OneRuntime
BY LifeIsOne, LifeAlways, PTL

(* ACTIVE is said only of a session whose runtime runs or whose failure is  *)
(* on its way; and the generation test never turns against the session the  *)
(* user waits for.                                                          *)
THEOREM ActiveRuns == Spec => []ActiveIsLive
BY LifeIsShown, LifeAlways, PTL
-----------------------------------------------------------------------------
(* ChromeHost.  What holds in every era of the service worker: how the      *)
(* fields of a session go together (DocOf), which session may be the        *)
(* current one or be heard (EraOf), how far runtime.start of a record is    *)
(* (StartOf), and where its STOP is (StopOf).                               *)
Commands == [type : {"START_CAPTURE", "STOP_CAPTURE"}, of : Records]

InPipe(q, type, r) == \E i \in DOMAIN q : q[i] = To(type, r)

(* A command is sent once.                                                  *)
PipeFits(q) == q \in Seq(Commands) /\ \A i, j \in DOMAIN q : i < j => q[i] # q[j]

InProgress == {"media", "context", "socket", "catch"}

DocFits(cap, qt, told, clean, ctx, current) ==
  /\ cap \in {"none", "replacing"} => ~qt /\ ~told /\ clean = "none" /\ ~ctx /\ ~current
  /\ current => ~qt /\ ~told
  /\ ~qt /\ cap = "media" => clean = "none"
  /\ ~qt /\ cap \in {"context", "socket", "live"} => clean = "none" /\ ctx

DocOf(r) == DocFits(capture[r], quit[r], failureNotified[r], cleanupPromise[r], audioCtx[r],
                    currentSession = r)

CurrentFirst == currentSession # 0 /\ First(currentSession)

EraFits(cap, clean, ctx, current, first, currentFirst) ==
  /\ first /\ ctx /\ clean = "none" => current
  /\ ~first /\ cap # "none" => ~currentFirst
  /\ first => cap # "replacing"

EraOf(r) == EraFits(capture[r], cleanupPromise[r], audioCtx[r], currentSession = r, First(r),
                    CurrentFirst)

(* A session of before the first restart is not started any more.           *)
StartFits(r, seq, phase, prep, cap, startIn, over) ==
  /\ phase = "ensureReady" => r <= seq /\ prep = "no"
  /\ r > seq => prep = "no"
  /\ prep # "sent" => cap = "none" /\ ~startIn
  /\ startIn => cap = "none"
  /\ over => r <= seq /\ phase # "ensureReady" /\ prep \notin {"stream", "ping"} /\ ~startIn

StartOf(r) == StartFits(r, sessionSequence, startPhase[r], preparing[r], capture[r],
                        InPipe(toOffscreen, "START_CAPTURE", r), forgotten # <<>> /\ First(r))

StopFits(cl, stopIn, waits) ==
  /\ stopIn \/ waits => cl = "pending"
  /\ ~(stopIn /\ waits)

StopOf(r) == StopFits(cleanup[r], InPipe(toOffscreen, "STOP_CAPTURE", r), r \in stopsWaiting)

Shape ==
  /\ sessionSequence \in Nat /\ startPhase \in [Records -> StartPhases]
  /\ cleanup \in [Records -> {"none", "pending", "done", "failed"}]
  /\ runtime \in [Records -> {"off", "starting", "failing", "refused", "live"}]

EraInv ==
  /\ HostTypeOK /\ Shape /\ PipeFits(toOffscreen) /\ forgotten \in Seq(SUBSET Nat)
  /\ \A r \in Records : DocOf(r) /\ EraOf(r) /\ StartOf(r) /\ StopOf(r)

(* Before the first restart: the books of the manager on the one side, of   *)
(* the adapter and the document on the other.                               *)
StartsFirst(q) ==
  \A i, j \in DOMAIN q : i < j =>
    \A r \in Records : ~(q[i] = To("STOP_CAPTURE", r) /\ q[j] = To("START_CAPTURE", r))

BookFits(r, cur, seq, cl, rt, prep, cap, current, startIn, waits) ==
  /\ r <= seq /\ r # cur => cl = "done"
  /\ cl # "failed"
  /\ waits => ~current
  /\ startIn => rt = "starting" /\ cl # "done" /\ ~waits
  /\ prep \in {"stream", "ping"} => rt = "starting" \/ (rt = "failing" /\ cl = "done")
  /\ cap \in InProgress => rt \in {"starting", "failing"}
  /\ current => /\ cl # "done"
                /\ cap \in InProgress => rt = "starting"
                /\ cap = "live" => rt = "live"
                /\ cap = "refused" => rt = "refused"

BookOf(r) ==
  BookFits(r, currentRecord, sessionSequence, cleanup[r], runtime[r], preparing[r], capture[r],
           currentSession = r, InPipe(toOffscreen, "START_CAPTURE", r), r \in stopsWaiting)

Books == StartsFirst(toOffscreen) /\ \A r \in Records : BookOf(r)

(* In every era: what a STOP finds (found: none has found its session       *)
(* replacing another).  What is in flight for a record, and how far its     *)
(* start is: runStart waits until the adapter or the document has answered. *)
News == {"ACTIVE", "started", "refused", "fatal"}

Answered(in) == \E i \in DOMAIN in : in[i] \in {"started", "refused"}

TalkFits(in, phase, prep, cap) ==
  /\ in # <<>> => prep \in {"sent", "over"}
  /\ Answered(in) => prep = "over" \/ cap \in {"live", "refused"}
  /\ prep \in {"stream", "ping", "sent"} /\ cap \notin {"live", "refused"} => phase = "start"

TalkOf(r) == TalkFits(inbox[r], startPhase[r], preparing[r], capture[r])

(* Forgotten by a worker that was ended.                                    *)
Old(r) == \E i \in DOMAIN forgotten : r \in forgotten[i]

(* The records of the manager: those of this worker are stopped but for the *)
(* current one, and none that is not cancelled is stopped before it starts. *)
OwnFits(r, cur, seq, can, phase, stp, cl, prep, old) ==
  /\ stp => r = cur
  /\ cl # "failed"
  /\ r > seq => cl = "none"
  /\ ~can /\ (phase = "ensureReady" \/ prep \in {"stream", "ping"}) => cl = "none"
  /\ old => r <= seq /\ phase \notin {"start", "ensureReady"}
  /\ r <= seq /\ r # cur /\ ~old => cl = "done"

OwnOf(r) == OwnFits(r, currentRecord, sessionSequence, cancelled[r], startPhase[r], stopping[r],
                    cleanup[r], preparing[r], Old(r))

(* Where its START and its STOP are: a session that replaces another, or    *)
(* has got further, is the only one.                                        *)
WayFits(r, cl, cap, current, startIn, waits, qt, clean, found) ==
  /\ startIn => cl # "done"
  /\ waits => qt
  /\ qt => clean # "none"
  /\ found /\ cap = "replacing" => cl # "done" /\ current = 0
  /\ found /\ cl = "done" => current # r
  /\ found /\ cap \notin {"none", "replacing"} /\ ~qt => current = r

WayOf(r) == WayFits(r, cleanup[r], capture[r], currentSession, InPipe(toOffscreen, "START_CAPTURE", r),
                    r \in stopsWaiting, quit[r], cleanupPromise[r], overlooked = {})

StopInv ==
  /\ StartsFirst(toOffscreen) /\ currentRecord \in 0..sessionSequence
  /\ inbox \in [Records -> Seq(News)]
  /\ cancelled \in [Records -> BOOLEAN] /\ stopping \in [Records -> BOOLEAN]
  /\ \A r \in Records : TalkOf(r) /\ OwnOf(r) /\ WayOf(r)

HostInv == EraInv /\ StopInv /\ (forgotten = <<>> => LifeInv /\ Books)
-----------------------------------------------------------------------------
LEMMA CommandSent ==
  ASSUME NEW q, PipeFits(q), NEW type \in {"START_CAPTURE", "STOP_CAPTURE"}, NEW r \in Records,
         ~InPipe(q, type, r)
  PROVE  /\ PipeFits(Append(q, To(type, r)))
         /\ \A ty, x : InPipe(Append(q, To(type, r)), ty, x)
                         <=> InPipe(q, ty, x) \/ To(ty, x) = To(type, r)
<1> DEFINE m == To(type, r)
           new == Append(q, m)
<1>1. q \in Seq(Commands) /\ m \in Commands
  BY DEF PipeFits, To, Commands
<1> HIDE DEF m
<1>2. /\ new \in Seq(Commands) /\ Len(new) = Len(q) + 1 /\ Len(q) \in Nat
      /\ DOMAIN new = 1..(Len(q) + 1) /\ DOMAIN q = 1..Len(q)
      /\ new[Len(q) + 1] = m /\ \A i \in 1..Len(q) : new[i] = q[i]
  BY <1>1, AppendProperties
<1> HIDE DEF new
<1>3. ASSUME NEW i \in DOMAIN new, NEW j \in DOMAIN new, i < j
      PROVE  new[i] # new[j]
  <2>1. i \in 1..Len(q) /\ new[i] = q[i]
    BY <1>2, <1>3
  <2>2. CASE j = Len(q) + 1
    <3>1. q[i] # m
      BY <1>2, <2>1 DEF InPipe, m
    <3> QED
      BY <1>2, <2>1, <2>2, <3>1
  <2>3. CASE j # Len(q) + 1
    BY <1>2, <1>3, <2>1, <2>3 DEF PipeFits
  <2> QED
    BY <2>2, <2>3
<1>4. ASSUME NEW ty, NEW x
      PROVE  InPipe(new, ty, x) <=> InPipe(q, ty, x) \/ To(ty, x) = m
  <2>1. (\E i \in DOMAIN new : new[i] = To(ty, x))
          <=> (\E i \in DOMAIN q : q[i] = To(ty, x)) \/ To(ty, x) = m
    BY <1>2
  <2> QED
    BY <2>1 DEF InPipe
<1>5. PipeFits(new)
  BY <1>2, <1>3 DEF PipeFits
<1> QED
  BY <1>4, <1>5 DEF new, m

LEMMA CommandTaken ==
  ASSUME NEW q, PipeFits(q), q # <<>>
  PROVE  /\ Head(q) \in Commands /\ PipeFits(Tail(q))
         /\ \A ty, x : InPipe(Tail(q), ty, x) => InPipe(q, ty, x)
         /\ ~InPipe(Tail(q), Head(q).type, Head(q).of)
         /\ InPipe(q, Head(q).type, Head(q).of)
<1> DEFINE rest == Tail(q)
<1>1. /\ q \in Seq(Commands) /\ Len(q) \in Nat \ {0} /\ DOMAIN q = 1..Len(q)
      /\ Head(q) = q[1] /\ Head(q) \in Commands
  BY DEF PipeFits
<1>2. /\ rest \in Seq(Commands) /\ Len(rest) = Len(q) - 1 /\ DOMAIN rest = 1..(Len(q) - 1)
      /\ \A i \in 1..(Len(q) - 1) : rest[i] = q[i + 1]
  BY <1>1
<1>3. To(Head(q).type, Head(q).of) = Head(q)
  BY <1>1 DEF To, Commands
<1> HIDE DEF rest
<1>4. \A i, j \in DOMAIN rest : i < j => rest[i] # rest[j]
  <2> SUFFICES ASSUME NEW i \in DOMAIN rest, NEW j \in DOMAIN rest, i < j
               PROVE  rest[i] # rest[j]
    OBVIOUS
  <2>1. i + 1 \in DOMAIN q /\ j + 1 \in DOMAIN q /\ i + 1 < j + 1
    BY <1>1, <1>2
  <2>2. q[i + 1] # q[j + 1]
    BY <2>1 DEF PipeFits
  <2> QED
    BY <1>2, <2>2
<1>5. \A i \in DOMAIN rest : rest[i] # Head(q)
  <2> SUFFICES ASSUME NEW i \in DOMAIN rest PROVE rest[i] # Head(q)
    OBVIOUS
  <2>1. 1 \in DOMAIN q /\ i + 1 \in DOMAIN q /\ 1 < i + 1
    BY <1>1, <1>2
  <2>2. q[1] # q[i + 1]
    BY <2>1 DEF PipeFits
  <2> QED
    BY <1>1, <1>2, <2>2
<1>6. \A ty, x : InPipe(rest, ty, x) => InPipe(q, ty, x)
  <2> SUFFICES ASSUME NEW ty, NEW x, NEW i \in DOMAIN rest, rest[i] = To(ty, x)
               PROVE  \E j \in DOMAIN q : q[j] = To(ty, x)
    BY DEF InPipe
  <2>1. i + 1 \in DOMAIN q /\ q[i + 1] = To(ty, x)
    BY <1>1, <1>2
  <2> QED
    BY <2>1
<1>7. ~InPipe(rest, Head(q).type, Head(q).of)
  BY <1>3, <1>5 DEF InPipe
<1>8. InPipe(q, Head(q).type, Head(q).of)
  <2>1. 1 \in DOMAIN q /\ q[1] = To(Head(q).type, Head(q).of)
    BY <1>1, <1>3
  <2> QED
    BY <2>1 DEF InPipe
<1>9. PipeFits(rest)
  BY <1>2, <1>4 DEF PipeFits
<1> QED
  BY <1>1, <1>6, <1>7, <1>8, <1>9 DEF rest

(* The order of START and STOP.                                             *)
LEMMA StartSentFirst ==
  ASSUME NEW q, PipeFits(q), StartsFirst(q), NEW r \in Records,
         NEW type \in {"START_CAPTURE", "STOP_CAPTURE"},
         type = "START_CAPTURE" => ~InPipe(q, "STOP_CAPTURE", r)
  PROVE  StartsFirst(Append(q, To(type, r)))
<1> DEFINE m == To(type, r)
           new == Append(q, m)
<1>1. q \in Seq(Commands) /\ m \in Commands
  BY DEF PipeFits, To, Commands
<1>2. ASSUME NEW x \in Records, m = To("START_CAPTURE", x)
      PROVE  ~InPipe(q, "STOP_CAPTURE", x)
  BY <1>2 DEF To, m
<1> HIDE DEF m
<1>3. /\ DOMAIN new = 1..(Len(q) + 1) /\ DOMAIN q = 1..Len(q) /\ Len(q) \in Nat
      /\ new[Len(q) + 1] = m /\ \A i \in 1..Len(q) : new[i] = q[i]
  BY <1>1, AppendProperties
<1> HIDE DEF new
<1>4. StartsFirst(new)
  <2> SUFFICES ASSUME NEW i \in DOMAIN new, NEW j \in DOMAIN new, i < j, NEW x \in Records,
                      new[i] = To("STOP_CAPTURE", x), new[j] = To("START_CAPTURE", x)
               PROVE  FALSE
    BY DEF StartsFirst
  <2>1. i \in DOMAIN q /\ new[i] = q[i]
    BY <1>3
  <2>2. CASE j = Len(q) + 1
    BY <1>2, <1>3, <2>1, <2>2 DEF InPipe
  <2>3. CASE j # Len(q) + 1
    BY <1>3, <2>1, <2>3 DEF StartsFirst
  <2> QED
    BY <2>2, <2>3
<1> QED
  BY <1>4 DEF new, m

LEMMA StartTakenFirst ==
  ASSUME NEW q, PipeFits(q), StartsFirst(q), q # <<>>
  PROVE  /\ StartsFirst(Tail(q))
         /\ Head(q).type = "STOP_CAPTURE" => ~InPipe(Tail(q), "START_CAPTURE", Head(q).of)
<1> DEFINE rest == Tail(q)
<1>1. /\ q \in Seq(Commands) /\ Len(q) \in Nat \ {0} /\ DOMAIN q = 1..Len(q)
      /\ Head(q) = q[1] /\ Head(q) \in Commands
  BY DEF PipeFits
<1>2. /\ DOMAIN rest = 1..(Len(q) - 1) /\ \A i \in 1..(Len(q) - 1) : rest[i] = q[i + 1]
  BY <1>1
<1> HIDE DEF rest
<1>3. StartsFirst(rest)
  <2> SUFFICES ASSUME NEW i \in DOMAIN rest, NEW j \in DOMAIN rest, i < j, NEW x \in Records,
                      rest[i] = To("STOP_CAPTURE", x), rest[j] = To("START_CAPTURE", x)
               PROVE  FALSE
    BY DEF StartsFirst
  <2>1. i + 1 \in DOMAIN q /\ j + 1 \in DOMAIN q /\ i + 1 < j + 1
    BY <1>1, <1>2
  <2> QED
    BY <1>2, <2>1 DEF StartsFirst
<1>4. ASSUME Head(q).type = "STOP_CAPTURE", InPipe(rest, "START_CAPTURE", Head(q).of)
      PROVE  FALSE
  <2>1. q[1] = To("STOP_CAPTURE", Head(q).of) /\ Head(q).of \in Records
    BY <1>1, <1>4 DEF To, Commands
  <2>2. PICK i \in DOMAIN rest : rest[i] = To("START_CAPTURE", Head(q).of)
    BY <1>4 DEF InPipe
  <2>3. 1 \in DOMAIN q /\ i + 1 \in DOMAIN q /\ 1 < i + 1
    BY <1>1, <1>2
  <2> QED
    BY <1>2, <2>1, <2>2, <2>3 DEF StartsFirst
<1> QED
  BY <1>3, <1>4 DEF rest
-----------------------------------------------------------------------------
(* What a step of SessionManager may do, seen from the runtime, in whatever *)
(* state it is taken.                                                       *)
Moves(x) ==
  /\ \/ startPhase'[x] = startPhase[x]
     \/ startPhase'[x] \in Begun
     \/ startPhase'[x] = "ensureReady" /\ x > sessionSequence /\ x <= sessionSequence'
     \/ startPhase'[x] = "start" /\ startPhase[x] = "ensureReady" /\ runtime'[x] = "starting"
  /\ runtime'[x] = runtime[x] \/ (startPhase[x] = "ensureReady" /\ runtime'[x] = "starting")
  /\ cleanup'[x] = cleanup[x] \/ (cleanup[x] = "none" /\ cleanup'[x] = "pending")

SessionMove ==
  /\ Shape' /\ (sessionSequence' = sessionSequence \/ sessionSequence' = sessionSequence + 1)
  /\ \A x \in Records : Moves(x)

LEMMA CleanupMoves ==
  ASSUME Shape, NEW r, CleanupRecord(r)
  PROVE  /\ cleanup' \in [Records -> {"none", "pending", "done", "failed"}]
         /\ \A x \in Records : cleanup'[x] = cleanup[x] \/ (cleanup[x] = "none" /\ cleanup'[x] = "pending")
BY DEF Shape, CleanupRecord

LEMMA BeginMoves ==
  ASSUME Shape, NEW t, BeginStart(t)
  PROVE  /\ startPhase' \in [Records -> StartPhases]
         /\ sessionSequence' = sessionSequence \/ sessionSequence' = sessionSequence + 1
         /\ \A x \in Records :
              \/ startPhase'[x] = startPhase[x]
              \/ startPhase'[x] = "ensureReady" /\ x > sessionSequence /\ x <= sessionSequence'
<1>1. CASE t = NoTab
  BY <1>1 DEF BeginStart, Shape
<1>2. CASE t # NoTab
  <2>1. /\ sessionSequence' = sessionSequence + 1 /\ sessionSequence \in Nat
        /\ startPhase' = [startPhase EXCEPT ![sessionSequence'] = "ensureReady"]
    BY <1>2 DEF BeginStart, Shape
  <2> DEFINE n == sessionSequence + 1
  <2>2. /\ "ensureReady" \in StartPhases /\ startPhase \in [Records -> StartPhases]
        /\ n > sessionSequence /\ n <= sessionSequence' /\ sessionSequence' = n
    BY <2>1 DEF Shape, StartPhases
  <2>3. startPhase' = [startPhase EXCEPT ![n] = "ensureReady"]
    BY <2>1
  <2> HIDE DEF n
  <2>4. /\ startPhase' \in [Records -> StartPhases]
        /\ \A x \in Records : startPhase'[x] = startPhase[x] \/ (startPhase'[x] = "ensureReady" /\ x = n)
    BY <2>2, <2>3
  <2> QED
    BY <2>1, <2>2, <2>4
<1> QED
  BY <1>1, <1>2

LEMMA CaughtMoves ==
  ASSUME Shape, NEW r \in Records, StartCaught(r), UNCHANGED sessionSequence
  PROVE  SessionMove
<1>1. /\ \A x \in Records : startPhase'[x] = startPhase[x] \/ startPhase'[x] \in Begun
      /\ startPhase' \in [Records -> StartPhases] /\ runtime' = runtime
  BY DEF Shape, StartCaught, Begun, StartPhases
<1> QED
  BY <1>1, CleanupMoves DEF StartCaught, SessionMove, Moves, Shape

LEMMA StopCurrentMoves ==
  ASSUME Shape, StopCurrent
  PROVE  /\ cleanup' \in [Records -> {"none", "pending", "done", "failed"}]
         /\ \A x \in Records : cleanup'[x] = cleanup[x] \/ (cleanup[x] = "none" /\ cleanup'[x] = "pending")
<1>1. CASE stopping[currentRecord]
  BY <1>1 DEF StopCurrent, Shape
<1>2. CASE ~stopping[currentRecord]
  BY <1>2, CleanupMoves DEF StopCurrent
<1> QED
  BY <1>1, <1>2

LEMMA CommandMoves ==
  ASSUME Shape, Stop \/ \E t \in Tabs \union {NoTab} : Start(t)
  PROVE  SessionMove
<1>1. CASE Stop
  <2>1. UNCHANGED <<sessionSequence, startPhase, runtime>>
    BY <1>1 DEF Stop, external
  <2>2. cleanup' = cleanup \/ StopCurrent
    BY <1>1 DEF Stop
  <2> QED
    BY <2>1, <2>2, StopCurrentMoves DEF SessionMove, Moves, Shape
<1>2. ASSUME NEW t \in Tabs \union {NoTab}, Start(t)
      PROVE  SessionMove
  <2>1. runtime' = runtime
    BY <1>2 DEF Start, external
  <2>2. CASE AlreadyStarting(t)
    <3>1. UNCHANGED <<sessionSequence, startPhase, cleanup>>
      BY <1>2, <2>2 DEF Start
    <3> QED
      BY <2>1, <3>1 DEF SessionMove, Moves, Shape
  <2>3. CASE ~AlreadyStarting(t) /\ currentRecord # 0
    <3>1. StopCurrent /\ UNCHANGED <<sessionSequence, startPhase>>
      BY <1>2, <2>3 DEF Start
    <3> QED
      BY <2>1, <3>1, StopCurrentMoves DEF SessionMove, Moves, Shape
  <2>4. CASE ~AlreadyStarting(t) /\ currentRecord = 0
    <3>1. BeginStart(t) /\ UNCHANGED cleanup
      BY <1>2, <2>4 DEF Start
    <3>2. Shape'
      BY <2>1, <3>1, BeginMoves DEF Shape
    <3> QED
      BY <2>1, <3>1, <3>2, BeginMoves DEF SessionMove, Moves
  <2> QED
    BY <2>2, <2>3, <2>4
<1> QED
  BY <1>1, <1>2

LEMMA AnswerMoves ==
  ASSUME Shape, NEW r \in Records, Answer(r)
  PROVE  SessionMove
<1>1. CASE StopContinues(r)
  <2>1. UNCHANGED <<cleanup, runtime>>
    BY <1>1 DEF StopContinues, external
  <2>2. (\E t : BeginStart(t)) \/ UNCHANGED <<sessionSequence, startPhase>>
    BY <1>1 DEF StopContinues
  <2>3. CASE UNCHANGED <<sessionSequence, startPhase>>
    BY <2>1, <2>3 DEF SessionMove, Moves, Shape
  <2>4. ASSUME NEW t, BeginStart(t) PROVE SessionMove
    <3>1. Shape'
      BY <2>1, <2>4, BeginMoves DEF Shape
    <3> QED
      BY <2>1, <2>4, <3>1, BeginMoves DEF SessionMove, Moves
  <2> QED
    BY <2>2, <2>3, <2>4
<1>2. CASE EnsureReadySettles(r)
  <2>1. CASE StartCaught(r)
    BY <1>2, <2>1, CaughtMoves DEF EnsureReadySettles
  <2>2. CASE ~StartCaught(r)
    <3>1. /\ startPhase[r] = "ensureReady" /\ startPhase' = [startPhase EXCEPT ![r] = "start"]
          /\ runtime' = [runtime EXCEPT ![r] = "starting"]
          /\ UNCHANGED <<cleanup, sessionSequence>>
      BY <1>2, <2>2 DEF EnsureReadySettles
    <3>2. Shape'
      BY <3>1 DEF Shape, StartPhases
    <3> QED
      BY <3>1, <3>2 DEF SessionMove, Moves, Shape
  <2> QED
    BY <2>1, <2>2
<1>3. CASE StartSettles(r)
  <2>1. UNCHANGED sessionSequence
    BY <1>3 DEF StartSettles
  <2>2. \/ StartCaught(r)
        \/ startPhase' = [startPhase EXCEPT ![r] = "settled"] /\ UNCHANGED <<cleanup, runtime>>
    BY <1>3 DEF StartSettles
  <2>3. CASE startPhase' = [startPhase EXCEPT ![r] = "settled"] /\ UNCHANGED <<cleanup, runtime>>
    BY <2>1, <2>3 DEF SessionMove, Moves, Shape, StartPhases, Begun
  <2> QED
    BY <2>1, <2>2, <2>3, CaughtMoves
<1>4. CASE CatchContinues(r)
  <2>1. /\ startPhase' = [startPhase EXCEPT ![r] = "settled"]
        /\ UNCHANGED <<sessionSequence, cleanup, runtime>>
    BY <1>4 DEF CatchContinues, external
  <2> QED
    BY <2>1 DEF SessionMove, Moves, Shape, StartPhases, Begun
<1>5. CASE HandleRuntimeEvent(r)
  <2>1. UNCHANGED <<sessionSequence, startPhase, runtime>>
    BY <1>5 DEF HandleRuntimeEvent
  <2>2. cleanup' = cleanup \/ CleanupRecord(r)
    BY <1>5 DEF HandleRuntimeEvent
  <2> QED
    BY <2>1, <2>2, CleanupMoves DEF SessionMove, Moves, Shape
<1> QED
  BY <1>1, <1>2, <1>3, <1>4, <1>5 DEF Answer

LEMMA SessionMoves ==
  ASSUME EraInv, Manager
  PROVE  SessionMove
BY CommandMoves, AnswerMoves DEF EraInv, Manager, TabLeaves

(* A record is no more the current one only when its stop has settled.      *)
LEMMA CurrentMoves ==
  ASSUME LifeInv, Manager, NEW x \in Records, x <= sessionSequence', x # currentRecord'
  PROVE  (x <= sessionSequence /\ x # currentRecord) \/ cleanup'[x] \in {"done", "failed"}
<1>1. sessionSequence \in Nat /\ x \in Nat \ {0}
  BY SessionAssumption DEF LifeInv, Typed, Records
<1>2. ASSUME NEW t, BeginStart(t)
      PROVE  x <= sessionSequence
  <2>1. /\ sessionSequence' = sessionSequence
        \/ (sessionSequence' = sessionSequence + 1 /\ currentRecord' = sessionSequence')
    BY <1>2 DEF BeginStart
  <2> QED
    BY <1>1, <2>1
<1>3. CASE Stop \/ \E t \in Tabs \union {NoTab} : Start(t)
  <2>1. CASE UNCHANGED <<sessionSequence, currentRecord>>
    BY <2>1
  <2>2. ASSUME ~UNCHANGED <<sessionSequence, currentRecord>>
        PROVE  currentRecord = 0 /\ \E t : BeginStart(t)
    BY <1>3, <2>2 DEF Stop, Start
  <2> QED
    BY <1>1, <1>2, <2>1, <2>2
<1>4. ASSUME NEW r \in Records, Answer(r), ~StopContinues(r)
      PROVE  UNCHANGED <<sessionSequence, currentRecord>>
  BY <1>4 DEF Answer, EnsureReadySettles, StartSettles, CatchContinues, HandleRuntimeEvent
<1>5. ASSUME NEW r \in Records, StopContinues(r)
      PROVE  (x <= sessionSequence /\ x # currentRecord) \/ cleanup'[x] \in {"done", "failed"}
  <2>1. r = currentRecord /\ cleanup'[r] \in {"done", "failed"}
    BY <1>5 DEF LifeInv, RecordsFit, RecordFits, StopContinues
  <2>2. (\E t : BeginStart(t)) \/ UNCHANGED sessionSequence
    BY <1>5 DEF StopContinues
  <2> QED
    BY <1>2, <2>1, <2>2
<1> QED
  BY <1>3, <1>4, <1>5 DEF Manager, TabLeaves

(* What Manager does to the adapter and the document.                       *)
LEMMA ManagerSends ==
  ASSUME EraInv, Manager
  PROVE  /\ UNCHANGED <<stopsWaiting, document, forgotten, overlooked>> /\ SessionMove
         /\ \A x \in Records : \/ preparing'[x] = preparing[x] /\ (startPhase'[x] = "start" => startPhase[x] = "start")
                               \/ preparing'[x] = preparing[x] /\ startPhase'[x] # "start"
                               \/ startPhase[x] = "ensureReady" /\ startPhase'[x] = "start"
                                  /\ runtime'[x] = "starting" /\ preparing'[x] = "stream"
         /\ preparing' \in [Records -> {"no", "stream", "ping", "sent", "over"}]
         /\ PipeFits(toOffscreen')
         /\ \A x \in Records : /\ InPipe(toOffscreen', "START_CAPTURE", x)
                                    <=> InPipe(toOffscreen, "START_CAPTURE", x)
                               /\ InPipe(toOffscreen', "STOP_CAPTURE", x) =>
                                    \/ InPipe(toOffscreen, "STOP_CAPTURE", x)
                                    \/ cleanup[x] = "none" /\ cleanup'[x] = "pending"
         /\ StartsFirst(toOffscreen) => StartsFirst(toOffscreen')
<1>1. SessionMove
  BY SessionMoves
<1>2. UNCHANGED <<stopsWaiting, document, forgotten, overlooked>>
  BY DEF Manager
<1>3. preparing' = [r \in Records |->
        IF startPhase[r] # "start" /\ startPhase'[r] = "start" THEN "stream" ELSE preparing[r]]
  BY DEF Manager
<1>4. preparing' \in [Records -> {"no", "stream", "ping", "sent", "over"}]
  BY <1>3 DEF EraInv, HostTypeOK
<1>5. ASSUME NEW x \in Records
      PROVE  \/ preparing'[x] = preparing[x] /\ (startPhase'[x] = "start" => startPhase[x] = "start")
             \/ preparing'[x] = preparing[x] /\ startPhase'[x] # "start"
             \/ startPhase[x] = "ensureReady" /\ startPhase'[x] = "start"
                /\ runtime'[x] = "starting" /\ preparing'[x] = "stream"
  BY <1>1, <1>3 DEF SessionMove, Moves, Begun
<1>6. CASE toOffscreen' = toOffscreen
  BY <1>1, <1>2, <1>4, <1>5, <1>6 DEF EraInv
<1>7. CASE toOffscreen' # toOffscreen
  <2>1. PICK r \in Records : /\ cleanup'[r] # cleanup[r]
                             /\ toOffscreen' = Append(toOffscreen, To("STOP_CAPTURE", r))
    BY <1>7 DEF Manager
  <2>2. cleanup[r] = "none" /\ cleanup'[r] = "pending"
    BY <1>1, <2>1 DEF SessionMove, Moves
  <2>3. ~InPipe(toOffscreen, "STOP_CAPTURE", r) /\ PipeFits(toOffscreen)
    BY <2>2 DEF EraInv, StopOf, StopFits
  <2>4. /\ PipeFits(toOffscreen')
        /\ \A ty, x : InPipe(toOffscreen', ty, x)
                        <=> InPipe(toOffscreen, ty, x) \/ To(ty, x) = To("STOP_CAPTURE", r)
    BY <2>1, <2>3, CommandSent
  <2>5. StartsFirst(toOffscreen) => StartsFirst(toOffscreen')
    BY <2>1, <2>3, StartSentFirst
  <2>6. \A x : To("START_CAPTURE", x) # To("STOP_CAPTURE", r)
                 /\ (To("STOP_CAPTURE", x) = To("STOP_CAPTURE", r) => x = r)
    BY DEF To
  <2> QED
    BY <1>1, <1>2, <1>4, <1>5, <2>2, <2>4, <2>5, <2>6
<1> QED
  BY <1>6, <1>7

LEMMA ManagerEra ==
  ASSUME EraInv, Manager
  PROVE  EraInv'
<1>1. /\ UNCHANGED <<stopsWaiting, document, forgotten, overlooked>> /\ SessionMove
      /\ preparing' \in [Records -> {"no", "stream", "ping", "sent", "over"}] /\ PipeFits(toOffscreen')
  BY ManagerSends
<1>2. HostTypeOK'
  <2>1. toOffscreen' \in Seq(Commands)
    BY <1>1 DEF PipeFits
  <2> QED
    BY <1>1, <2>1 DEF EraInv, HostTypeOK, document, Commands
<1>3. ASSUME NEW x \in Records
      PROVE  DocOf(x)' /\ EraOf(x)'
  BY <1>1 DEF EraInv, DocOf, EraOf, First, CurrentFirst, document
<1>4. ASSUME NEW x \in Records
      PROVE  StartOf(x)'
  <2>1. StartOf(x) /\ sessionSequence \in Nat /\ sessionSequence' \in Nat /\ x \in Nat
        /\ sessionSequence <= sessionSequence' /\ Moves(x)
    BY <1>1 DEF EraInv, Shape, SessionMove, Records
  <2>2. /\ capture'[x] = capture[x] /\ (First(x)' <=> First(x)) /\ forgotten' = forgotten
        /\ (InPipe(toOffscreen, "START_CAPTURE", x)' <=> InPipe(toOffscreen, "START_CAPTURE", x))
    BY <1>1, ManagerSends DEF document, First
  <2>3. CASE preparing'[x] = preparing[x] /\ startPhase'[x] = "ensureReady"
    BY <2>1, <2>2, <2>3 DEF StartOf, StartFits, Moves, Begun
  <2>4. CASE preparing'[x] = preparing[x] /\ startPhase'[x] # "ensureReady"
    BY <2>1, <2>2, <2>4 DEF StartOf, StartFits
  <2>5. CASE startPhase[x] = "ensureReady" /\ startPhase'[x] = "start" /\ preparing'[x] = "stream"
    BY <2>1, <2>2, <2>5 DEF StartOf, StartFits
  <2> QED
    BY <2>3, <2>4, <2>5, ManagerSends
<1>5. ASSUME NEW x \in Records
      PROVE  StopOf(x)'
  BY <1>1, ManagerSends DEF EraInv, StopOf, StopFits, SessionMove, Moves
<1> QED
  BY <1>1, <1>2, <1>3, <1>4, <1>5 DEF EraInv, SessionMove

LEMMA ManagerBooks ==
  ASSUME EraInv, LifeInv, Books, Manager
  PROVE  Books'
<1>1. /\ UNCHANGED <<stopsWaiting, document, forgotten, overlooked>> /\ SessionMove
      /\ StartsFirst(toOffscreen')
  BY ManagerSends DEF Books
<1>2. ASSUME NEW x \in Records
      PROVE  BookOf(x)'
  <2>1. BookOf(x) /\ DocOf(x) /\ StartOf(x) /\ Moves(x)
    BY <1>1 DEF Books, EraInv, SessionMove
  <2>2. /\ capture'[x] = capture[x] /\ currentSession' = currentSession /\ stopsWaiting' = stopsWaiting
        /\ (InPipe(toOffscreen, "START_CAPTURE", x)' <=> InPipe(toOffscreen, "START_CAPTURE", x))
    BY <1>1, ManagerSends DEF document
  <2>3. x <= sessionSequence' /\ x # currentRecord' => cleanup'[x] = "done"
    <3> SUFFICES ASSUME x <= sessionSequence', x # currentRecord' PROVE cleanup'[x] = "done"
      OBVIOUS
    <3>1. (x <= sessionSequence /\ x # currentRecord) \/ cleanup'[x] \in {"done", "failed"}
      BY CurrentMoves
    <3> QED
      BY <2>1, <3>1 DEF BookOf, BookFits, Moves
  <2>4. cleanup'[x] # "failed" /\ (cleanup'[x] = "done" <=> cleanup[x] = "done")
    BY <2>1 DEF BookOf, BookFits, Moves
  <2>5. CASE preparing[x] = "no" \/ startPhase[x] = "ensureReady"
    <3>1. capture[x] = "none" /\ currentSession # x /\ ~InPipe(toOffscreen, "START_CAPTURE", x)
      BY <2>1, <2>5 DEF StartOf, StartFits, DocOf, DocFits
    <3>2. preparing'[x] \in {"no", "stream"} /\ (preparing'[x] = "stream" => runtime'[x] = "starting")
      BY <2>1, <2>5, ManagerSends DEF StartOf, StartFits
    <3> QED
      BY <2>1, <2>2, <2>3, <2>4, <3>1, <3>2 DEF BookOf, BookFits, InProgress
  <2>6. CASE preparing[x] # "no" /\ startPhase[x] # "ensureReady"
    <3>1. preparing'[x] = preparing[x] /\ runtime'[x] = runtime[x]
      BY <2>1, <2>6, ManagerSends DEF Moves
    <3> QED
      BY <2>1, <2>2, <2>3, <2>4, <3>1 DEF BookOf, BookFits
  <2> QED
    BY <2>5, <2>6
<1> QED
  BY <1>1, <1>2 DEF Books
-----------------------------------------------------------------------------
(* runtime.start goes on.                                                   *)
LEMMA PreparedEra ==
  ASSUME EraInv, NEW r \in Records, Prepared(r)
  PROVE  EraInv' /\ (StartsFirst(toOffscreen) => StartsFirst(toOffscreen')
                                                 \/ InPipe(toOffscreen, "STOP_CAPTURE", r))
<1>1. /\ preparing[r] \in {"stream", "ping"}
      /\ UNCHANGED <<background, cleanup, wanted, stopsWaiting, document, forgotten, overlooked>>
  BY DEF Prepared
<1>2. UNCHANGED <<sessionSequence, startPhase, capture, currentSession, quit, failureNotified,
                  cleanupPromise, audioCtx, mediaStream, ws, replaced>>
  BY <1>1 DEF background, document
<1>3. /\ capture[r] = "none" /\ ~InPipe(toOffscreen, "START_CAPTURE", r)
      /\ ~(forgotten # <<>> /\ First(r)) /\ startPhase[r] # "ensureReady" /\ ~(r > sessionSequence)
  BY <1>1 DEF EraInv, StartOf, StartFits
<1>4. /\ preparing' \in [Records -> {"no", "stream", "ping", "sent", "over"}]
      /\ preparing'[r] \in {"ping", "sent", "over"}
      /\ \A x \in Records \ {r} : preparing'[x] = preparing[x]
      /\ \/ preparing'[r] # "sent" /\ toOffscreen' = toOffscreen
         \/ preparing'[r] = "sent" /\ toOffscreen' = Append(toOffscreen, To("START_CAPTURE", r))
  BY DEF Prepared, EraInv, HostTypeOK
<1>5. runtime' \in [Records -> {"off", "starting", "failing", "refused", "live"}]
  <2>1. Refuse(r) \/ UNCHANGED external
    BY DEF Prepared
  <2> QED
    BY <2>1 DEF EraInv, Shape, Refuse, external
<1>6. PipeFits(toOffscreen) /\ "START_CAPTURE" \in {"START_CAPTURE", "STOP_CAPTURE"}
  BY DEF EraInv
<1>7. /\ PipeFits(toOffscreen')
      /\ \A ty, x : InPipe(toOffscreen', ty, x)
                      <=> \/ InPipe(toOffscreen, ty, x)
                          \/ preparing'[r] = "sent" /\ To(ty, x) = To("START_CAPTURE", r)
      /\ StartsFirst(toOffscreen) => StartsFirst(toOffscreen') \/ InPipe(toOffscreen, "STOP_CAPTURE", r)
  <2>1. CASE preparing'[r] # "sent" /\ toOffscreen' = toOffscreen
    BY <1>6, <2>1
  <2>2. CASE preparing'[r] = "sent" /\ toOffscreen' = Append(toOffscreen, To("START_CAPTURE", r))
    <3>1. /\ PipeFits(Append(toOffscreen, To("START_CAPTURE", r)))
          /\ \A ty, x : InPipe(Append(toOffscreen, To("START_CAPTURE", r)), ty, x)
                          <=> InPipe(toOffscreen, ty, x) \/ To(ty, x) = To("START_CAPTURE", r)
      BY <1>3, <1>6, CommandSent
    <3>2. StartsFirst(toOffscreen) /\ ~InPipe(toOffscreen, "STOP_CAPTURE", r)
            => StartsFirst(Append(toOffscreen, To("START_CAPTURE", r)))
      BY <1>6, StartSentFirst
    <3> QED
      BY <2>2, <3>1, <3>2
  <2> QED
    BY <1>4, <2>1, <2>2
<1>8. \A x : /\ To("STOP_CAPTURE", x) # To("START_CAPTURE", r)
             /\ To("START_CAPTURE", x) = To("START_CAPTURE", r) => x = r
  BY DEF To
<1>9. HostTypeOK'
  <2>1. toOffscreen' \in Seq(Commands)
    BY <1>7 DEF PipeFits
  <2> QED
    BY <1>1, <1>2, <1>4, <2>1 DEF EraInv, HostTypeOK, Commands
<1>10. Shape'
  BY <1>1, <1>2, <1>5 DEF EraInv, Shape
<1>11. ASSUME NEW x \in Records
       PROVE  DocOf(x)' /\ EraOf(x)' /\ StopOf(x)'
  <2>1. DocOf(x)' /\ EraOf(x)'
    BY <1>1, <1>2 DEF EraInv, DocOf, EraOf, First, CurrentFirst
  <2>2. InPipe(toOffscreen', "STOP_CAPTURE", x) <=> InPipe(toOffscreen, "STOP_CAPTURE", x)
    BY <1>7, <1>8
  <2> QED
    BY <1>1, <2>1, <2>2 DEF EraInv, StopOf, StopFits
<1>12. ASSUME NEW x \in Records
       PROVE  StartOf(x)'
  <2>1. StartOf(x) /\ capture'[x] = capture[x] /\ (First(x)' <=> First(x))
        /\ UNCHANGED <<startPhase, sessionSequence, forgotten>>
    BY <1>1, <1>2 DEF EraInv, First
  <2>2. CASE x = r
    <3>1. InPipe(toOffscreen', "START_CAPTURE", r) => preparing'[r] = "sent"
      BY <1>3, <1>7
    <3> QED
      BY <1>3, <1>4, <2>1, <2>2, <3>1 DEF StartOf, StartFits
  <2>3. CASE x # r
    <3>1. /\ InPipe(toOffscreen', "START_CAPTURE", x) <=> InPipe(toOffscreen, "START_CAPTURE", x)
          /\ preparing'[x] = preparing[x]
      BY <1>4, <1>7, <1>8, <2>3
    <3> QED
      BY <2>1, <3>1 DEF StartOf, StartFits
  <2> QED
    BY <2>2, <2>3
<1> QED
  BY <1>1, <1>7, <1>9, <1>10, <1>11, <1>12 DEF EraInv

LEMMA PreparedBooks ==
  ASSUME EraInv, LifeInv, Books, NEW r \in Records, Prepared(r)
  PROVE  Books' /\ [Next]_vars
<1>1. /\ preparing[r] \in {"stream", "ping"}
      /\ UNCHANGED <<background, cleanup, wanted, stopsWaiting, document, forgotten, overlooked>>
  BY DEF Prepared
<1>2. /\ UNCHANGED <<sessionSequence, currentRecord, capture, currentSession>>
      /\ \A x \in Records \ {r} : preparing'[x] = preparing[x]
  BY <1>1 DEF background, document, Prepared, EraInv, HostTypeOK
<1>3. /\ capture[r] = "none" /\ ~InPipe(toOffscreen, "START_CAPTURE", r) /\ currentSession # r
      /\ BookOf(r) /\ (runtime[r] = "starting" \/ (runtime[r] = "failing" /\ cleanup[r] = "done"))
  BY <1>1 DEF EraInv, StartOf, StartFits, DocOf, DocFits, Books, BookOf, BookFits
<1>4. \A ty, x : InPipe(Append(toOffscreen, To("START_CAPTURE", r)), ty, x)
                   <=> InPipe(toOffscreen, ty, x) \/ To(ty, x) = To("START_CAPTURE", r)
  BY <1>3, CommandSent DEF EraInv
<1>5. ASSUME NEW x \in Records \ {r}, runtime'[x] = runtime[x],
             toOffscreen' \in {toOffscreen, Append(toOffscreen, To("START_CAPTURE", r))}
      PROVE  BookOf(x)'
  <2>1. To("START_CAPTURE", x) # To("START_CAPTURE", r)
    BY DEF To
  <2>2. InPipe(toOffscreen, "START_CAPTURE", x)' <=> InPipe(toOffscreen, "START_CAPTURE", x)
    BY <1>4, <1>5, <2>1
  <2> QED
    BY <1>1, <1>2, <1>5, <2>2 DEF Books, BookOf, BookFits
<1>6. CASE preparing' = [preparing EXCEPT ![r] = "over"] /\ Refuse(r) /\ UNCHANGED toOffscreen
  <2>1. /\ runtime'[r] = (IF runtime[r] = "starting" THEN "refused" ELSE "off") /\ preparing'[r] = "over"
        /\ \A x \in Records \ {r} : runtime'[x] = runtime[x]
    BY <1>6 DEF Refuse, EraInv, Shape, HostTypeOK
  <2>2. BookOf(r)'
    BY <1>1, <1>2, <1>3, <1>6, <2>1 DEF BookOf, BookFits, InProgress
  <2>3. Books'
    BY <1>5, <1>6, <2>1, <2>2 DEF Books
  <2>4. RuntimeRefuses(r)
    BY <1>3, <1>6 DEF RuntimeRefuses, Refuse, Says
  <2>5. RuntimeStep(r)
    BY <1>1, <2>4 DEF RuntimeStep, background, record
  <2> QED
    BY <2>3, <2>5 DEF Next
<1>7. CASE preparing' = [preparing EXCEPT ![r] = "ping"] /\ UNCHANGED <<toOffscreen, external>>
  <2>1. preparing'[r] = "ping" /\ runtime' = runtime
    BY <1>7 DEF EraInv, HostTypeOK, external
  <2>2. BookOf(r)'
    BY <1>1, <1>2, <1>3, <1>7, <2>1 DEF BookOf, BookFits
  <2>3. Books'
    BY <1>5, <1>7, <2>1, <2>2 DEF Books
  <2> QED
    BY <1>1, <1>7, <2>3 DEF vars, background, record
<1>8. CASE /\ ~cancelled[r] /\ preparing' = [preparing EXCEPT ![r] = "sent"]
           /\ toOffscreen' = Append(toOffscreen, To("START_CAPTURE", r)) /\ UNCHANGED external
  <2>1. preparing'[r] = "sent" /\ runtime' = runtime
    BY <1>8 DEF EraInv, HostTypeOK, external
  <2>2. cleanup[r] = "none" /\ runtime[r] = "starting"
    BY <1>3, <1>8 DEF LifeInv, RecordsFit, RecordFits, Talks, Begun
  <2>3. r \notin stopsWaiting /\ ~InPipe(toOffscreen, "STOP_CAPTURE", r)
    BY <2>2 DEF EraInv, StopOf, StopFits
  <2>4. BookOf(r)'
    BY <1>1, <1>2, <1>3, <2>1, <2>2, <2>3 DEF BookOf, BookFits, InProgress
  <2>5. StartsFirst(toOffscreen')
    BY <2>3, PreparedEra DEF Books
  <2>6. Books'
    BY <1>5, <1>8, <2>1, <2>4, <2>5 DEF Books
  <2> QED
    BY <1>1, <1>8, <2>6 DEF vars, background, record
<1> QED
  BY <1>6, <1>7, <1>8 DEF Prepared
-----------------------------------------------------------------------------
(* The document.                                                            *)
LEMMA CleanupEffect ==
  ASSUME HostTypeOK, NEW r \in Records, Cleanup(r)
  PROVE  /\ cleanupPromise' \in [Records -> {"none", "closing", "done"}]
         /\ mediaStream' \in [Records -> BOOLEAN] /\ cleanupPromise'[r] # "none"
         /\ \A x \in Records \ {r} : cleanupPromise'[x] = cleanupPromise[x]
         /\ cleanupPromise'[r] \in {cleanupPromise[r], "closing", "done"}
<1>1. /\ cleanupPromise \in [Records -> {"none", "closing", "done"}]
      /\ mediaStream \in [Records -> BOOLEAN]
  BY DEF HostTypeOK
<1>2. CASE cleanupPromise[r] # "none"
  BY <1>1, <1>2 DEF Cleanup
<1>3. CASE cleanupPromise[r] = "none"
  BY <1>1, <1>3 DEF Cleanup
<1> QED
  BY <1>2, <1>3

(* A current session that is stopped: its capture, and what is told of it,  *)
(* may change with it.                                                      *)
LEMMA StopCaptureEffect ==
  ASSUME EraInv, currentSession # 0, StopCapture, UNCHANGED <<audioCtx, forgotten>>
  PROVE  /\ currentSession \in Records /\ currentSession' = 0 /\ quit' \in [Records -> BOOLEAN]
         /\ cleanupPromise' \in [Records -> {"none", "closing", "done"}]
         /\ mediaStream' \in [Records -> BOOLEAN]
         /\ \A x \in Records :
              capture'[x] = capture[x] /\ (x # currentSession => failureNotified'[x] = failureNotified[x])
                => DocOf(x)' /\ EraOf(x)'
         /\ \A x \in Records : x # currentSession =>
              quit'[x] = quit[x] /\ cleanupPromise'[x] = cleanupPromise[x]
<1> DEFINE r == currentSession
<1>1. r \in Records /\ HostTypeOK
  BY DEF EraInv, HostTypeOK, Records
<1>2. /\ currentSession' = 0 /\ quit' = [quit EXCEPT ![r] = TRUE] /\ Cleanup(r)
  BY DEF StopCapture
<1>3. /\ quit' \in [Records -> BOOLEAN] /\ quit'[r] /\ \A x \in Records \ {r} : quit'[x] = quit[x]
  BY <1>1, <1>2 DEF HostTypeOK
<1>4. /\ cleanupPromise' \in [Records -> {"none", "closing", "done"}]
      /\ mediaStream' \in [Records -> BOOLEAN] /\ cleanupPromise'[r] # "none"
      /\ \A x \in Records \ {r} : cleanupPromise'[x] = cleanupPromise[x]
  BY <1>1, <1>2, CleanupEffect
<1>5. ~CurrentFirst' /\ \A x \in Records : currentSession' # x /\ (First(x)' <=> First(x))
  BY <1>2 DEF CurrentFirst, First, Records
<1>6. ASSUME NEW x \in Records, capture'[x] = capture[x], x # r => failureNotified'[x] = failureNotified[x]
      PROVE  DocOf(x)' /\ EraOf(x)'
  <2>1. DocOf(x) /\ EraOf(x)
    BY DEF EraInv
  <2>2. CASE x = r
    <3>1. DocOf(x)'
      BY <1>3, <1>5, <1>6, <2>1, <2>2 DEF DocOf, DocFits
    <3>2. EraOf(x)'
      BY <1>4, <1>5, <1>6, <2>1, <2>2 DEF EraOf, EraFits
    <3> QED
      BY <3>1, <3>2
  <2>3. CASE x # r
    <3>1. DocOf(x)'
      BY <1>3, <1>4, <1>5, <1>6, <2>1, <2>3 DEF DocOf, DocFits
    <3>2. EraOf(x)'
      BY <1>4, <1>5, <1>6, <2>1, <2>3 DEF EraOf, EraFits
    <3> QED
      BY <3>1, <3>2
  <2> QED
    BY <2>2, <2>3
<1> QED
  BY <1>1, <1>2, <1>3, <1>4, <1>6

(* Before the first restart START finds no session.                         *)
LEMMA StartFindsNone ==
  ASSUME EraInv, LifeInv, Books, NEW r \in Records, InPipe(toOffscreen, "START_CAPTURE", r)
  PROVE  currentSession = 0
<1>1. currentSession \in 0..MaxRecords /\ MaxRecords \in Nat
  BY SessionAssumption DEF EraInv, HostTypeOK
<1>2. SUFFICES ASSUME currentSession # 0 PROVE FALSE
  OBVIOUS
<1> DEFINE s == currentSession
<1>3. s \in Records
  BY <1>1, <1>2 DEF Records
<1> HIDE DEF s
<1>4. capture[s] # "none" /\ cleanup[s] # "done" /\ BookOf(s) /\ StartOf(s)
  BY <1>3 DEF EraInv, DocOf, DocFits, Books, BookOf, BookFits, s
<1>5. BookOf(r) /\ runtime[r] = "starting" /\ cleanup[r] # "failed" /\ StartOf(r)
  BY DEF Books, BookOf, BookFits, EraInv
<1>6. r = currentRecord
  BY <1>5 DEF LifeInv, RecordsFit, RecordFits
<1>7. s <= sessionSequence
  <2>1. preparing[s] = "sent"
    BY <1>4 DEF StartOf, StartFits
  <2>2. s \in Nat /\ sessionSequence \in Nat
    BY <1>1, <1>3 DEF EraInv, Shape, Records
  <2> QED
    BY <1>4, <2>1, <2>2 DEF StartOf, StartFits
<1>8. s = currentRecord
  BY <1>4, <1>7 DEF BookOf, BookFits
<1> QED
  BY <1>4, <1>5, <1>6, <1>8 DEF StartOf, StartFits

LEMMA StartReceived ==
  ASSUME EraInv, NEW r \in Records, InPipe(toOffscreen, "START_CAPTURE", r), StartCapture(r),
         forgotten = <<>> => currentSession = 0,
         UNCHANGED <<audioCtx, forgotten, failureNotified>>
  PROVE  /\ currentSession' \in 0..MaxRecords
         /\ \A x \in Records : DocOf(x)' /\ EraOf(x)' /\ (x # r => capture'[x] = capture[x])
         /\ capture' \in [Records -> {"none", "replacing", "media", "context", "socket", "catch",
                                      "live", "refused"}]
         /\ replaced' \in [Records -> 0..MaxRecords] /\ quit' \in [Records -> BOOLEAN]
         /\ cleanupPromise' \in [Records -> {"none", "closing", "done"}]
         /\ mediaStream' \in [Records -> BOOLEAN]
<1>1. /\ HostTypeOK /\ DocOf(r) /\ capture[r] = "none" /\ currentSession # r
      /\ ~quit[r] /\ ~failureNotified[r] /\ cleanupPromise[r] = "none" /\ ~audioCtx[r]
  BY DEF EraInv, DocOf, DocFits, StartOf, StartFits
<1>2. forgotten # <<>> => ~First(r)
  BY DEF EraInv, StartOf, StartFits
<1>3. \A x \in Records : (First(x)' <=> First(x)) /\ DocOf(x) /\ EraOf(x)
  BY DEF EraInv, First
<1>4. CASE currentSession = 0
  <2>1. /\ currentSession' = r /\ capture' = [capture EXCEPT ![r] = "media"]
        /\ UNCHANGED <<quit, replaced, cleanupPromise, mediaStream>>
    BY <1>4 DEF StartCapture
  <2>2. /\ capture'[r] = "media" /\ \A x \in Records \ {r} : capture'[x] = capture[x]
        /\ r \in 0..MaxRecords /\ r # 0
    BY <1>1, <2>1 DEF HostTypeOK, Records
  <2>3. CurrentFirst' => First(r)
    BY <1>3, <2>1 DEF CurrentFirst, First
  <2>4. DocOf(r)' /\ EraOf(r)'
    BY <1>1, <1>3, <2>1, <2>2, <2>3 DEF DocOf, DocFits, EraOf, EraFits
  <2>5. ASSUME NEW x \in Records \ {r}
        PROVE  DocOf(x)' /\ EraOf(x)'
    <3>1. currentSession # x /\ currentSession' # x /\ DocOf(x) /\ EraOf(x)
      BY <1>3, <1>4, <2>1 DEF Records
    <3>2. ~First(x) => ~CurrentFirst'
      BY <1>2, <2>3 DEF First
    <3> QED
      BY <1>3, <2>1, <2>2, <3>1, <3>2 DEF DocOf, DocFits, EraOf, EraFits
  <2> QED
    BY <1>1, <2>1, <2>2, <2>4, <2>5 DEF HostTypeOK
<1>5. CASE currentSession # 0
  <2>1. /\ StopCapture /\ capture' = [capture EXCEPT ![r] = "replacing"]
        /\ replaced' = [replaced EXCEPT ![r] = currentSession]
    BY <1>5 DEF StartCapture
  <2>2. /\ capture'[r] = "replacing" /\ \A x \in Records \ {r} : capture'[x] = capture[x]
        /\ capture' \in [Records -> {"none", "replacing", "media", "context", "socket", "catch",
                                     "live", "refused"}]
        /\ replaced' \in [Records -> 0..MaxRecords]
    BY <1>1, <2>1 DEF HostTypeOK
  <2>3. /\ currentSession' = 0 /\ quit' \in [Records -> BOOLEAN]
        /\ cleanupPromise' \in [Records -> {"none", "closing", "done"}]
        /\ mediaStream' \in [Records -> BOOLEAN]
        /\ \A x \in Records \ {r} : DocOf(x)' /\ EraOf(x)'
        /\ quit'[r] = quit[r] /\ cleanupPromise'[r] = cleanupPromise[r]
    BY <1>1, <1>5, <2>1, <2>2, StopCaptureEffect
  <2>4. currentSession' # r /\ ~CurrentFirst' /\ ~First(r)'
    BY <1>2, <1>3, <1>5, <2>3 DEF CurrentFirst, Records
  <2>5. DocOf(r)' /\ EraOf(r)'
    BY <1>1, <2>2, <2>3, <2>4 DEF DocOf, DocFits, EraOf, EraFits
  <2>6. currentSession' \in 0..MaxRecords
    BY <2>3, SessionAssumption
  <2> QED
    BY <2>2, <2>3, <2>5, <2>6
<1> QED
  BY <1>4, <1>5

LEMMA ReceiveFacts ==
  ASSUME EraInv, Receive
  PROVE  LET m == Head(toOffscreen) r == Head(toOffscreen).of
         IN  /\ r \in Records /\ InPipe(toOffscreen, m.type, r)
             /\ m.type \in {"START_CAPTURE", "STOP_CAPTURE"}
             /\ PipeFits(toOffscreen') /\ toOffscreen' \in Seq(Commands)
             /\ \A ty, x : InPipe(toOffscreen', ty, x) => InPipe(toOffscreen, ty, x)
             /\ ~InPipe(toOffscreen', m.type, r)
             /\ StartsFirst(toOffscreen) =>
                  /\ StartsFirst(toOffscreen')
                  /\ m.type = "STOP_CAPTURE" => ~InPipe(toOffscreen', "START_CAPTURE", r)
             /\ UNCHANGED <<background, inbox, wanted, preparing, failureNotified, audioCtx, ws, forgotten>>
<1>1. /\ PipeFits(toOffscreen) /\ toOffscreen # <<>> /\ toOffscreen' = Tail(toOffscreen)
      /\ UNCHANGED <<background, inbox, wanted, preparing, failureNotified, audioCtx, ws, forgotten>>
  BY DEF EraInv, Receive
<1>2. /\ Head(toOffscreen) \in Commands /\ PipeFits(toOffscreen')
      /\ \A ty, x : InPipe(toOffscreen', ty, x) => InPipe(toOffscreen, ty, x)
      /\ ~InPipe(toOffscreen', Head(toOffscreen).type, Head(toOffscreen).of)
      /\ InPipe(toOffscreen, Head(toOffscreen).type, Head(toOffscreen).of)
  BY <1>1, CommandTaken
<1>3. StartsFirst(toOffscreen) =>
        /\ StartsFirst(toOffscreen')
        /\ Head(toOffscreen).type = "STOP_CAPTURE"
             => ~InPipe(toOffscreen', "START_CAPTURE", Head(toOffscreen).of)
  BY <1>1, StartTakenFirst
<1>4. /\ Head(toOffscreen).of \in Records
      /\ Head(toOffscreen).type \in {"START_CAPTURE", "STOP_CAPTURE"}
  BY <1>2 DEF Commands
<1>5. toOffscreen' \in Seq(Commands)
  BY <1>2 DEF PipeFits
<1> QED
  BY <1>1, <1>2, <1>3, <1>4, <1>5

(* The answer to a stop, as a step of the runtime of SessionManager.        *)
LEMMA AnsweredStop ==
  ASSUME Shape, NEW r \in Records, StopAnswered(r)
  PROVE  /\ cleanup' \in [Records -> {"none", "pending", "done", "failed"}]
         /\ runtime' \in [Records -> {"off", "starting", "failing", "refused", "live"}]
         /\ cleanup'[r] = "done"
         /\ runtime'[r] = (IF runtime[r] \in {"starting", "failing"} THEN "failing" ELSE "off")
         /\ \A x \in Records \ {r} : cleanup'[x] = cleanup[x] /\ runtime'[x] = runtime[x]
BY DEF Shape, StopAnswered

(* What becomes of StartOf and StopOf when a message was taken.             *)
LEMMA TakenBooks ==
  ASSUME EraInv, NEW x \in Records,
         UNCHANGED <<sessionSequence, startPhase, preparing, forgotten>>,
         capture[x] = "none" /\ capture'[x] # "none" => preparing[x] = "sent",
         InPipe(toOffscreen, "START_CAPTURE", x)' => InPipe(toOffscreen, "START_CAPTURE", x),
         InPipe(toOffscreen, "START_CAPTURE", x)' => capture'[x] = "none",
         capture[x] # "none" => capture'[x] # "none"
  PROVE  StartOf(x)'
<1>1. StartOf(x) /\ (First(x)' <=> First(x))
  BY DEF EraInv, First
<1> QED
  BY <1>1 DEF StartOf, StartFits

LEMMA ReceiveEra ==
  ASSUME EraInv, Receive,
         forgotten = <<>> => LifeInv /\ Books
  PROVE  EraInv'
<1> DEFINE m == Head(toOffscreen)
           r == Head(toOffscreen).of
<1>1. /\ r \in Records /\ InPipe(toOffscreen, m.type, r)
      /\ m.type \in {"START_CAPTURE", "STOP_CAPTURE"}
      /\ PipeFits(toOffscreen') /\ toOffscreen' \in Seq(Commands)
      /\ \A ty, x : InPipe(toOffscreen', ty, x) => InPipe(toOffscreen, ty, x)
      /\ ~InPipe(toOffscreen', m.type, r)
      /\ UNCHANGED <<background, inbox, wanted, preparing, failureNotified, audioCtx, ws, forgotten>>
  BY ReceiveFacts
<1>2. UNCHANGED <<sessionSequence, startPhase>>
  BY <1>1 DEF background
<1>3. /\ HostTypeOK /\ Shape /\ \A x \in Records : DocOf(x) /\ EraOf(x) /\ StartOf(x) /\ StopOf(x)
      /\ \A x \in Records : First(x)' <=> First(x)
  BY <1>1 DEF EraInv, First
<1>4. CASE m.type = "START_CAPTURE"
  <2>1. StartCapture(r) /\ UNCHANGED <<stopsWaiting, cleanup, runtime, overlooked>>
    BY <1>4 DEF Receive
  <2>2. forgotten = <<>> => currentSession = 0
    BY <1>1, <1>4, StartFindsNone
  <2>3. /\ currentSession' \in 0..MaxRecords
        /\ \A x \in Records : DocOf(x)' /\ EraOf(x)' /\ (x # r => capture'[x] = capture[x])
        /\ capture' \in [Records -> {"none", "replacing", "media", "context", "socket", "catch",
                                     "live", "refused"}]
        /\ replaced' \in [Records -> 0..MaxRecords] /\ quit' \in [Records -> BOOLEAN]
        /\ cleanupPromise' \in [Records -> {"none", "closing", "done"}]
        /\ mediaStream' \in [Records -> BOOLEAN]
    BY <1>1, <1>4, <2>1, <2>2, StartReceived
  <2>4. HostTypeOK'
    BY <1>1, <1>3, <2>1, <2>3 DEF HostTypeOK, Commands
  <2>5. preparing[r] = "sent" /\ capture[r] = "none" /\ capture'[r] # "none"
    <3>1. preparing[r] = "sent" /\ capture[r] = "none"
      BY <1>1, <1>3, <1>4 DEF StartOf, StartFits
    <3>2. capture'[r] \in {"media", "replacing"}
      BY <1>1, <1>3, <2>1 DEF StartCapture, HostTypeOK
    <3> QED
      BY <3>1, <3>2
  <2>6. ASSUME NEW x \in Records PROVE StartOf(x)' /\ StopOf(x)'
    <3>1. InPipe(toOffscreen, "START_CAPTURE", x)' => capture'[x] = "none"
      <4>1. CASE x = r
        BY <1>1, <1>4, <4>1
      <4>2. CASE x # r
        BY <1>1, <1>3, <2>3, <4>2 DEF StartOf, StartFits
      <4> QED
        BY <4>1, <4>2
    <3>2. capture[x] = "none" /\ capture'[x] # "none" => preparing[x] = "sent"
      BY <2>3, <2>5
    <3>3. capture[x] # "none" => capture'[x] # "none"
      BY <2>3, <2>5
    <3>4. StartOf(x)'
      BY <1>1, <1>2, <3>1, <3>2, <3>3, TakenBooks
    <3>5. StopOf(x)'
      BY <1>1, <1>3, <2>1 DEF StopOf, StopFits
    <3> QED
      BY <3>4, <3>5
  <2>7. Shape'
    BY <1>2, <1>3, <2>1 DEF Shape
  <2> QED
    BY <1>1, <2>3, <2>4, <2>6, <2>7 DEF EraInv
<1>5. CASE m.type = "STOP_CAPTURE" /\ currentSession = r
  <2>1. /\ StopCapture /\ stopsWaiting' = stopsWaiting \union {r}
        /\ UNCHANGED <<capture, replaced, cleanup, runtime, overlooked>>
    BY <1>5 DEF Receive
  <2>2. currentSession # 0
    BY <1>1, <1>5 DEF Records
  <2>3. /\ currentSession' = 0 /\ quit' \in [Records -> BOOLEAN]
        /\ cleanupPromise' \in [Records -> {"none", "closing", "done"}]
        /\ mediaStream' \in [Records -> BOOLEAN]
        /\ \A x \in Records : DocOf(x)' /\ EraOf(x)'
    BY <1>1, <2>1, <2>2, StopCaptureEffect
  <2>4. HostTypeOK'
    <3>1. 0 \in 0..MaxRecords /\ stopsWaiting' \subseteq Records
      BY <1>1, <1>3, <2>1, SessionAssumption DEF HostTypeOK
    <3> QED
      BY <1>1, <1>3, <2>1, <2>3, <3>1 DEF HostTypeOK, Commands
  <2>5. ASSUME NEW x \in Records PROVE StartOf(x)' /\ StopOf(x)'
    <3>1. InPipe(toOffscreen, "START_CAPTURE", x)' => capture'[x] = "none"
      BY <1>1, <1>3, <2>1 DEF StartOf, StartFits
    <3>2. StartOf(x)'
      BY <1>1, <1>2, <2>1, <3>1, TakenBooks
    <3>3. StopOf(x)'
      BY <1>1, <1>3, <1>5, <2>1 DEF StopOf, StopFits
    <3> QED
      BY <3>2, <3>3
  <2>6. Shape'
    BY <1>2, <1>3, <2>1 DEF Shape
  <2> QED
    BY <1>1, <2>3, <2>4, <2>5, <2>6 DEF EraInv
<1>6. CASE m.type = "STOP_CAPTURE" /\ currentSession # r
  <2>1. /\ StopAnswered(r) /\ overlooked' \in {overlooked, overlooked \union {r}}
        /\ UNCHANGED <<stopsWaiting, currentSession, quit, capture, replaced, cleanupPromise, mediaStream>>
    BY <1>6 DEF Receive
  <2>2. HostTypeOK'
    BY <1>1, <1>3, <2>1 DEF HostTypeOK, Commands
  <2>3. ASSUME NEW x \in Records PROVE DocOf(x)' /\ EraOf(x)' /\ StartOf(x)' /\ StopOf(x)'
    <3>1. DocOf(x)' /\ EraOf(x)'
      BY <1>1, <1>3, <2>1 DEF DocOf, EraOf, First, CurrentFirst
    <3>2. InPipe(toOffscreen, "START_CAPTURE", x)' => capture'[x] = "none"
      BY <1>1, <1>3, <2>1 DEF StartOf, StartFits
    <3>3. StartOf(x)'
      BY <1>1, <1>2, <2>1, <3>2, TakenBooks
    <3>4. StopOf(x)'
      <4>1. CASE x = r
        BY <1>1, <1>3, <1>6, <2>1, <4>1 DEF StopOf, StopFits
      <4>2. CASE x # r
        BY <1>1, <1>3, <2>1, <4>2, AnsweredStop DEF StopOf, StopFits
      <4> QED
        BY <4>1, <4>2
    <3> QED
      BY <3>1, <3>3, <3>4
  <2>4. Shape'
    BY <1>1, <1>2, <1>3, <2>1, AnsweredStop DEF Shape
  <2> QED
    BY <1>1, <2>2, <2>3, <2>4 DEF EraInv
<1> QED
  BY <1>1, <1>4, <1>5, <1>6

(* The answer to a stop is due, and finds no session that is current.       *)
LEMMA StopAnswerKept ==
  ASSUME EraInv, LifeInv, Books, NEW r \in Records, StopAnswered(r), cleanup[r] = "pending",
         currentSession # r, r \notin stopsWaiting', ~InPipe(toOffscreen', "START_CAPTURE", r),
         UNCHANGED <<background, inbox, wanted, preparing, capture, currentSession>>,
         \A x \in Records : InPipe(toOffscreen', "START_CAPTURE", x) => InPipe(toOffscreen, "START_CAPTURE", x),
         stopsWaiting' \subseteq stopsWaiting, StartsFirst(toOffscreen')
  PROVE  Books' /\ [Next]_vars
<1>1. /\ cleanup'[r] = "done"
      /\ runtime'[r] = (IF runtime[r] \in {"starting", "failing"} THEN "failing" ELSE "off")
      /\ \A x \in Records \ {r} : cleanup'[x] = cleanup[x] /\ runtime'[x] = runtime[x]
  BY AnsweredStop DEF EraInv
<1>2. UNCHANGED <<currentRecord, sessionSequence>>
  BY DEF background
<1>3. BookOf(r)'
  BY <1>1, <1>2 DEF Books, BookOf, BookFits
<1>4. ASSUME NEW x \in Records \ {r} PROVE BookOf(x)'
  BY <1>1, <1>2 DEF Books, BookOf, BookFits
<1>5. Books'
  BY <1>3, <1>4 DEF Books
<1>6. RuntimeStops(r)
  BY DEF RuntimeStops, StopAnswered
<1>7. RuntimeStep(r)
  BY <1>6 DEF RuntimeStep, background, record
<1> QED
  BY <1>5, <1>7 DEF Next

LEMMA ReceiveBooks ==
  ASSUME EraInv, LifeInv, Books, Receive
  PROVE  Books' /\ [Next]_vars
<1> DEFINE m == Head(toOffscreen)
           r == Head(toOffscreen).of
<1>1. /\ r \in Records /\ InPipe(toOffscreen, m.type, r)
      /\ m.type \in {"START_CAPTURE", "STOP_CAPTURE"}
      /\ \A ty, x : InPipe(toOffscreen', ty, x) => InPipe(toOffscreen, ty, x)
      /\ ~InPipe(toOffscreen', m.type, r)
      /\ StartsFirst(toOffscreen')
      /\ m.type = "STOP_CAPTURE" => ~InPipe(toOffscreen', "START_CAPTURE", r)
      /\ UNCHANGED <<background, inbox, wanted, preparing, failureNotified, audioCtx, ws, forgotten>>
  BY ReceiveFacts DEF Books
<1>2. UNCHANGED <<sessionSequence, currentRecord>>
  BY <1>1 DEF background
<1>3. \A x \in Records : BookOf(x) /\ DocOf(x) /\ StartOf(x) /\ StopOf(x)
  BY DEF Books, EraInv
<1>4. CASE m.type = "START_CAPTURE"
  <2>1. StartCapture(r) /\ UNCHANGED <<stopsWaiting, cleanup, runtime>>
    BY <1>4 DEF Receive
  <2>2. currentSession = 0
    BY <1>1, <1>4, StartFindsNone
  <2>3. currentSession' = r /\ capture' = [capture EXCEPT ![r] = "media"]
    BY <2>1, <2>2 DEF StartCapture
  <2>4. capture'[r] = "media" /\ \A x \in Records \ {r} : capture'[x] = capture[x]
    BY <1>1, <2>3 DEF EraInv, HostTypeOK
  <2>5. runtime[r] = "starting" /\ cleanup[r] # "done" /\ r \notin stopsWaiting /\ preparing[r] = "sent"
    BY <1>1, <1>3, <1>4 DEF BookOf, BookFits, StartOf, StartFits
  <2>6. ASSUME NEW x \in Records PROVE BookOf(x)'
    <3>1. /\ InPipe(toOffscreen', "START_CAPTURE", x) => InPipe(toOffscreen, "START_CAPTURE", x)
          /\ BookOf(x) /\ (x = r => ~InPipe(toOffscreen', "START_CAPTURE", x))
      BY <1>1, <1>3, <1>4
    <3> HIDE DEF m, r
    <3>2. CASE x = r
      BY <1>1, <1>2, <2>1, <2>3, <2>4, <2>5, <3>1, <3>2 DEF BookOf, BookFits, InProgress
    <3>3. CASE x # r
      BY <1>1, <1>2, <2>1, <2>3, <2>4, <3>1, <3>3 DEF BookOf, BookFits
    <3> QED
      BY <3>2, <3>3
  <2>7. Books'
    BY <1>1, <2>6 DEF Books
  <2> QED
    BY <1>1, <2>1, <2>7 DEF vars, background, record, external
<1>5. CASE m.type = "STOP_CAPTURE" /\ currentSession = r
  <2>1. /\ currentSession' = 0 /\ stopsWaiting' = stopsWaiting \union {r}
        /\ UNCHANGED <<capture, replaced, cleanup, runtime>>
    BY <1>5 DEF Receive, StopCapture
  <2>2. ASSUME NEW x \in Records PROVE BookOf(x)'
    <3>1. currentSession' # x /\ (InPipe(toOffscreen', "START_CAPTURE", x) => x # r)
      BY <1>1, <1>5, <2>1 DEF Records
    <3> QED
      BY <1>1, <1>2, <1>3, <2>1, <3>1 DEF BookOf, BookFits
  <2>3. Books'
    BY <1>1, <2>2 DEF Books
  <2> QED
    BY <1>1, <2>1, <2>3 DEF vars, background, record, external
<1>6. CASE m.type = "STOP_CAPTURE" /\ currentSession # r
  <2>1. /\ StopAnswered(r)
        /\ UNCHANGED <<stopsWaiting, currentSession, quit, capture, replaced, cleanupPromise, mediaStream>>
    BY <1>6 DEF Receive
  <2>2. cleanup[r] = "pending" /\ r \notin stopsWaiting
    BY <1>1, <1>3, <1>6 DEF StopOf, StopFits
  <2> HIDE DEF m, r
  <2> QED
    BY <1>1, <1>6, <2>1, <2>2, StopAnswerKept
<1> QED
  BY <1>1, <1>4, <1>5, <1>6

LEMMA StopContinuesEra ==
  ASSUME EraInv, NEW r \in Records, StopContinuesOffscreen(r)
  PROVE  EraInv'
<1>1. /\ r \in stopsWaiting /\ stopsWaiting' = stopsWaiting \ {r} /\ StopAnswered(r)
      /\ UNCHANGED <<background, inbox, wanted, preparing, toOffscreen, document, forgotten,
                     overlooked>>
  BY DEF StopContinuesOffscreen
<1>2. HostTypeOK' /\ Shape'
  <2>1. Shape'
    BY <1>1, AnsweredStop DEF EraInv, Shape, background
  <2>2. HostTypeOK'
    BY <1>1 DEF EraInv, HostTypeOK, document
  <2> QED
    BY <2>1, <2>2
<1>3. ASSUME NEW x \in Records PROVE DocOf(x)' /\ EraOf(x)' /\ StartOf(x)'
  <2>1. DocOf(x)' /\ EraOf(x)'
    BY <1>1 DEF EraInv, DocOf, EraOf, First, CurrentFirst, document
  <2>2. StartOf(x)'
    BY <1>1 DEF EraInv, StartOf, First, InPipe, document, background
  <2> QED
    BY <2>1, <2>2
<1>4. ASSUME NEW x \in Records PROVE StopOf(x)'
  <2>1. InPipe(toOffscreen', "STOP_CAPTURE", x) <=> InPipe(toOffscreen, "STOP_CAPTURE", x)
    BY <1>1
  <2>2. x # r => cleanup'[x] = cleanup[x]
    BY <1>1, AnsweredStop DEF EraInv
  <2> QED
    BY <1>1, <2>1, <2>2 DEF EraInv, StopOf, StopFits
<1> QED
  BY <1>1, <1>2, <1>3, <1>4 DEF EraInv

LEMMA StopContinuesBooks ==
  ASSUME EraInv, LifeInv, Books, NEW r \in Records, StopContinuesOffscreen(r)
  PROVE  Books' /\ [Next]_vars
<1>1. /\ r \in stopsWaiting /\ stopsWaiting' = stopsWaiting \ {r} /\ StopAnswered(r)
      /\ UNCHANGED <<background, inbox, wanted, preparing, toOffscreen, document, forgotten,
                     overlooked>>
  BY DEF StopContinuesOffscreen
<1>2. cleanup[r] = "pending" /\ currentSession # r /\ ~InPipe(toOffscreen, "START_CAPTURE", r)
  BY <1>1 DEF EraInv, StopOf, StopFits, Books, BookOf, BookFits
<1>3. UNCHANGED <<capture, currentSession>>
  BY <1>1 DEF document
<1> QED
  BY <1>1, <1>2, <1>3, StopAnswerKept DEF Books
-----------------------------------------------------------------------------
(* The service worker ends: a session of before is either not started or    *)
(* settled, so that nothing of it is still on its way to the document.      *)
LEMMA RestartEra ==
  ASSUME EraInv, forgotten = <<>> => LifeInv /\ Books, Restart
  PROVE  EraInv'
<1>1. /\ toOffscreen = <<>> /\ \A r \in Records : startPhase[r] \in {"unborn", "settled"}
      /\ forgotten' = Append(forgotten, 1..sessionSequence)
      /\ UNCHANGED <<sessionSequence, startPhase, cleanup, external, preparing, toOffscreen,
                     stopsWaiting, document, overlooked>>
  BY DEF Restart
<1>2. /\ HostTypeOK' /\ Shape' /\ PipeFits(toOffscreen')
      /\ \A x \in Records : DocOf(x)' /\ StopOf(x)'
  <2>1. HostTypeOK' /\ Shape' /\ PipeFits(toOffscreen')
    BY <1>1 DEF EraInv, HostTypeOK, Shape, document, external
  <2>2. \A x \in Records : DocOf(x)' /\ StopOf(x)'
    BY <1>1 DEF EraInv, DocOf, StopOf, InPipe, document
  <2> QED
    BY <2>1, <2>2
<1>3. /\ forgotten' \in Seq(SUBSET Nat) /\ forgotten' # <<>>
      /\ forgotten = <<>> => forgotten'[1] = 1..sessionSequence
      /\ forgotten # <<>> => forgotten'[1] = forgotten[1]
  <2>1. forgotten \in Seq(SUBSET Nat) /\ 1..sessionSequence \in SUBSET Nat
    BY DEF EraInv
  <2>2. forgotten # <<>> => 1 \in 1..Len(forgotten)
    BY <2>1
  <2>3. /\ forgotten' \in Seq(SUBSET Nat) /\ Len(forgotten') = Len(forgotten) + 1
        /\ forgotten'[Len(forgotten) + 1] = 1..sessionSequence
        /\ \A i \in 1..Len(forgotten) : forgotten'[i] = forgotten[i]
    BY <1>1, <2>1, AppendProperties
  <2>4. forgotten = <<>> => Len(forgotten) = 0
    OBVIOUS
  <2>5. forgotten' # <<>>
    BY <2>1, <2>3
  <2> QED
    BY <2>2, <2>3, <2>4, <2>5
<1>4. \A x : ~InPipe(toOffscreen', "START_CAPTURE", x)
  BY <1>1 DEF InPipe
<1>5. CASE forgotten # <<>>
  <2>1. \A x : First(x)' <=> First(x)
    BY <1>3, <1>5 DEF First
  <2>2. \A x \in Records : EraOf(x)'
    BY <1>1, <2>1 DEF EraInv, EraOf, CurrentFirst, First, document
  <2>3. \A x \in Records : StartOf(x)'
    BY <1>1, <1>3, <1>4, <1>5, <2>1 DEF EraInv, StartOf, StartFits, document
  <2> QED
    BY <1>2, <1>3, <2>2, <2>3 DEF EraInv
<1>6. CASE forgotten = <<>>
  <2>1. \A x \in Records : (First(x)' <=> x <= sessionSequence) /\ First(x)
    BY <1>3, <1>6 DEF First, Records, EraInv, Shape
  <2>2. ASSUME NEW x \in Records
        PROVE  x > sessionSequence => capture[x] = "none"
    BY DEF EraInv, StartOf, StartFits
  <2>3. currentSession \in 0..MaxRecords /\ MaxRecords \in Nat /\ sessionSequence \in Nat
    BY SessionAssumption DEF EraInv, HostTypeOK, Shape
  <2>4. ASSUME NEW x \in Records
        PROVE  EraOf(x)'
    <3>1. EraOf(x) /\ x \in Nat /\ UNCHANGED <<capture, cleanupPromise, audioCtx, currentSession>>
      BY <1>1 DEF EraInv, document, Records
    <3>2. ~First(x)' => capture[x] = "none"
      BY <2>1, <2>2, <2>3, <3>1
    <3> QED
      BY <2>1, <3>1, <3>2 DEF EraOf, EraFits
  <2>5. ASSUME NEW x \in Records
        PROVE  StartOf(x)'
    <3>1. StartOf(x) /\ UNCHANGED <<capture, preparing, startPhase, sessionSequence>>
      BY <1>1 DEF EraInv, document
    <3>2. preparing[x] \notin {"stream", "ping"}
      <4>1. SUFFICES ASSUME preparing[x] \in {"stream", "ping"} PROVE FALSE
        OBVIOUS
      <4>2. runtime[x] \in {"starting", "failing"}
        BY <1>6, <4>1 DEF Books, BookOf, BookFits
      <4>3. Talks(runtime[x], inbox[x], startPhase[x], cleanup[x])
        BY <1>6 DEF LifeInv, RecordsFit, RecordFits
      <4> QED
        BY <1>1, <4>2, <4>3 DEF Talks, Begun
    <3>3. startPhase[x] # "ensureReady"
      BY <1>1
    <3> QED
      BY <1>4, <2>1, <3>1, <3>2, <3>3 DEF StartOf, StartFits
  <2> QED
    BY <1>2, <1>3, <2>4, <2>5 DEF EraInv
<1> QED
  BY <1>5, <1>6
-----------------------------------------------------------------------------
(* Steps of one session of the document.                                    *)
Fields(x) == <<capture[x], quit[x], failureNotified[x], cleanupPromise[x], audioCtx[x]>>

Beside == <<sessionSequence, startPhase, preparing, toOffscreen, stopsWaiting, cleanup, forgotten,
            overlooked>>

LEMMA OneSession ==
  ASSUME EraInv, HostTypeOK', Shape', NEW r \in Records, UNCHANGED Beside,
         \A x \in Records : DocOf(x)' /\ EraOf(x)',
         \A x \in Records \ {r} : capture'[x] = capture[x],
         capture'[r] = capture[r] \/ (capture[r] # "none" /\ capture'[r] # "none")
  PROVE  EraInv'
<1>1. PipeFits(toOffscreen') /\ forgotten' \in Seq(SUBSET Nat)
  BY DEF EraInv, Beside
<1>2. ASSUME NEW x \in Records PROVE StartOf(x)' /\ StopOf(x)'
  <2>1. /\ InPipe(toOffscreen', "STOP_CAPTURE", x) <=> InPipe(toOffscreen, "STOP_CAPTURE", x)
        /\ InPipe(toOffscreen', "START_CAPTURE", x) <=> InPipe(toOffscreen, "START_CAPTURE", x)
        /\ First(x)' <=> First(x)
        /\ StartOf(x) /\ StopOf(x)
    BY DEF EraInv, Beside, First
  <2>2. capture'[x] = "none" <=> capture[x] = "none"
    OBVIOUS
  <2>3. StartOf(x)'
    BY <2>1, <2>2 DEF StartOf, StartFits, Beside
  <2>4. StopOf(x)'
    BY <2>1 DEF StopOf, StopFits, Beside
  <2> QED
    BY <2>3, <2>4
<1> QED
  BY <1>1, <1>2 DEF EraInv

(* The other sessions, when the current one stays.                          *)
LEMMA OthersStay ==
  ASSUME EraInv, NEW r \in Records, UNCHANGED <<currentSession, forgotten>>,
         \A x \in Records \ {r} : Fields(x)' = Fields(x), DocOf(r)', EraOf(r)'
  PROVE  \A x \in Records : DocOf(x)' /\ EraOf(x)'
<1> SUFFICES ASSUME NEW x \in Records \ {r} PROVE DocOf(x)' /\ EraOf(x)'
  OBVIOUS
<1>1. DocOf(x) /\ EraOf(x) /\ (First(x)' <=> First(x)) /\ (CurrentFirst' <=> CurrentFirst)
  BY DEF EraInv, First, CurrentFirst
<1>2. /\ capture'[x] = capture[x] /\ quit'[x] = quit[x] /\ failureNotified'[x] = failureNotified[x]
      /\ cleanupPromise'[x] = cleanupPromise[x] /\ audioCtx'[x] = audioCtx[x]
  BY DEF Fields
<1>3. DocOf(x)'
  BY <1>1, <1>2 DEF DocOf
<1>4. EraOf(x)'
  BY <1>1, <1>2 DEF EraOf, EraFits
<1> QED
  BY <1>3, <1>4

LEMMA OneFirst ==
  ASSUME UNCHANGED <<currentSession, forgotten>>, NEW r \in Records
  PROVE  (First(r)' <=> First(r)) /\ (CurrentFirst' <=> CurrentFirst)
BY DEF First, CurrentFirst

(* The catch block of startCapture begins.                                  *)
LEMMA CaughtEffect ==
  ASSUME EraInv, NEW r \in Records, Caught(r), capture[r] \in InProgress,
         UNCHANGED <<audioCtx, currentSession, quit, failureNotified, forgotten>>
  PROVE  /\ capture' \in [Records -> {"none", "replacing", "media", "context", "socket", "catch",
                                      "live", "refused"}]
         /\ capture'[r] = "catch" /\ \A x \in Records \ {r} : capture'[x] = capture[x]
         /\ cleanupPromise' \in [Records -> {"none", "closing", "done"}]
         /\ mediaStream' \in [Records -> BOOLEAN]
         /\ \A x \in Records : DocOf(x)' /\ EraOf(x)'
<1>1. HostTypeOK /\ DocOf(r) /\ EraOf(r) /\ capture' = [capture EXCEPT ![r] = "catch"] /\ Cleanup(r)
  BY DEF EraInv, Caught
<1>2. /\ capture' \in [Records -> {"none", "replacing", "media", "context", "socket", "catch",
                                   "live", "refused"}]
      /\ capture'[r] = "catch" /\ \A x \in Records \ {r} : capture'[x] = capture[x]
  BY <1>1 DEF HostTypeOK
<1>3. /\ cleanupPromise' \in [Records -> {"none", "closing", "done"}]
      /\ mediaStream' \in [Records -> BOOLEAN] /\ cleanupPromise'[r] # "none"
      /\ \A x \in Records \ {r} : cleanupPromise'[x] = cleanupPromise[x]
  BY <1>1, CleanupEffect
<1>4. DocOf(r)'
  BY <1>1, <1>2 DEF DocOf, DocFits, InProgress
<1>5. EraOf(r)'
  BY <1>1, <1>2, <1>3, OneFirst DEF EraOf, EraFits, InProgress
<1>6. \A x \in Records \ {r} : Fields(x)' = Fields(x)
  BY <1>2, <1>3 DEF Fields
<1> QED
  BY <1>2, <1>3, <1>4, <1>5, <1>6, OthersStay

LEMMA ReplacementEra ==
  ASSUME EraInv, NEW r \in Records, ReplacementContinues(r), UNCHANGED Beside, Shape'
  PROVE  EraInv'
<1>1. /\ capture[r] = "replacing" /\ currentSession' = r
      /\ capture' = [capture EXCEPT ![r] = "media"]
      /\ UNCHANGED <<replaced, quit, failureNotified, cleanupPromise, mediaStream, audioCtx, ws>>
  BY DEF ReplacementContinues
<1>2. /\ HostTypeOK /\ capture'[r] = "media" /\ \A x \in Records \ {r} : capture'[x] = capture[x]
      /\ \A x \in Records : DocOf(x) /\ EraOf(x) /\ (First(x)' <=> First(x))
  BY <1>1 DEF EraInv, HostTypeOK, First, Beside
<1>3. ~First(r) /\ ~CurrentFirst /\ ~CurrentFirst'
  <2>1. ~First(r) /\ ~CurrentFirst
    BY <1>1, <1>2 DEF EraOf, EraFits
  <2> QED
    BY <1>1, <1>2, <2>1 DEF CurrentFirst, First
<1>4. DocOf(r)' /\ EraOf(r)'
  BY <1>1, <1>2, <1>3 DEF DocOf, DocFits, EraOf, EraFits
<1>5. ASSUME NEW x \in Records \ {r} PROVE DocOf(x)' /\ EraOf(x)'
  <2>1. First(x) => currentSession # x
    BY <1>3 DEF CurrentFirst, Records
  <2> QED
    BY <1>1, <1>2, <1>3, <2>1 DEF DocOf, DocFits, EraOf, EraFits
<1>6. HostTypeOK'
  <2>1. r \in 0..MaxRecords
    BY DEF Records
  <2>2. /\ capture' \in [Records -> {"none", "replacing", "media", "context", "socket", "catch",
                                     "live", "refused"}]
    BY <1>1, <1>2 DEF HostTypeOK
  <2> QED
    BY <1>1, <1>2, <2>1, <2>2 DEF HostTypeOK, Beside
<1> QED
  BY <1>1, <1>2, <1>4, <1>5, <1>6, OneSession

LEMMA MediaEra ==
  ASSUME EraInv, NEW r \in Records, MediaSettles(r), UNCHANGED Beside, Shape'
  PROVE  EraInv'
<1>1. /\ capture[r] = "media" /\ HostTypeOK /\ DocOf(r) /\ EraOf(r)
      /\ UNCHANGED <<currentSession, replaced, quit, failureNotified, ws, forgotten>>
  BY DEF MediaSettles, EraInv, Beside
<1>2. CASE Caught(r) /\ UNCHANGED audioCtx
  <2>1. /\ capture' \in [Records -> {"none", "replacing", "media", "context", "socket", "catch",
                                     "live", "refused"}]
        /\ capture'[r] = "catch" /\ \A x \in Records \ {r} : capture'[x] = capture[x]
        /\ cleanupPromise' \in [Records -> {"none", "closing", "done"}]
        /\ mediaStream' \in [Records -> BOOLEAN]
        /\ \A x \in Records : DocOf(x)' /\ EraOf(x)'
    BY <1>1, <1>2, CaughtEffect DEF InProgress
  <2>2. HostTypeOK'
    BY <1>1, <1>2, <2>1 DEF HostTypeOK, Beside
  <2> QED
    BY <1>1, <2>1, <2>2, OneSession
<1>3. CASE /\ Current(r) /\ mediaStream' = [mediaStream EXCEPT ![r] = TRUE]
           /\ audioCtx' = [audioCtx EXCEPT ![r] = TRUE]
           /\ capture' = [capture EXCEPT ![r] = "context"] /\ UNCHANGED cleanupPromise
  <2>1. /\ capture'[r] = "context" /\ audioCtx'[r]
        /\ \A x \in Records \ {r} : capture'[x] = capture[x] /\ audioCtx'[x] = audioCtx[x]
    BY <1>1, <1>3 DEF HostTypeOK
  <2>2. HostTypeOK'
    <3>1. /\ mediaStream' \in [Records -> BOOLEAN] /\ audioCtx' \in [Records -> BOOLEAN]
          /\ capture' \in [Records -> {"none", "replacing", "media", "context", "socket", "catch",
                                       "live", "refused"}]
      BY <1>1, <1>3 DEF HostTypeOK
    <3>2. \A x \in Records : ws'[x] \in {"connecting", "open"} => audioCtx'[x]
      BY <1>1, <2>1 DEF HostTypeOK
    <3> QED
      BY <1>1, <1>3, <3>1, <3>2 DEF HostTypeOK, Beside
  <2>3. DocOf(r)'
    BY <1>1, <1>3, <2>1 DEF DocOf, DocFits, Current
  <2>4. EraOf(r)'
    BY <1>1, <1>3, <2>1, OneFirst DEF EraOf, EraFits, Current
  <2>5. \A x \in Records \ {r} : Fields(x)' = Fields(x)
    BY <1>1, <1>3, <2>1 DEF Fields
  <2>6. \A x \in Records : DocOf(x)' /\ EraOf(x)'
    BY <1>1, <2>3, <2>4, <2>5, OthersStay
  <2> QED
    BY <1>1, <2>1, <2>2, <2>6, OneSession
<1>4. CASE /\ ~Current(r)
           /\ mediaStream' = [mediaStream EXCEPT ![r] = cleanupPromise[r] # "none"]
           /\ cleanupPromise' = [cleanupPromise EXCEPT ![r] = IF @ = "none" THEN "done" ELSE @]
           /\ capture' = [capture EXCEPT ![r] = "catch"] /\ UNCHANGED audioCtx
  <2>1. /\ capture'[r] = "catch" /\ cleanupPromise'[r] # "none"
        /\ \A x \in Records \ {r} : capture'[x] = capture[x] /\ cleanupPromise'[x] = cleanupPromise[x]
    BY <1>1, <1>4 DEF HostTypeOK
  <2>2. HostTypeOK'
    <3>1. /\ mediaStream' \in [Records -> BOOLEAN]
          /\ cleanupPromise' \in [Records -> {"none", "closing", "done"}]
          /\ capture' \in [Records -> {"none", "replacing", "media", "context", "socket", "catch",
                                       "live", "refused"}]
      BY <1>1, <1>4 DEF HostTypeOK
    <3> QED
      BY <1>1, <1>4, <3>1 DEF HostTypeOK, Beside
  <2>3. DocOf(r)'
    BY <1>1, <1>4, <2>1 DEF DocOf, DocFits
  <2>4. EraOf(r)'
    BY <1>1, <1>4, <2>1, OneFirst DEF EraOf, EraFits
  <2>5. \A x \in Records \ {r} : Fields(x)' = Fields(x)
    BY <1>1, <1>4, <2>1 DEF Fields
  <2>6. \A x \in Records : DocOf(x)' /\ EraOf(x)'
    BY <1>1, <2>3, <2>4, <2>5, OthersStay
  <2> QED
    BY <1>1, <2>1, <2>2, <2>6, OneSession
<1> QED
  BY <1>2, <1>3, <1>4 DEF MediaSettles

LEMMA ContextEra ==
  ASSUME EraInv, NEW r \in Records, ContextSettles(r) \/ ConnectTimesOut(r), UNCHANGED Beside, Shape'
  PROVE  EraInv'
<1>1. /\ capture[r] \in {"context", "socket"} /\ HostTypeOK /\ DocOf(r) /\ EraOf(r)
      /\ UNCHANGED <<currentSession, replaced, quit, failureNotified, audioCtx, forgotten>>
  BY DEF ContextSettles, ConnectTimesOut, EraInv, Beside
<1>2. CASE Caught(r) /\ UNCHANGED ws
  <2>1. /\ capture' \in [Records -> {"none", "replacing", "media", "context", "socket", "catch",
                                     "live", "refused"}]
        /\ capture'[r] = "catch" /\ \A x \in Records \ {r} : capture'[x] = capture[x]
        /\ cleanupPromise' \in [Records -> {"none", "closing", "done"}]
        /\ mediaStream' \in [Records -> BOOLEAN]
        /\ \A x \in Records : DocOf(x)' /\ EraOf(x)'
    BY <1>1, <1>2, CaughtEffect DEF InProgress
  <2>2. HostTypeOK'
    BY <1>1, <1>2, <2>1 DEF HostTypeOK, Beside
  <2> QED
    BY <1>1, <2>1, <2>2, OneSession
<1>3. CASE /\ Current(r) /\ capture' = [capture EXCEPT ![r] = "socket"] /\ capture[r] = "context"
           /\ ws' = [ws EXCEPT ![r] = "connecting"]
           /\ UNCHANGED <<cleanupPromise, mediaStream>>
  <2>1. /\ capture'[r] = "socket" /\ \A x \in Records \ {r} : capture'[x] = capture[x]
        /\ ws' \in [Records -> {"none", "connecting", "open", "closing", "closed"}]
        /\ \A x \in Records \ {r} : ws'[x] = ws[x]
    BY <1>1, <1>3 DEF HostTypeOK
  <2>2. audioCtx[r] /\ cleanupPromise[r] = "none"
    BY <1>1, <1>3 DEF DocOf, DocFits, Current
  <2>3. HostTypeOK'
    <3>1. capture' \in [Records -> {"none", "replacing", "media", "context", "socket", "catch",
                                    "live", "refused"}]
      BY <1>1, <1>3 DEF HostTypeOK
    <3>2. \A x \in Records : ws'[x] \in {"connecting", "open"} => audioCtx'[x]
      BY <1>1, <2>1, <2>2 DEF HostTypeOK
    <3> QED
      BY <1>1, <1>3, <2>1, <3>1, <3>2 DEF HostTypeOK, Beside
  <2>4. DocOf(r)'
    BY <1>1, <1>3, <2>1, <2>2 DEF DocOf, DocFits
  <2>5. EraOf(r)'
    BY <1>1, <1>3, <2>1, OneFirst DEF EraOf, EraFits
  <2>6. \A x \in Records \ {r} : Fields(x)' = Fields(x)
    BY <1>1, <1>3, <2>1 DEF Fields
  <2>7. \A x \in Records : DocOf(x)' /\ EraOf(x)'
    BY <1>1, <2>4, <2>5, <2>6, OthersStay
  <2> QED
    BY <1>1, <2>1, <2>3, <2>7, OneSession
<1> QED
  BY <1>2, <1>3 DEF ContextSettles, ConnectTimesOut

LEMMA SocketOpensEra ==
  ASSUME EraInv, NEW r \in Records, SocketOpens(r), UNCHANGED Beside, Shape'
  PROVE  EraInv'
<1>1. /\ ws[r] = "connecting" /\ ws' = [ws EXCEPT ![r] = "open"] /\ HostTypeOK
      /\ UNCHANGED <<currentSession, capture, replaced, quit, failureNotified, cleanupPromise,
                     mediaStream, audioCtx, forgotten>>
  BY DEF SocketOpens, EraInv, Beside
<1>2. HostTypeOK'
  BY <1>1 DEF HostTypeOK, Beside
<1>3. \A x \in Records : DocOf(x)' /\ EraOf(x)'
  BY <1>1 DEF EraInv, DocOf, EraOf, First, CurrentFirst
<1> QED
  BY <1>1, <1>2, <1>3, OneSession

LEMMA CleanupEra ==
  ASSUME EraInv, NEW r \in Records, CleanupContinues(r), UNCHANGED Beside, Shape'
  PROVE  EraInv'
<1>1. /\ cleanupPromise[r] = "closing" /\ HostTypeOK /\ DocOf(r) /\ EraOf(r)
      /\ cleanupPromise' = [cleanupPromise EXCEPT ![r] = "done"]
      /\ audioCtx' = [audioCtx EXCEPT ![r] = FALSE]
      /\ ws' = [ws EXCEPT ![r] = IF @ \in {"connecting", "open"} THEN "closing" ELSE @]
      /\ UNCHANGED <<currentSession, capture, replaced, quit, failureNotified, mediaStream, forgotten>>
  BY DEF CleanupContinues, EraInv, Beside
<1>2. /\ cleanupPromise'[r] = "done" /\ ~audioCtx'[r]
      /\ ws'[r] \notin {"connecting", "open"}
      /\ \A x \in Records \ {r} : /\ cleanupPromise'[x] = cleanupPromise[x]
                                  /\ audioCtx'[x] = audioCtx[x] /\ ws'[x] = ws[x]
  BY <1>1 DEF HostTypeOK
<1>3. HostTypeOK'
  <2>1. /\ cleanupPromise' \in [Records -> {"none", "closing", "done"}]
        /\ audioCtx' \in [Records -> BOOLEAN]
        /\ ws' \in [Records -> {"none", "connecting", "open", "closing", "closed"}]
    BY <1>1 DEF HostTypeOK
  <2>2. \A x \in Records : ws'[x] \in {"connecting", "open"} => audioCtx'[x]
    BY <1>1, <1>2 DEF HostTypeOK
  <2> QED
    BY <1>1, <2>1, <2>2 DEF HostTypeOK, Beside
<1>4. DocOf(r)'
  BY <1>1, <1>2 DEF DocOf, DocFits
<1>5. EraOf(r)'
  BY <1>1, <1>2, OneFirst DEF EraOf, EraFits
<1>6. \A x \in Records \ {r} : Fields(x)' = Fields(x)
  BY <1>1, <1>2 DEF Fields
<1>7. \A x \in Records : DocOf(x)' /\ EraOf(x)'
  BY <1>1, <1>4, <1>5, <1>6, OthersStay
<1> QED
  BY <1>1, <1>3, <1>7, OneSession

LEMMA QuietEra ==
  ASSUME EraInv, NEW r \in Records, Quiet(r)
  PROVE  EraInv'
<1>1. UNCHANGED Beside /\ Shape'
  BY DEF Quiet, Beside, background, external, EraInv, Shape
<1> QED
  BY <1>1, ReplacementEra, MediaEra, ContextEra, SocketOpensEra, CleanupEra DEF Quiet

LEMMA AnsweredEra ==
  ASSUME EraInv, NEW r \in Records, SessionReady(r) \/ CatchThrows(r)
  PROVE  EraInv'
<1>1. /\ UNCHANGED Beside /\ HostTypeOK /\ DocOf(r) /\ EraOf(r)
      /\ UNCHANGED <<currentSession, replaced, quit, failureNotified, cleanupPromise, mediaStream,
                     audioCtx, ws, forgotten>>
  BY DEF SessionReady, CatchThrows, Beside, background, EraInv
<1>2. \/ capture[r] = "socket" /\ Current(r) /\ capture' = [capture EXCEPT ![r] = "live"]
      \/ /\ capture[r] = "catch" /\ cleanupPromise[r] = "done"
         /\ capture' = [capture EXCEPT ![r] = "refused"]
  BY DEF SessionReady, CatchThrows
<1>3. /\ capture' \in [Records -> {"none", "replacing", "media", "context", "socket", "catch",
                                   "live", "refused"}]
      /\ \A x \in Records \ {r} : capture'[x] = capture[x]
      /\ capture'[r] = IF capture[r] = "socket" THEN "live" ELSE "refused"
  BY <1>1, <1>2 DEF HostTypeOK
<1>4. HostTypeOK'
  BY <1>1, <1>3 DEF HostTypeOK, Beside
<1>5. Shape'
  <2>1. runtime' = [runtime EXCEPT ![r] = "live"] \/ Refuse(r)
    BY DEF SessionReady, CatchThrows
  <2>2. runtime' \in [Records -> {"off", "starting", "failing", "refused", "live"}]
    BY <2>1 DEF EraInv, Shape, Refuse
  <2> QED
    BY <1>1, <2>2 DEF EraInv, Shape, Beside
<1>6. DocOf(r)'
  BY <1>1, <1>2, <1>3 DEF DocOf, DocFits
<1>7. EraOf(r)'
  BY <1>1, <1>2, <1>3, OneFirst DEF EraOf, EraFits
<1>8. \A x \in Records \ {r} : Fields(x)' = Fields(x)
  BY <1>1, <1>3 DEF Fields
<1>9. \A x \in Records : DocOf(x)' /\ EraOf(x)'
  BY <1>1, <1>6, <1>7, <1>8, OthersStay
<1> QED
  BY <1>1, <1>2, <1>3, <1>4, <1>5, <1>9, OneSession

(* The end of a socket.                                                     *)
LEMMA SocketAfter ==
  ASSUME EraInv, NEW r \in Records, SocketFails(r)
  PROVE  /\ ws' \in [Records -> {"none", "connecting", "open", "closing", "closed"}]
         /\ \A x \in Records : ws'[x] \in {"connecting", "open"} => audioCtx'[x]
         /\ UNCHANGED Beside /\ UNCHANGED <<replaced, audioCtx, forgotten>>
<1>1. UNCHANGED Beside /\ UNCHANGED <<replaced, audioCtx, forgotten>>
  BY DEF SocketFails, Beside, background
<1>2. PICK after \in CASE ws[r] = "connecting" -> {"closing"}
                       [] ws[r] = "open" -> {"closing", "closed"} \union (IF Current(r) THEN {"open"} ELSE {})
                       [] ws[r] = "closing" -> {"closed"}
                       [] OTHER -> {} :
             ws' = [ws EXCEPT ![r] = after]
  BY DEF SocketFails
<1>3. after \in {"closing", "closed", "open"} /\ (after = "open" => ws[r] = "open")
  BY <1>2
<1>4. /\ ws \in [Records -> {"none", "connecting", "open", "closing", "closed"}]
      /\ \A x \in Records : ws[x] \in {"connecting", "open"} => audioCtx[x]
  BY DEF EraInv, HostTypeOK
<1>5. /\ ws' \in [Records -> {"none", "connecting", "open", "closing", "closed"}]
      /\ ws'[r] = after /\ \A x \in Records \ {r} : ws'[x] = ws[x]
  BY <1>2, <1>3, <1>4
<1> QED
  BY <1>1, <1>3, <1>4, <1>5

LEMMA SocketFailsEra ==
  ASSUME EraInv, NEW r \in Records, SocketFails(r)
  PROVE  EraInv'
<1>1. /\ ws' \in [Records -> {"none", "connecting", "open", "closing", "closed"}]
      /\ \A x \in Records : ws'[x] \in {"connecting", "open"} => audioCtx'[x]
      /\ UNCHANGED Beside /\ UNCHANGED <<replaced, audioCtx, forgotten>>
      /\ HostTypeOK /\ DocOf(r)
  BY SocketAfter DEF EraInv
<1>2. CASE /\ capture[r] = "socket" /\ Caught(r)
           /\ UNCHANGED <<external, failureNotified, currentSession, quit>>
  <2>1. /\ capture' \in [Records -> {"none", "replacing", "media", "context", "socket", "catch",
                                     "live", "refused"}]
        /\ capture'[r] = "catch" /\ \A x \in Records \ {r} : capture'[x] = capture[x]
        /\ cleanupPromise' \in [Records -> {"none", "closing", "done"}]
        /\ mediaStream' \in [Records -> BOOLEAN]
        /\ \A x \in Records : DocOf(x)' /\ EraOf(x)'
    BY <1>1, <1>2, CaughtEffect DEF InProgress
  <2>2. HostTypeOK' /\ Shape'
    BY <1>1, <1>2, <2>1 DEF HostTypeOK, Beside, EraInv, Shape, external
  <2> QED
    BY <1>1, <1>2, <2>1, <2>2, OneSession
<1>3. CASE capture[r] # "socket" /\ Current(r) /\ FailSession(r) /\ UNCHANGED capture
  <2>1. /\ failureNotified' = [failureNotified EXCEPT ![r] = TRUE] /\ StopCapture
        /\ runtime' = [runtime EXCEPT ![r] = IF @ = "starting" THEN "failing" ELSE "off"]
        /\ currentSession = r
    BY <1>1, <1>3 DEF FailSession, DocOf, DocFits, Current
  <2>2. /\ failureNotified' \in [Records -> BOOLEAN]
        /\ \A x \in Records \ {r} : failureNotified'[x] = failureNotified[x]
    BY <1>1, <2>1 DEF HostTypeOK
  <2>3. currentSession # 0
    BY <2>1 DEF Records
  <2>4. /\ currentSession' = 0 /\ quit' \in [Records -> BOOLEAN]
        /\ cleanupPromise' \in [Records -> {"none", "closing", "done"}]
        /\ mediaStream' \in [Records -> BOOLEAN]
        /\ \A x \in Records : DocOf(x)' /\ EraOf(x)'
    BY <1>1, <1>3, <2>1, <2>2, <2>3, StopCaptureEffect
  <2>5. HostTypeOK'
    <3>1. 0 \in 0..MaxRecords
      BY SessionAssumption
    <3> QED
      BY <1>1, <1>3, <2>2, <2>4, <3>1 DEF HostTypeOK, Beside
  <2>6. Shape'
    BY <1>1, <2>1 DEF EraInv, Shape, Beside
  <2> QED
    BY <1>1, <1>3, <2>4, <2>5, <2>6, OneSession
<1>4. CASE UNCHANGED <<external, failureNotified, currentSession, quit, cleanupPromise, mediaStream,
                       capture>>
  <2>1. HostTypeOK' /\ Shape'
    BY <1>1, <1>4 DEF HostTypeOK, Beside, EraInv, Shape, external
  <2>2. \A x \in Records : DocOf(x)' /\ EraOf(x)'
    BY <1>1, <1>4 DEF EraInv, DocOf, EraOf, First, CurrentFirst
  <2> QED
    BY <1>1, <1>4, <2>1, <2>2, OneSession
<1> QED
  BY <1>2, <1>3, <1>4 DEF SocketFails

(* A step of the document leaves the pipe and the adapter as they are.      *)
LEMMA DocumentBooks ==
  ASSUME Books, NEW r \in Records, BookOf(r)',
         UNCHANGED <<currentRecord, sessionSequence, cleanup, preparing, toOffscreen, stopsWaiting>>,
         \A x \in Records \ {r} : /\ runtime'[x] = runtime[x] /\ capture'[x] = capture[x]
                                  /\ currentSession' = x => currentSession = x
  PROVE  Books'
<1>1. ASSUME NEW x \in Records \ {r} PROVE BookOf(x)'
  <2>1. /\ BookOf(x) /\ runtime'[x] = runtime[x] /\ capture'[x] = capture[x]
        /\ currentSession' = x => currentSession = x
    BY DEF Books
  <2> QED
    BY <2>1 DEF BookOf, BookFits
<1> QED
  BY <1>1 DEF Books

LEMMA QuietBooks ==
  ASSUME EraInv, LifeInv, Books, forgotten = <<>>, NEW r \in Records, Quiet(r)
  PROVE  Books' /\ [Next]_vars
<1>1. /\ UNCHANGED <<background, cleanup, external, wanted, preparing, toOffscreen, stopsWaiting>>
      /\ BookOf(r) /\ HostTypeOK
  BY DEF Quiet, Books, EraInv
<1>2. UNCHANGED <<vars, currentRecord, sessionSequence, runtime>>
  BY <1>1 DEF vars, background, record, external
<1>3. capture[r] # "replacing"
  BY DEF EraInv, EraOf, EraFits, First
<1>4. /\ currentSession' = currentSession
      /\ \A x \in Records \ {r} : capture'[x] = capture[x]
      /\ capture'[r] = capture[r] \/ (capture[r] \in InProgress /\ capture'[r] \in InProgress)
  BY <1>1, <1>3 DEF Quiet, ReplacementContinues, MediaSettles, ContextSettles, ConnectTimesOut,
                    SocketOpens, CleanupContinues, Caught, HostTypeOK, InProgress
<1>5. BookOf(r)'
  BY <1>1, <1>2, <1>4 DEF BookOf, BookFits, InProgress
<1>6. Books'
  BY <1>1, <1>2, <1>4, <1>5, DocumentBooks
<1> QED
  BY <1>2, <1>6

LEMMA AnsweredBooks ==
  ASSUME EraInv, LifeInv, Books, NEW r \in Records, SessionReady(r) \/ CatchThrows(r)
  PROVE  Books' /\ [Next]_vars
<1>1. /\ UNCHANGED <<background, cleanup, wanted, preparing, toOffscreen, stopsWaiting, currentSession>>
      /\ BookOf(r) /\ StartOf(r) /\ HostTypeOK /\ Shape
  BY DEF SessionReady, CatchThrows, Books, EraInv
<1>2. UNCHANGED <<currentRecord, sessionSequence>>
  BY <1>1 DEF background
<1>3. capture[r] \in {"socket", "catch"} /\ runtime[r] \in {"starting", "failing"}
      /\ (currentSession = r => runtime[r] = "starting")
  BY <1>1 DEF SessionReady, CatchThrows, BookOf, BookFits, InProgress
<1>4. preparing[r] = "sent" /\ ~InPipe(toOffscreen, "START_CAPTURE", r)
  BY <1>1, <1>3 DEF StartOf, StartFits
<1>5. CASE SessionReady(r)
  <2>1. currentSession = r
    BY <1>5 DEF SessionReady, Current
  <2>2. RuntimeGoesLive(r)
    BY <1>3, <1>5, <2>1 DEF SessionReady, RuntimeGoesLive
  <2>3. /\ capture'[r] = "live" /\ runtime'[r] = "live"
        /\ \A x \in Records \ {r} : runtime'[x] = runtime[x] /\ capture'[x] = capture[x]
    BY <1>1, <1>5 DEF SessionReady, HostTypeOK, Shape
  <2>4. BookOf(r)'
    BY <1>1, <1>2, <1>4, <2>1, <2>3 DEF BookOf, BookFits, InProgress
  <2>5. Books'
    BY <1>1, <1>2, <2>3, <2>4, DocumentBooks
  <2>6. RuntimeStep(r)
    BY <1>1, <2>2 DEF RuntimeStep, background, record
  <2> QED
    BY <2>5, <2>6 DEF Next
<1>6. CASE CatchThrows(r)
  <2>1. RuntimeRefuses(r)
    BY <1>3, <1>6 DEF CatchThrows, RuntimeRefuses, Refuse, Says
  <2>2. /\ capture'[r] = "refused"
        /\ runtime'[r] = IF runtime[r] = "starting" THEN "refused" ELSE "off"
        /\ \A x \in Records \ {r} : runtime'[x] = runtime[x] /\ capture'[x] = capture[x]
    BY <1>1, <1>6 DEF CatchThrows, Refuse, HostTypeOK, Shape
  <2>3. BookOf(r)'
    BY <1>1, <1>2, <1>3, <1>4, <2>2 DEF BookOf, BookFits, InProgress
  <2>4. Books'
    BY <1>1, <1>2, <2>2, <2>3, DocumentBooks
  <2>5. RuntimeStep(r)
    BY <1>1, <2>1 DEF RuntimeStep, background, record
  <2> QED
    BY <2>4, <2>5 DEF Next
<1> QED
  BY <1>5, <1>6

LEMMA SocketFailsBooks ==
  ASSUME EraInv, LifeInv, Books, NEW r \in Records, SocketFails(r)
  PROVE  Books' /\ [Next]_vars
<1>1. /\ UNCHANGED <<background, cleanup, wanted, preparing, toOffscreen, stopsWaiting>>
      /\ BookOf(r) /\ StartOf(r) /\ DocOf(r) /\ HostTypeOK /\ Shape
  BY DEF SocketFails, Books, EraInv
<1>2. UNCHANGED <<currentRecord, sessionSequence>>
  BY <1>1 DEF background
<1>3. CASE capture[r] = "socket" /\ Caught(r) /\ UNCHANGED <<external, currentSession>>
  <2>1. /\ capture'[r] = "catch" /\ \A x \in Records \ {r} : capture'[x] = capture[x]
        /\ runtime' = runtime
    BY <1>1, <1>3 DEF Caught, HostTypeOK, external
  <2>2. BookOf(r)'
    BY <1>1, <1>2, <1>3, <2>1 DEF BookOf, BookFits, InProgress
  <2>3. Books'
    BY <1>1, <1>2, <1>3, <2>1, <2>2, DocumentBooks
  <2> QED
    BY <1>1, <1>3, <2>3 DEF vars, background, record
<1>4. CASE Current(r) /\ FailSession(r) /\ UNCHANGED capture
  <2>1. currentSession = r /\ capture[r] \notin {"none", "replacing"}
    BY <1>1, <1>4 DEF Current, DocOf, DocFits
  <2>2. /\ currentSession' = 0 /\ Says(r, "fatal")
        /\ runtime' = [runtime EXCEPT ![r] = IF @ = "starting" THEN "failing" ELSE "off"]
    BY <1>1, <1>4, <2>1 DEF FailSession, DocOf, DocFits, StopCapture
  <2>3. runtime[r] \in {"starting", "live", "refused"}
        /\ (capture[r] \in InProgress => runtime[r] = "starting")
    BY <1>1, <2>1 DEF BookOf, BookFits, InProgress, HostTypeOK
  <2>4. preparing[r] = "sent" /\ ~InPipe(toOffscreen, "START_CAPTURE", r)
    BY <1>1, <2>1 DEF StartOf, StartFits
  <2>5. RuntimeFails(r)
    BY <2>2, <2>3 DEF RuntimeFails, Says
  <2>6. /\ runtime'[r] = IF runtime[r] = "starting" THEN "failing" ELSE "off"
        /\ \A x \in Records : x # r => runtime'[x] = runtime[x]
        /\ \A x \in Records : currentSession' # x
    BY <1>1, <2>2 DEF Shape, Records
  <2>7. BookOf(r)'
    BY <1>1, <1>2, <1>4, <2>3, <2>4, <2>6 DEF BookOf, BookFits
  <2>8. Books'
    BY <1>1, <1>2, <1>4, <2>6, <2>7, DocumentBooks
  <2>9. RuntimeStep(r)
    BY <1>1, <2>5 DEF RuntimeStep, background, record
  <2> QED
    BY <2>8, <2>9 DEF Next
<1>5. CASE UNCHANGED <<external, currentSession, capture>>
  <2>1. runtime' = runtime
    BY <1>5 DEF external
  <2>2. BookOf(r)'
    BY <1>1, <1>2, <1>5, <2>1 DEF BookOf
  <2>3. Books'
    BY <1>1, <1>2, <1>5, <2>1, <2>2, DocumentBooks
  <2> QED
    BY <1>1, <1>5, <2>3 DEF vars, background, record
<1> QED
  BY <1>3, <1>4, <1>5 DEF SocketFails
-----------------------------------------------------------------------------
(* StopInv: what a step of the manager does to its records.                 *)
OwnMoves(x) ==
  /\ currentRecord' \in 0..sessionSequence'
  /\ cancelled' \in [Records -> BOOLEAN] /\ stopping' \in [Records -> BOOLEAN]
  /\ stopping'[x] => x = currentRecord'
  /\ cancelled[x] => cancelled'[x]
  /\ \/ cleanup'[x] = cleanup[x]
     \/ /\ x <= sessionSequence
        /\ cancelled'[x] \/ (startPhase'[x] \in Begun /\ preparing[x] \notin {"stream", "ping"})
  /\ x <= sessionSequence' /\ x # currentRecord' =>
       (x <= sessionSequence /\ x # currentRecord) \/ cleanup'[x] = "done"

LEMMA StopCurrentOwns ==
  ASSUME EraInv, StopInv, StopCurrent, UNCHANGED <<currentRecord, sessionSequence>>,
         NEW x \in Records
  PROVE  OwnMoves(x)
<1>1. /\ currentRecord \in 0..sessionSequence /\ sessionSequence \in Nat
      /\ cancelled \in [Records -> BOOLEAN] /\ stopping \in [Records -> BOOLEAN]
      /\ stopping[x] => x = currentRecord
      /\ cleanup \in [Records -> {"none", "pending", "done", "failed"}] /\ x \in Nat
  BY DEF EraInv, Shape, StopInv, OwnOf, OwnFits, Records
<1>2. CASE stopping[currentRecord]
  BY <1>1, <1>2 DEF StopCurrent, OwnMoves
<1>3. CASE ~stopping[currentRecord]
  <2>1. /\ cancelled' = [cancelled EXCEPT ![currentRecord] = TRUE]
        /\ stopping' = [stopping EXCEPT ![currentRecord] = TRUE]
        /\ cleanup' = [cleanup EXCEPT ![currentRecord] = IF @ = "none" THEN "pending" ELSE @]
    BY <1>3 DEF StopCurrent, CleanupRecord
  <2>2. x # currentRecord => cleanup'[x] = cleanup[x]
    BY <1>1, <2>1
  <2>3. x = currentRecord => cancelled'[x] /\ x <= sessionSequence
    BY <1>1, <2>1
  <2> QED
    BY <1>1, <2>1, <2>2, <2>3 DEF OwnMoves
<1> QED
  BY <1>2, <1>3

LEMMA BeginOwns ==
  ASSUME EraInv, StopInv, NEW t, BeginStart(t), NEW x \in Records,
         currentRecord = 0 \/ cleanup[currentRecord] = "done",
         UNCHANGED <<cancelled, cleanup>>, stopping' \in [Records -> BOOLEAN], ~stopping'[x]
  PROVE  OwnMoves(x)
<1>1. /\ currentRecord \in 0..sessionSequence /\ sessionSequence \in Nat
      /\ cancelled \in [Records -> BOOLEAN] /\ x \in Nat /\ x # 0
  BY DEF EraInv, Shape, StopInv, Records
<1>2. \/ sessionSequence' = sessionSequence /\ currentRecord' = 0
      \/ sessionSequence' = sessionSequence + 1 /\ currentRecord' = sessionSequence + 1
  BY DEF BeginStart
<1>3. currentRecord' \in 0..sessionSequence' /\ (x <= sessionSequence' /\ x # currentRecord' => x <= sessionSequence)
  BY <1>1, <1>2
<1> QED
  BY <1>1, <1>3 DEF OwnMoves

LEMMA CaughtOwns ==
  ASSUME EraInv, StopInv, NEW r \in Records, StartCaught(r), NEW x \in Records,
         UNCHANGED <<currentRecord, sessionSequence, record, stopping>>,
         startPhase[r] = "ensureReady" \/ inbox[r] # <<>>
  PROVE  OwnMoves(x)
<1>1. /\ currentRecord \in 0..sessionSequence /\ sessionSequence \in Nat /\ x \in Nat
      /\ cancelled \in [Records -> BOOLEAN] /\ stopping \in [Records -> BOOLEAN]
      /\ stopping[x] => x = currentRecord
      /\ cleanup \in [Records -> {"none", "pending", "done", "failed"}]
      /\ startPhase \in [Records -> StartPhases] /\ cancelled' = cancelled
  BY DEF EraInv, Shape, StopInv, OwnOf, OwnFits, Records, record
<1>2. r <= sessionSequence /\ preparing[r] \notin {"stream", "ping"}
  BY DEF EraInv, StartOf, StartFits, Shape, StopInv, TalkOf, TalkFits, Records
<1>3. startPhase'[r] \in Begun
  BY <1>1 DEF StartCaught, Begun
<1>4. x # r => cleanup'[x] = cleanup[x]
  BY <1>1 DEF StartCaught, CleanupRecord
<1> QED
  BY <1>1, <1>2, <1>3, <1>4 DEF OwnMoves

LEMMA ManagerOwns ==
  ASSUME EraInv, StopInv, Manager, NEW x \in Records
  PROVE  OwnMoves(x)
<1>1. /\ currentRecord \in 0..sessionSequence /\ sessionSequence \in Nat /\ x \in Nat /\ x # 0
      /\ cancelled \in [Records -> BOOLEAN] /\ stopping \in [Records -> BOOLEAN]
      /\ \A y \in Records : stopping[y] => y = currentRecord
  BY DEF EraInv, Shape, StopInv, OwnOf, OwnFits, Records
<1>2. ASSUME UNCHANGED <<currentRecord, sessionSequence, cancelled, stopping, cleanup>>
      PROVE  OwnMoves(x)
  BY <1>1, <1>2 DEF OwnMoves
<1>3. CASE Stop
  <2>1. UNCHANGED <<currentRecord, sessionSequence>>
    BY <1>3 DEF Stop
  <2>2. StopCurrent \/ UNCHANGED <<cancelled, stopping, cleanup>>
    BY <1>3 DEF Stop
  <2> QED
    BY <1>2, <2>1, <2>2, StopCurrentOwns
<1>4. ASSUME NEW t \in Tabs \union {NoTab}, Start(t)
      PROVE  OwnMoves(x)
  <2>1. CASE AlreadyStarting(t)
    BY <1>2, <1>4, <2>1 DEF Start, record
  <2>2. CASE ~AlreadyStarting(t) /\ currentRecord # 0
    BY <1>4, <2>2, StopCurrentOwns DEF Start
  <2>3. CASE ~AlreadyStarting(t) /\ currentRecord = 0
    <3>1. BeginStart(t) /\ UNCHANGED <<cancelled, stopping, cleanup>>
      BY <1>4, <2>3 DEF Start
    <3>2. stopping' \in [Records -> BOOLEAN] /\ ~stopping'[x]
      BY <1>1, <2>3, <3>1
    <3> QED
      BY <2>3, <3>1, <3>2, BeginOwns
  <2> QED
    BY <2>1, <2>2, <2>3
<1>5. ASSUME NEW r \in Records, Answer(r)
      PROVE  OwnMoves(x)
  <2>1. CASE StopContinues(r)
    <3>1. /\ stopping[r] /\ cleanup[r] \in {"done", "failed"}
          /\ stopping' = [stopping EXCEPT ![r] = FALSE] /\ UNCHANGED <<cancelled, cleanup>>
      BY <2>1 DEF StopContinues
    <3>2. r = currentRecord /\ cleanup[r] = "done"
      BY <1>1, <3>1 DEF StopInv, OwnOf, OwnFits
    <3>3. stopping' \in [Records -> BOOLEAN] /\ ~stopping'[x]
      BY <1>1, <3>1, <3>2
    <3>4. \/ \E t : BeginStart(t)
          \/ currentRecord' = 0 /\ UNCHANGED sessionSequence
      BY <2>1 DEF StopContinues
    <3>5. CASE currentRecord' = 0 /\ UNCHANGED sessionSequence
      BY <1>1, <3>1, <3>2, <3>3, <3>5 DEF OwnMoves
    <3> QED
      BY <3>1, <3>2, <3>3, <3>4, <3>5, BeginOwns
  <2>2. CASE EnsureReadySettles(r)
    <3>1. startPhase[r] = "ensureReady" /\ UNCHANGED <<currentRecord, sessionSequence, record, stopping>>
      BY <2>2 DEF EnsureReadySettles
    <3>2. StartCaught(r) \/ UNCHANGED cleanup
      BY <2>2 DEF EnsureReadySettles
    <3> QED
      BY <1>2, <3>1, <3>2, CaughtOwns DEF record
  <2>3. CASE StartSettles(r)
    <3>1. inbox[r] # <<>> /\ UNCHANGED <<currentRecord, sessionSequence, record, stopping>>
      BY <2>3 DEF StartSettles
    <3>2. StartCaught(r) \/ UNCHANGED cleanup
      BY <2>3 DEF StartSettles
    <3> QED
      BY <1>2, <3>1, <3>2, CaughtOwns DEF record
  <2>4. CASE CatchContinues(r)
    BY <1>2, <2>4 DEF CatchContinues, record
  <2>5. CASE HandleRuntimeEvent(r)
    <3>1. UNCHANGED <<currentRecord, sessionSequence, stopping>>
      BY <2>5 DEF HandleRuntimeEvent
    <3>2. \/ UNCHANGED <<cancelled, cleanup>>
          \/ /\ currentRecord = r /\ cancelled' = [cancelled EXCEPT ![r] = TRUE]
             /\ CleanupRecord(r)
      BY <2>5 DEF HandleRuntimeEvent
    <3>3. CASE currentRecord = r /\ cancelled' = [cancelled EXCEPT ![r] = TRUE] /\ CleanupRecord(r)
      <4>1. x # r => cleanup'[x] = cleanup[x]
        BY <3>3 DEF CleanupRecord, EraInv, Shape
      <4> QED
        BY <1>1, <3>1, <3>3, <4>1 DEF OwnMoves
    <3> QED
      BY <1>2, <3>1, <3>2, <3>3
  <2> QED
    BY <1>5, <2>1, <2>2, <2>3, <2>4, <2>5 DEF Answer
<1> QED
  BY <1>3, <1>4, <1>5 DEF Manager, TabLeaves

(* A message is taken, or added.                                            *)
LEMMA AnswersLeft ==
  ASSUME NEW in \in Seq(News), in # <<>>
  PROVE  /\ Tail(in) \in Seq(News) /\ (Answered(Tail(in)) => Answered(in))
         /\ Head(in) \in {"started", "refused"} => Answered(in)
<1>1. /\ Tail(in) \in Seq(News) /\ Len(in) \in Nat \ {0} /\ DOMAIN in = 1..Len(in)
      /\ Head(in) = in[1] /\ DOMAIN Tail(in) = 1..(Len(in) - 1)
      /\ \A i \in 1..(Len(in) - 1) : Tail(in)[i] = in[i + 1]
  OBVIOUS
<1>2. ASSUME NEW i \in DOMAIN Tail(in), Tail(in)[i] \in {"started", "refused"}
      PROVE  Answered(in)
  <2>1. i + 1 \in DOMAIN in /\ in[i + 1] = Tail(in)[i]
    BY <1>1
  <2> QED
    BY <1>2, <2>1 DEF Answered
<1>3. Head(in) \in {"started", "refused"} => Answered(in)
  <2>1. 1 \in DOMAIN in
    BY <1>1
  <2> QED
    BY <1>1, <2>1 DEF Answered
<1>4. Answered(Tail(in)) => Answered(in)
  BY <1>2 DEF Answered
<1> QED
  BY <1>1, <1>3, <1>4

LEMMA AnswersMore ==
  ASSUME NEW in \in Seq(News), NEW m \in News
  PROVE  /\ Append(in, m) \in Seq(News)
         /\ Answered(Append(in, m)) => Answered(in) \/ m \in {"started", "refused"}
<1> DEFINE new == Append(in, m)
<1>1. /\ new \in Seq(News) /\ DOMAIN new = 1..(Len(in) + 1) /\ DOMAIN in = 1..Len(in)
      /\ Len(in) \in Nat /\ new[Len(in) + 1] = m /\ \A i \in 1..Len(in) : new[i] = in[i]
  BY AppendProperties
<1> HIDE DEF new
<1>2. ASSUME NEW i \in DOMAIN new, new[i] \in {"started", "refused"}
      PROVE  Answered(in) \/ m \in {"started", "refused"}
  <2>1. CASE i = Len(in) + 1
    BY <1>1, <1>2, <2>1
  <2>2. CASE i # Len(in) + 1
    <3>1. i \in DOMAIN in /\ in[i] = new[i]
      BY <1>1, <2>2
    <3> QED
      BY <1>2, <3>1 DEF Answered
  <2> QED
    BY <2>1, <2>2
<1>3. Answered(new) => Answered(in) \/ m \in {"started", "refused"}
  BY <1>2 DEF Answered
<1> QED
  BY <1>1, <1>3 DEF new

LEMMA ManagerTalks ==
  ASSUME EraInv, StopInv, Manager, NEW x \in Records
  PROVE  /\ inbox' \in [Records -> Seq(News)]
         /\ inbox'[x] = inbox[x] \/ (inbox[x] # <<>> /\ inbox'[x] = Tail(inbox[x]))
         /\ startPhase[x] = "start" /\ startPhase'[x] # "start"
              => x > sessionSequence \/ Answered(inbox[x])
<1> DEFINE Stays == startPhase'[x] = startPhase[x] \/ startPhase[x] # "start" \/ x > sessionSequence
           Waits == inbox' = inbox
<1>1. inbox \in [Records -> Seq(News)] /\ startPhase \in [Records -> StartPhases] /\ Shape
  BY DEF StopInv, EraInv, Shape
<1>2. ASSUME NEW t, BeginStart(t) PROVE Stays
  BY <1>1, <1>2, BeginMoves
<1>3. ASSUME Waits, Stays
      PROVE  /\ inbox' \in [Records -> Seq(News)]
             /\ inbox'[x] = inbox[x] \/ (inbox[x] # <<>> /\ inbox'[x] = Tail(inbox[x]))
             /\ startPhase[x] = "start" /\ startPhase'[x] # "start"
                  => x > sessionSequence \/ Answered(inbox[x])
  BY <1>1, <1>3
<1>4. CASE Stop
  BY <1>3, <1>4 DEF Stop, external
<1>5. ASSUME NEW t \in Tabs \union {NoTab}, Start(t)
      PROVE  Waits /\ Stays
  <2>1. BeginStart(t) \/ UNCHANGED startPhase
    BY <1>5 DEF Start
  <2> QED
    BY <1>2, <1>5, <2>1 DEF Start, external
<1>6. ASSUME NEW r \in Records, StopContinues(r) \/ EnsureReadySettles(r) \/ CatchContinues(r)
      PROVE  Waits /\ Stays
  <2>1. CASE StopContinues(r)
    <3>1. Waits /\ ((\E t : BeginStart(t)) \/ UNCHANGED startPhase)
      BY <2>1 DEF StopContinues, external
    <3> QED
      BY <1>2, <3>1
  <2>2. CASE EnsureReadySettles(r)
    <3>1. /\ Waits /\ startPhase[r] = "ensureReady"
          /\ \/ startPhase' = [startPhase EXCEPT ![r] = "start"]
             \/ StartCaught(r)
      BY <2>2 DEF EnsureReadySettles
    <3>2. x # r => startPhase'[x] = startPhase[x]
      BY <1>1, <3>1 DEF StartCaught
    <3> QED
      BY <3>1, <3>2
  <2>3. CASE CatchContinues(r)
    <3>1. /\ Waits /\ startPhase[r] \in {"catchCancelled", "catchFailed"}
          /\ startPhase' = [startPhase EXCEPT ![r] = "settled"]
      BY <2>3 DEF CatchContinues, external
    <3> QED
      BY <1>1, <3>1
  <2> QED
    BY <1>6, <2>1, <2>2, <2>3
<1>7. ASSUME NEW r \in Records, StartSettles(r) \/ HandleRuntimeEvent(r)
      PROVE  /\ inbox' \in [Records -> Seq(News)]
             /\ inbox'[x] = inbox[x] \/ (inbox[x] # <<>> /\ inbox'[x] = Tail(inbox[x]))
             /\ startPhase[x] = "start" /\ startPhase'[x] # "start"
                  => x > sessionSequence \/ Answered(inbox[x])
  <2>1. inbox[r] # <<>> /\ inbox' = [inbox EXCEPT ![r] = Tail(@)]
    BY <1>7 DEF StartSettles, HandleRuntimeEvent
  <2>2. inbox[r] \in Seq(News) /\ Tail(inbox[r]) \in Seq(News)
    BY <1>1, <2>1, AnswersLeft
  <2>3. /\ inbox' \in [Records -> Seq(News)]
        /\ inbox'[x] = inbox[x] \/ (inbox[x] # <<>> /\ inbox'[x] = Tail(inbox[x]))
    BY <1>1, <2>1, <2>2
  <2>4. CASE HandleRuntimeEvent(r)
    BY <2>3, <2>4 DEF HandleRuntimeEvent
  <2>5. CASE StartSettles(r)
    <3>1. Answered(inbox[r])
      BY <2>1, <2>2, <2>5, AnswersLeft DEF StartSettles
    <3>2. x # r => startPhase'[x] = startPhase[x]
      BY <1>1, <2>5 DEF StartSettles, StartCaught
    <3> QED
      BY <2>3, <3>1, <3>2
  <2> QED
    BY <1>7, <2>4, <2>5
<1> QED
  BY <1>3, <1>4, <1>5, <1>6, <1>7 DEF Manager, TabLeaves, Answer

LEMMA ManagerStop ==
  ASSUME EraInv, StopInv, Manager
  PROVE  StopInv'
<1>1. /\ UNCHANGED <<stopsWaiting, document, forgotten, overlooked>> /\ SessionMove
      /\ StartsFirst(toOffscreen')
  BY ManagerSends DEF StopInv
<1>2. ASSUME NEW x \in Records
      PROVE  /\ \/ preparing'[x] = preparing[x] /\ (startPhase'[x] = "start" => startPhase[x] = "start")
                \/ preparing'[x] = preparing[x] /\ startPhase'[x] # "start"
                \/ startPhase[x] = "ensureReady" /\ startPhase'[x] = "start" /\ preparing'[x] = "stream"
             /\ InPipe(toOffscreen', "START_CAPTURE", x) <=> InPipe(toOffscreen, "START_CAPTURE", x)
             /\ capture'[x] = capture[x] /\ (Old(x)' <=> Old(x)) /\ Moves(x) /\ OwnMoves(x)
             /\ StartOf(x) /\ TalkOf(x) /\ OwnOf(x) /\ WayOf(x)
             /\ x \in Nat /\ sessionSequence \in Nat /\ sessionSequence' \in Nat
             /\ sessionSequence <= sessionSequence'
  <2>1. OwnMoves(x) /\ Moves(x) /\ (Old(x)' <=> Old(x)) /\ capture'[x] = capture[x]
    BY <1>1, ManagerOwns DEF document, Old, SessionMove
  <2>2. StartOf(x) /\ TalkOf(x) /\ OwnOf(x) /\ WayOf(x)
    BY DEF EraInv, StopInv
  <2>3. x \in Nat /\ sessionSequence \in Nat /\ sessionSequence' \in Nat /\ sessionSequence <= sessionSequence'
    BY <1>1 DEF SessionMove, Shape, EraInv, Records
  <2> QED
    BY <2>1, <2>2, <2>3, ManagerSends
<1>3. ASSUME NEW x \in Records PROVE TalkOf(x)'
  <2>1. /\ inbox \in [Records -> Seq(News)]
        /\ inbox'[x] = inbox[x] \/ (inbox[x] # <<>> /\ inbox'[x] = Tail(inbox[x]))
        /\ startPhase[x] = "start" /\ startPhase'[x] # "start"
             => x > sessionSequence \/ Answered(inbox[x])
    BY ManagerTalks DEF StopInv
  <2>2. (inbox'[x] # <<>> => inbox[x] # <<>>) /\ (Answered(inbox'[x]) => Answered(inbox[x]))
    BY <2>1, AnswersLeft
  <2>3. CASE preparing'[x] = preparing[x]
    BY <1>2, <2>1, <2>2, <2>3 DEF TalkOf, TalkFits, StartOf, StartFits
  <2>4. CASE preparing'[x] # preparing[x]
    <3>1. startPhase[x] = "ensureReady" /\ startPhase'[x] = "start" /\ preparing'[x] = "stream"
      BY <1>2, <2>4
    <3>2. preparing[x] = "no" /\ capture[x] = "none"
      BY <1>2, <3>1 DEF StartOf, StartFits
    <3>3. inbox[x] = <<>> /\ ~Answered(inbox[x])
      BY <1>2, <3>2 DEF TalkOf, TalkFits
    <3> QED
      BY <2>2, <3>1, <3>3 DEF TalkOf, TalkFits
  <2> QED
    BY <2>3, <2>4
<1>4. ASSUME NEW x \in Records PROVE OwnOf(x)'
  <2>1. cleanup'[x] # "failed" /\ (x > sessionSequence' => cleanup'[x] = "none")
    BY <1>2 DEF OwnOf, OwnFits, Moves, OwnMoves
  <2>2. ~cancelled'[x] /\ (startPhase'[x] = "ensureReady" \/ preparing'[x] \in {"stream", "ping"})
          => cleanup'[x] = "none"
    <3> SUFFICES ASSUME ~cancelled'[x],
                        startPhase'[x] = "ensureReady" \/ preparing'[x] \in {"stream", "ping"}
                 PROVE  cleanup'[x] = "none"
      OBVIOUS
    <3>1. cleanup'[x] = cleanup[x] /\ ~cancelled[x]
      BY <1>2 DEF OwnMoves, Begun
    <3> QED
      BY <1>2, <3>1 DEF OwnOf, OwnFits, Moves, Begun
  <2>3. Old(x)' => x <= sessionSequence' /\ startPhase'[x] \notin {"start", "ensureReady"}
    BY <1>2 DEF OwnOf, OwnFits, Moves, Begun
  <2>4. x <= sessionSequence' /\ x # currentRecord' /\ ~Old(x)' => cleanup'[x] = "done"
    BY <1>2 DEF OwnOf, OwnFits, OwnMoves, Moves
  <2>5. stopping'[x] => x = currentRecord'
    BY <1>2 DEF OwnMoves
  <2> QED
    BY <2>1, <2>2, <2>3, <2>4, <2>5 DEF OwnOf, OwnFits
<1>5. ASSUME NEW x \in Records PROVE WayOf(x)'
  <2>1. cleanup'[x] = "done" <=> cleanup[x] = "done"
    BY <1>2 DEF Moves
  <2> QED
    BY <1>1, <1>2, <2>1 DEF WayOf, WayFits, document
<1>6. /\ currentRecord' \in 0..sessionSequence' /\ inbox' \in [Records -> Seq(News)]
      /\ cancelled' \in [Records -> BOOLEAN] /\ stopping' \in [Records -> BOOLEAN]
  <2>1. 1 \in Records
    BY SessionAssumption DEF Records
  <2> QED
    BY <1>2, <2>1, ManagerTalks DEF OwnMoves
<1> QED
  BY <1>1, <1>3, <1>4, <1>5, <1>6 DEF StopInv

LEMMA PreparedStop ==
  ASSUME EraInv, StopInv, NEW r \in Records, Prepared(r)
  PROVE  StopInv'
<1>1. /\ preparing[r] \in {"stream", "ping"}
      /\ UNCHANGED <<background, cleanup, wanted, stopsWaiting, document, forgotten, overlooked>>
      /\ StartsFirst(toOffscreen) /\ inbox \in [Records -> Seq(News)]
      /\ preparing \in [Records -> {"no", "stream", "ping", "sent", "over"}]
      /\ \A x \in Records : TalkOf(x) /\ OwnOf(x) /\ WayOf(x) /\ StartOf(x) /\ StopOf(x)
  BY DEF Prepared, StopInv, EraInv, HostTypeOK
<1>2. /\ UNCHANGED <<currentRecord, sessionSequence, startPhase, stopping, cancelled, capture, quit,
                     currentSession, cleanupPromise>>
      /\ \A x \in Records : Old(x)' <=> Old(x)
  BY <1>1 DEF background, document, record, Old
<1>3. capture[r] = "none" /\ inbox[r] = <<>> /\ startPhase[r] = "start" /\ ~Answered(inbox[r])
  BY <1>1 DEF TalkOf, TalkFits, StartOf, StartFits
<1>4. \/ preparing' = [preparing EXCEPT ![r] = "over"] /\ Says(r, "refused") /\ UNCHANGED toOffscreen
      \/ preparing' = [preparing EXCEPT ![r] = "ping"] /\ UNCHANGED <<toOffscreen, inbox>>
      \/ /\ ~cancelled[r] /\ preparing' = [preparing EXCEPT ![r] = "sent"] /\ UNCHANGED inbox
         /\ toOffscreen' = Append(toOffscreen, To("START_CAPTURE", r))
  BY DEF Prepared, Refuse, external
<1>5. /\ preparing'[r] \in {"over", "ping", "sent"}
      /\ \A x \in Records \ {r} : preparing'[x] = preparing[x]
      /\ preparing'[r] = "sent" => cleanup[r] = "none"
      /\ preparing'[r] # "sent" => toOffscreen' = toOffscreen
      /\ preparing'[r] # "over" => inbox' = inbox
  BY <1>1, <1>4 DEF OwnOf, OwnFits
<1>6. inbox' \in [Records -> Seq(News)] /\ \A x \in Records \ {r} : inbox'[x] = inbox[x]
  <2>1. Append(inbox[r], "refused") \in Seq(News)
    BY <1>1, AnswersMore DEF News
  <2> QED
    BY <1>1, <1>4, <2>1 DEF Says
<1>7. StartsFirst(toOffscreen')
  <2>1. CASE preparing'[r] # "sent"
    BY <1>1, <1>5, <2>1
  <2>2. CASE preparing'[r] = "sent"
    <3>1. ~InPipe(toOffscreen, "STOP_CAPTURE", r)
      BY <1>1, <1>5, <2>2 DEF StopOf, StopFits
    <3> QED
      BY <1>1, <3>1, PreparedEra
  <2> QED
    BY <2>1, <2>2
<1>8. ASSUME NEW x \in Records PROVE TalkOf(x)'
  <2>1. CASE x = r
    BY <1>2, <1>3, <1>5, <2>1 DEF TalkOf, TalkFits
  <2>2. CASE x # r
    BY <1>1, <1>2, <1>5, <1>6, <2>2 DEF TalkOf
  <2> QED
    BY <2>1, <2>2
<1>9. ASSUME NEW x \in Records PROVE OwnOf(x)'
  BY <1>1, <1>2, <1>5 DEF OwnOf, OwnFits
<1>10. ASSUME NEW x \in Records PROVE WayOf(x)'
  <2>1. InPipe(toOffscreen', "START_CAPTURE", x) =>
          InPipe(toOffscreen, "START_CAPTURE", x) \/ (x = r /\ cleanup[r] = "none")
    <3>1. CASE preparing'[r] # "sent"
      BY <1>5, <3>1
    <3>2. CASE preparing'[r] = "sent"
      <4>1. toOffscreen' = Append(toOffscreen, To("START_CAPTURE", r)) /\ cleanup[r] = "none"
        BY <1>1, <1>4, <1>5, <3>2
      <4>2. ~InPipe(toOffscreen, "START_CAPTURE", r) /\ PipeFits(toOffscreen)
        BY <1>1 DEF StartOf, StartFits, EraInv
      <4>3. InPipe(toOffscreen', "START_CAPTURE", x)
              <=> InPipe(toOffscreen, "START_CAPTURE", x)
                  \/ To("START_CAPTURE", x) = To("START_CAPTURE", r)
        BY <4>1, <4>2, CommandSent
      <4>4. To("START_CAPTURE", x) = To("START_CAPTURE", r) => x = r
        BY DEF To
      <4> QED
        BY <4>1, <4>3, <4>4
    <3> QED
      BY <3>1, <3>2
  <2> QED
    BY <1>1, <1>2, <2>1 DEF WayOf, WayFits
<1> QED
  BY <1>1, <1>2, <1>6, <1>7, <1>8, <1>9, <1>10 DEF StopInv

(* A session that is being started, in the pipe or replacing another, is    *)
(* that of the current record.                                              *)
LEMMA OneStarts ==
  ASSUME EraInv, StopInv, NEW r \in Records,
         \/ InPipe(toOffscreen, "START_CAPTURE", r)
         \/ capture[r] = "replacing" /\ overlooked = {}
  PROVE  r = currentRecord
<1>1. TalkOf(r) /\ OwnOf(r) /\ WayOf(r) /\ StartOf(r) /\ r \in Nat /\ sessionSequence \in Nat
  BY DEF EraInv, StopInv, Shape, Records
<1>2. preparing[r] = "sent" /\ capture[r] \notin {"live", "refused"} /\ cleanup[r] # "done"
  BY <1>1 DEF StartOf, StartFits, WayOf, WayFits
<1>3. startPhase[r] = "start" /\ r <= sessionSequence
  BY <1>1, <1>2 DEF TalkOf, TalkFits, StartOf, StartFits
<1> QED
  BY <1>1, <1>2, <1>3 DEF OwnOf, OwnFits

LEMMA StopCaptureQuits ==
  ASSUME EraInv, currentSession # 0, StopCapture
  PROVE  /\ currentSession \in Records /\ currentSession' = 0
         /\ quit'[currentSession] /\ cleanupPromise'[currentSession] # "none"
         /\ \A x \in Records \ {currentSession} :
              quit'[x] = quit[x] /\ cleanupPromise'[x] = cleanupPromise[x]
<1> DEFINE r == currentSession
<1>1. r \in Records /\ HostTypeOK
  BY DEF EraInv, HostTypeOK, Records
<1>2. /\ currentSession' = 0 /\ quit' = [quit EXCEPT ![r] = TRUE] /\ Cleanup(r)
  BY DEF StopCapture
<1>3. quit'[r] /\ \A x \in Records \ {r} : quit'[x] = quit[x]
  BY <1>1, <1>2 DEF HostTypeOK
<1> QED
  BY <1>1, <1>2, <1>3, CleanupEffect

(* Where a session is when the current one is stopped.                      *)
LEMMA StoppedWay ==
  ASSUME EraInv, StopInv, currentSession # 0, StopCapture, NEW x \in Records,
         capture'[x] = capture[x]
           \/ (capture[x] = "none" /\ capture'[x] = "replacing" /\ cleanup[x] # "done"),
         UNCHANGED <<cleanup, overlooked>>,
         InPipe(toOffscreen', "START_CAPTURE", x) => InPipe(toOffscreen, "START_CAPTURE", x),
         stopsWaiting' \subseteq stopsWaiting \union {currentSession}
  PROVE  WayOf(x)'
<1>1. WayOf(x) /\ currentSession' = 0 /\ x # 0
  BY StopCaptureQuits DEF StopInv, Records
<1>2. CASE x = currentSession
  <2>1. quit'[x] /\ cleanupPromise'[x] # "none"
    BY <1>2, StopCaptureQuits
  <2> QED
    BY <1>1, <2>1 DEF WayOf, WayFits
<1>3. CASE x # currentSession
  <2>1. /\ quit'[x] = quit[x] /\ cleanupPromise'[x] = cleanupPromise[x]
        /\ x \in stopsWaiting' => x \in stopsWaiting
    BY <1>3, StopCaptureQuits
  <2> QED
    BY <1>1, <1>3, <2>1 DEF WayOf, WayFits
<1> QED
  BY <1>2, <1>3

LEMMA ReceiveStop ==
  ASSUME EraInv, StopInv, Receive
  PROVE  StopInv'
<1> DEFINE m == Head(toOffscreen)
           r == Head(toOffscreen).of
<1>1. /\ r \in Records /\ InPipe(toOffscreen, m.type, r)
      /\ m.type \in {"START_CAPTURE", "STOP_CAPTURE"}
      /\ \A ty, x : InPipe(toOffscreen', ty, x) => InPipe(toOffscreen, ty, x)
      /\ ~InPipe(toOffscreen', m.type, r)
      /\ StartsFirst(toOffscreen')
      /\ m.type = "STOP_CAPTURE" => ~InPipe(toOffscreen', "START_CAPTURE", r)
      /\ UNCHANGED <<background, inbox, wanted, preparing, failureNotified, audioCtx, ws, forgotten>>
  BY ReceiveFacts DEF StopInv
<1>2. /\ UNCHANGED <<currentRecord, sessionSequence, startPhase, stopping, cancelled>>
      /\ \A x \in Records : Old(x)' <=> Old(x)
  BY <1>1 DEF background, record, Old
<1>3. /\ HostTypeOK /\ Shape
      /\ \A x \in Records : /\ TalkOf(x) /\ OwnOf(x) /\ WayOf(x) /\ StartOf(x) /\ StopOf(x)
                            /\ DocOf(x) /\ x # 0
  BY DEF StopInv, EraInv, Records
<1> HIDE DEF m, r
<1>4. ASSUME \A x \in Records : WayOf(x)',
             \A x \in Records : cleanup'[x] = cleanup[x] \/ (cleanup[x] = "pending" /\ cleanup'[x] = "done"),
             \A x \in Records : capture'[x] = capture[x]
               \/ (capture[x] = "none" /\ capture'[x] \in {"media", "replacing"})
      PROVE  StopInv'
  <2>1. ASSUME NEW x \in Records PROVE TalkOf(x)'
    BY <1>1, <1>2, <1>3, <1>4 DEF TalkOf, TalkFits
  <2>2. ASSUME NEW x \in Records PROVE OwnOf(x)'
    <3>1. OwnOf(x) /\ (cleanup'[x] = cleanup[x] \/ (cleanup[x] = "pending" /\ cleanup'[x] = "done"))
      BY <1>3, <1>4
    <3> QED
      BY <1>1, <1>2, <3>1 DEF OwnOf, OwnFits
  <2> QED
    BY <1>1, <1>2, <1>4, <2>1, <2>2 DEF StopInv
<1>5. CASE m.type = "START_CAPTURE"
  <2>1. StartCapture(r) /\ UNCHANGED <<stopsWaiting, cleanup, runtime, overlooked>>
    BY <1>5 DEF Receive, m, r
  <2>2. capture[r] = "none" /\ cleanup[r] # "done" /\ r = currentRecord /\ ~quit[r]
    BY <1>1, <1>3, <1>5, OneStarts DEF StartOf, StartFits, WayOf, WayFits, DocOf, DocFits
  <2>3. CASE currentSession = 0
    <3>1. /\ currentSession' = r /\ capture' = [capture EXCEPT ![r] = "media"]
          /\ UNCHANGED <<quit, replaced, cleanupPromise, mediaStream>>
      BY <2>1, <2>3 DEF StartCapture
    <3>2. capture'[r] = "media" /\ \A x \in Records \ {r} : capture'[x] = capture[x]
      BY <1>1, <1>3, <3>1 DEF HostTypeOK
    <3>3. ASSUME NEW x \in Records PROVE WayOf(x)'
      <4>1. CASE x = r
        BY <1>1, <1>3, <1>5, <2>1, <2>2, <3>1, <3>2, <4>1 DEF WayOf, WayFits
      <4>2. CASE x # r
        <5>1. ~(overlooked = {} /\ capture[x] = "replacing")
          BY <2>2, <4>2, OneStarts
        <5> QED
          BY <1>1, <1>3, <2>1, <2>3, <3>1, <3>2, <4>2, <5>1 DEF WayOf, WayFits
      <4> QED
        BY <4>1, <4>2
    <3> QED
      BY <1>4, <2>1, <2>2, <3>2, <3>3
  <2>4. CASE currentSession # 0
    <3>1. StopCapture /\ capture' = [capture EXCEPT ![r] = "replacing"]
      BY <2>1, <2>4 DEF StartCapture
    <3>2. capture'[r] = "replacing" /\ \A x \in Records \ {r} : capture'[x] = capture[x]
      BY <1>1, <1>3, <3>1 DEF HostTypeOK
    <3>3. ASSUME NEW x \in Records PROVE WayOf(x)'
      <4>1. \/ capture'[x] = capture[x]
            \/ capture[x] = "none" /\ capture'[x] = "replacing" /\ cleanup[x] # "done"
        BY <2>2, <3>2
      <4>2. /\ InPipe(toOffscreen', "START_CAPTURE", x) => InPipe(toOffscreen, "START_CAPTURE", x)
            /\ stopsWaiting' \subseteq stopsWaiting \union {currentSession}
            /\ UNCHANGED <<cleanup, overlooked>>
        BY <1>1, <2>1
      <4> QED
        BY <2>4, <3>1, <4>1, <4>2, StoppedWay
    <3> QED
      BY <1>4, <2>1, <2>2, <3>2, <3>3
  <2> QED
    BY <2>3, <2>4
<1>6. CASE m.type = "STOP_CAPTURE" /\ currentSession = r
  <2>1. /\ StopCapture /\ stopsWaiting' = stopsWaiting \union {r}
        /\ UNCHANGED <<capture, replaced, cleanup, runtime, overlooked>>
    BY <1>6 DEF Receive, m, r
  <2>2. ASSUME NEW x \in Records PROVE WayOf(x)'
    <3>1. /\ InPipe(toOffscreen', "START_CAPTURE", x) => InPipe(toOffscreen, "START_CAPTURE", x)
          /\ stopsWaiting' \subseteq stopsWaiting \union {currentSession} /\ capture'[x] = capture[x]
          /\ currentSession # 0 /\ UNCHANGED <<cleanup, overlooked>>
      BY <1>1, <1>3, <1>6, <2>1
    <3> QED
      BY <2>1, <3>1, StoppedWay
  <2> QED
    BY <1>4, <2>1, <2>2
<1>7. CASE m.type = "STOP_CAPTURE" /\ currentSession # r
  <2>1. /\ StopAnswered(r)
        /\ overlooked' = overlooked \union {x \in {r} : capture[x] = "replacing"}
        /\ UNCHANGED <<stopsWaiting, currentSession, quit, capture, replaced, cleanupPromise, mediaStream>>
    BY <1>7 DEF Receive, m, r
  <2>2. /\ cleanup[r] = "pending" /\ cleanup'[r] = "done"
        /\ \A x \in Records \ {r} : cleanup'[x] = cleanup[x]
    BY <1>1, <1>3, <1>7, <2>1, AnsweredStop DEF StopOf, StopFits
  <2>3. overlooked' = {} => overlooked = {} /\ capture[r] # "replacing"
    BY <2>1
  <2>4. ASSUME NEW x \in Records PROVE WayOf(x)'
    <3>1. CASE x = r
      BY <1>1, <1>3, <1>7, <2>1, <2>2, <2>3, <3>1 DEF WayOf, WayFits
    <3>2. CASE x # r
      <4>1. /\ cleanup'[x] = cleanup[x] /\ WayOf(x) /\ x \in Records
            /\ InPipe(toOffscreen', "START_CAPTURE", x) => InPipe(toOffscreen, "START_CAPTURE", x)
        BY <1>1, <1>3, <2>2, <3>2
      <4> QED
        BY <2>1, <2>3, <4>1 DEF WayOf, WayFits
    <3> QED
      BY <3>1, <3>2
  <2> QED
    BY <1>4, <2>1, <2>2, <2>4
<1> QED
  BY <1>1, <1>5, <1>6, <1>7

LEMMA StopContinuesStop ==
  ASSUME EraInv, StopInv, NEW r \in Records, StopContinuesOffscreen(r)
  PROVE  StopInv'
<1>1. /\ r \in stopsWaiting /\ stopsWaiting' = stopsWaiting \ {r} /\ StopAnswered(r)
      /\ UNCHANGED <<background, inbox, wanted, preparing, toOffscreen, document, forgotten,
                     overlooked>>
      /\ Shape /\ \A x \in Records : TalkOf(x) /\ OwnOf(x) /\ WayOf(x)
      /\ StartOf(r) /\ StopOf(r) /\ DocOf(r)
  BY DEF StopContinuesOffscreen, StopInv, EraInv
<1>2. /\ UNCHANGED <<currentRecord, sessionSequence, startPhase, stopping, cancelled, capture, quit,
                     currentSession, cleanupPromise>>
      /\ \A x \in Records : Old(x)' <=> Old(x)
  BY <1>1 DEF background, document, record, Old
<1>3. cleanup'[r] = "done" /\ \A x \in Records \ {r} : cleanup'[x] = cleanup[x]
  BY <1>1, AnsweredStop
<1>4. /\ cleanup[r] = "pending" /\ quit[r] /\ capture[r] \notin {"none", "replacing"}
      /\ currentSession # r /\ ~InPipe(toOffscreen, "START_CAPTURE", r)
  BY <1>1 DEF StopOf, StopFits, WayOf, WayFits, DocOf, DocFits, StartOf, StartFits
<1>5. ASSUME NEW x \in Records PROVE TalkOf(x)' /\ OwnOf(x)' /\ WayOf(x)'
  <2>1. TalkOf(x)'
    BY <1>1, <1>2 DEF TalkOf
  <2>2. CASE x = r
    <3>1. OwnOf(r)'
      BY <1>1, <1>2, <1>3, <1>4 DEF OwnOf, OwnFits
    <3>2. WayOf(r)'
      BY <1>1, <1>2, <1>3, <1>4 DEF WayOf, WayFits
    <3> QED
      BY <2>1, <2>2, <3>1, <3>2
  <2>3. CASE x # r
    <3>1. OwnOf(x)'
      BY <1>1, <1>2, <1>3, <2>3 DEF OwnOf, OwnFits
    <3>2. WayOf(x)'
      BY <1>1, <1>2, <1>3, <2>3 DEF WayOf, WayFits
    <3> QED
      BY <2>1, <3>1, <3>2
  <2> QED
    BY <2>2, <2>3
<1> QED
  BY <1>1, <1>2, <1>5 DEF StopInv

LEMMA RestartStop ==
  ASSUME EraInv, StopInv, Restart
  PROVE  StopInv'
<1>1. /\ \A x \in Records : startPhase[x] \in {"unborn", "settled"} /\ ~stopping[x]
      /\ currentRecord' = 0 /\ forgotten' = Append(forgotten, 1..sessionSequence)
      /\ UNCHANGED <<sessionSequence, record, startPhase, stopping, cleanup, external, preparing,
                     toOffscreen, stopsWaiting, document, overlooked>>
      /\ sessionSequence \in Nat /\ forgotten \in Seq(SUBSET Nat)
      /\ \A x \in Records : TalkOf(x) /\ OwnOf(x) /\ WayOf(x)
  BY DEF Restart, StopInv, EraInv, Shape
<1>2. UNCHANGED <<cancelled, inbox, capture, quit, currentSession, cleanupPromise>>
  BY <1>1 DEF record, external, document
<1>3. ASSUME NEW x \in Records PROVE Old(x)' <=> Old(x) \/ x <= sessionSequence
  <2>1. /\ DOMAIN forgotten' = 1..(Len(forgotten) + 1) /\ DOMAIN forgotten = 1..Len(forgotten)
        /\ Len(forgotten) \in Nat /\ forgotten'[Len(forgotten) + 1] = 1..sessionSequence
        /\ \A i \in 1..Len(forgotten) : forgotten'[i] = forgotten[i]
    <3>1. 1..sessionSequence \in SUBSET Nat
      OBVIOUS
    <3> QED
      BY <1>1, <3>1, AppendProperties
  <2>2. x \in 1..sessionSequence <=> x <= sessionSequence
    BY <1>1 DEF Records
  <2>3. ASSUME Old(x) PROVE Old(x)'
    BY <2>1, <2>3 DEF Old
  <2>4. ASSUME x <= sessionSequence PROVE Old(x)'
    <3>1. Len(forgotten) + 1 \in DOMAIN forgotten' /\ x \in forgotten'[Len(forgotten) + 1]
      BY <2>1, <2>2, <2>4
    <3> QED
      BY <3>1 DEF Old
  <2>5. ASSUME NEW i \in DOMAIN forgotten', x \in forgotten'[i] PROVE Old(x) \/ x <= sessionSequence
    <3>1. i = Len(forgotten) + 1 \/ (i \in DOMAIN forgotten /\ forgotten'[i] = forgotten[i])
      BY <2>1
    <3> QED
      BY <2>1, <2>2, <2>5, <3>1 DEF Old
  <2> QED
    BY <2>3, <2>4, <2>5 DEF Old
<1>4. ASSUME NEW x \in Records PROVE TalkOf(x)' /\ OwnOf(x)' /\ WayOf(x)'
  <2>1. TalkOf(x)'
    BY <1>1, <1>2 DEF TalkOf
  <2>2. OwnOf(x)'
    BY <1>1, <1>2, <1>3 DEF OwnOf, OwnFits
  <2>3. WayOf(x)'
    BY <1>1, <1>2 DEF WayOf
  <2> QED
    BY <2>1, <2>2, <2>3
<1> QED
  BY <1>1, <1>2, <1>4 DEF StopInv

(* A step of one session of the document.                                   *)
LEMMA DocumentStop ==
  ASSUME EraInv, StopInv, NEW r \in Records,
         UNCHANGED <<background, cleanup, preparing, toOffscreen, stopsWaiting, forgotten, overlooked>>,
         inbox' \in [Records -> Seq(News)], TalkOf(r)',
         \A x \in Records \ {r} : inbox'[x] = inbox[x] /\ capture'[x] = capture[x],
         \A x \in Records : WayOf(x)'
  PROVE  StopInv'
<1>1. /\ UNCHANGED <<currentRecord, sessionSequence, startPhase, stopping, cancelled>>
      /\ \A x \in Records : Old(x)' <=> Old(x)
  BY DEF background, record, Old
<1>2. ASSUME NEW x \in Records PROVE TalkOf(x)' /\ OwnOf(x)'
  <2>1. TalkOf(x) /\ OwnOf(x)
    BY DEF StopInv
  <2>2. TalkOf(x)'
    BY <1>1, <2>1 DEF TalkOf
  <2>3. OwnOf(x)'
    BY <1>1, <2>1 DEF OwnOf, OwnFits
  <2> QED
    BY <2>2, <2>3
<1> QED
  BY <1>1, <1>2 DEF StopInv

(* The ways of all sessions, when none becomes or ceases to be current.     *)
LEMMA WaysStay ==
  ASSUME StopInv, UNCHANGED <<currentSession, quit, cleanup, toOffscreen, stopsWaiting, overlooked>>,
         NEW x \in Records,
         \/ capture'[x] = capture[x]
         \/ capture[x] \notin {"none", "replacing"} /\ capture'[x] \notin {"none", "replacing"},
         cleanupPromise[x] # "none" => cleanupPromise'[x] # "none"
  PROVE  WayOf(x)'
<1>1. WayOf(x) /\ (InPipe(toOffscreen', "START_CAPTURE", x) <=> InPipe(toOffscreen, "START_CAPTURE", x))
  BY DEF StopInv
<1> QED
  BY <1>1 DEF WayOf, WayFits

LEMMA CaughtWays ==
  ASSUME EraInv, NEW r \in Records, Caught(r)
  PROVE  /\ capture'[r] = "catch" /\ \A x \in Records \ {r} : capture'[x] = capture[x]
         /\ \A x \in Records : cleanupPromise[x] # "none" => cleanupPromise'[x] # "none"
<1>1. HostTypeOK /\ capture' = [capture EXCEPT ![r] = "catch"] /\ Cleanup(r)
  BY DEF EraInv, Caught
<1>2. /\ cleanupPromise'[r] # "none"
      /\ \A x \in Records \ {r} : cleanupPromise'[x] = cleanupPromise[x]
  BY <1>1, CleanupEffect
<1> QED
  BY <1>1, <1>2 DEF HostTypeOK

LEMMA QuietStop ==
  ASSUME EraInv, StopInv, NEW r \in Records, Quiet(r)
  PROVE  StopInv'
<1>1. /\ UNCHANGED <<background, cleanup, external, wanted, preparing, toOffscreen, stopsWaiting,
                     forgotten, overlooked>>
      /\ HostTypeOK /\ TalkOf(r) /\ inbox \in [Records -> Seq(News)]
  BY DEF Quiet, EraInv, StopInv
<1>2. inbox' = inbox /\ startPhase' = startPhase
  BY <1>1 DEF external, background
<1>3. ASSUME \A x \in Records : WayOf(x)', \A x \in Records \ {r} : capture'[x] = capture[x],
             capture'[r] = capture[r] \/ (capture[r] \notin {"live", "refused"}
                                          /\ capture'[r] \notin {"live", "refused"})
      PROVE  StopInv'
  <2>1. TalkOf(r)'
    BY <1>1, <1>2, <1>3 DEF TalkOf, TalkFits
  <2> QED
    BY <1>1, <1>2, <1>3, <2>1, DocumentStop
<1>4. CASE ReplacementContinues(r)
  <2>1. /\ capture[r] = "replacing" /\ currentSession' = r /\ UNCHANGED <<quit, cleanupPromise>>
        /\ capture'[r] = "media" /\ \A x \in Records \ {r} : capture'[x] = capture[x]
    BY <1>1, <1>4 DEF ReplacementContinues, HostTypeOK
  <2>2. ASSUME NEW x \in Records PROVE WayOf(x)'
    <3>1. /\ WayOf(x) /\ WayOf(r) /\ x # 0
          /\ InPipe(toOffscreen', "START_CAPTURE", x) <=> InPipe(toOffscreen, "START_CAPTURE", x)
      BY <1>1 DEF StopInv, Records
    <3>2. CASE x = r
      BY <1>1, <2>1, <3>1, <3>2 DEF WayOf, WayFits
    <3>3. CASE x # r
      <4>1. overlooked = {} => currentSession = 0 /\ capture[x] # "replacing"
        BY <2>1, <3>1, <3>3, OneStarts DEF WayOf, WayFits
      <4> QED
        BY <1>1, <2>1, <3>1, <3>3, <4>1 DEF WayOf, WayFits
    <3> QED
      BY <3>2, <3>3
  <2> QED
    BY <1>3, <2>1, <2>2
<1>5. CASE ~ReplacementContinues(r)
  <2>1. /\ UNCHANGED <<currentSession, quit>>
        /\ \A x \in Records \ {r} : capture'[x] = capture[x]
        /\ capture'[r] = capture[r] \/ (capture[r] \in InProgress /\ capture'[r] \in InProgress)
        /\ \A x \in Records : cleanupPromise[x] # "none" => cleanupPromise'[x] # "none"
    <3>1. CASE MediaSettles(r)
      <4>1. capture[r] = "media" /\ UNCHANGED <<currentSession, quit>>
        BY <3>1 DEF MediaSettles
      <4>2. CASE Caught(r)
        BY <4>1, <4>2, CaughtWays DEF InProgress
      <4>3. CASE ~Caught(r)
        <5>1. /\ \A x \in Records \ {r} : capture'[x] = capture[x]
              /\ capture'[r] \in {"context", "catch"}
          BY <1>1, <3>1, <4>3 DEF MediaSettles, HostTypeOK
        <5>2. \A x \in Records : cleanupPromise[x] # "none" => cleanupPromise'[x] # "none"
          <6>1. \/ UNCHANGED cleanupPromise
                \/ cleanupPromise' = [cleanupPromise EXCEPT ![r] = IF @ = "none" THEN "done" ELSE @]
            BY <3>1, <4>3 DEF MediaSettles
          <6> QED
            BY <1>1, <6>1 DEF HostTypeOK
        <5> QED
          BY <4>1, <5>1, <5>2 DEF InProgress
      <4> QED
        BY <4>2, <4>3
    <3>2. CASE ContextSettles(r)
      <4>1. capture[r] = "context" /\ UNCHANGED <<currentSession, quit>>
        BY <3>2 DEF ContextSettles
      <4>2. CASE Caught(r)
        BY <4>1, <4>2, CaughtWays DEF InProgress
      <4>3. CASE ~Caught(r)
        BY <1>1, <3>2, <4>1, <4>3 DEF ContextSettles, HostTypeOK, InProgress
      <4> QED
        BY <4>2, <4>3
    <3>3. CASE ConnectTimesOut(r)
      BY <3>3, CaughtWays DEF ConnectTimesOut, InProgress
    <3>4. CASE SocketOpens(r)
      BY <3>4 DEF SocketOpens
    <3>5. CASE CleanupContinues(r)
      BY <1>1, <3>5 DEF CleanupContinues, HostTypeOK
    <3> QED
      BY <1>5, <3>1, <3>2, <3>3, <3>4, <3>5 DEF Quiet
  <2>2. ASSUME NEW x \in Records PROVE WayOf(x)'
    <3>1. \/ capture'[x] = capture[x]
          \/ capture[x] \notin {"none", "replacing"} /\ capture'[x] \notin {"none", "replacing"}
      BY <2>1 DEF InProgress
    <3> QED
      BY <1>1, <2>1, <3>1, WaysStay
  <2>3. capture'[r] = capture[r] \/ (capture[r] \notin {"live", "refused"}
                                     /\ capture'[r] \notin {"live", "refused"})
    BY <2>1 DEF InProgress
  <2> QED
    BY <1>3, <2>1, <2>2, <2>3
<1> QED
  BY <1>4, <1>5

LEMMA AnsweredStops ==
  ASSUME EraInv, StopInv, NEW r \in Records, SessionReady(r) \/ CatchThrows(r)
  PROVE  StopInv'
<1>1. /\ UNCHANGED <<background, cleanup, preparing, toOffscreen, stopsWaiting, currentSession, quit,
                     cleanupPromise, forgotten, overlooked>>
      /\ HostTypeOK /\ TalkOf(r) /\ StartOf(r) /\ inbox \in [Records -> Seq(News)]
      /\ capture[r] \in {"socket", "catch"}
  BY DEF SessionReady, CatchThrows, EraInv, StopInv
<1>2. /\ capture'[r] \in {"live", "refused"}
      /\ \A x \in Records \ {r} : capture'[x] = capture[x]
  BY <1>1 DEF SessionReady, CatchThrows, HostTypeOK
<1>3. inbox' \in [Records -> Seq(News)] /\ \A x \in Records \ {r} : inbox'[x] = inbox[x]
  <2>1. /\ Append(inbox[r], "refused") \in Seq(News)
        /\ inbox[r] \o <<"ACTIVE", "started">> \in Seq(News)
    <3>1. inbox[r] \in Seq(News) /\ "refused" \in News /\ <<"ACTIVE", "started">> \in Seq(News)
      BY <1>1 DEF News
    <3> QED
      BY <3>1
  <2>2. \/ inbox' = [inbox EXCEPT ![r] = @ \o <<"ACTIVE", "started">>]
        \/ inbox' = [inbox EXCEPT ![r] = Append(@, "refused")]
    BY DEF SessionReady, CatchThrows, Refuse, Says
  <2> QED
    BY <1>1, <2>1, <2>2
<1>4. TalkOf(r)'
  <2>1. preparing[r] = "sent" /\ UNCHANGED <<preparing, startPhase>>
    BY <1>1 DEF StartOf, StartFits, background
  <2> QED
    BY <1>2, <2>1 DEF TalkOf, TalkFits
<1>5. ASSUME NEW x \in Records PROVE WayOf(x)'
  <2>1. \/ capture'[x] = capture[x]
        \/ capture[x] \notin {"none", "replacing"} /\ capture'[x] \notin {"none", "replacing"}
    BY <1>1, <1>2
  <2> QED
    BY <1>1, <2>1, WaysStay
<1> QED
  BY <1>1, <1>2, <1>3, <1>4, <1>5, DocumentStop

LEMMA SocketFailsStop ==
  ASSUME EraInv, StopInv, NEW r \in Records, SocketFails(r)
  PROVE  StopInv'
<1>1. /\ UNCHANGED <<background, cleanup, preparing, toOffscreen, stopsWaiting, forgotten, overlooked>>
      /\ HostTypeOK /\ TalkOf(r) /\ StartOf(r) /\ DocOf(r) /\ inbox \in [Records -> Seq(News)]
      /\ UNCHANGED startPhase
  BY DEF SocketFails, EraInv, StopInv, background
<1>2. ASSUME UNCHANGED inbox, \A x \in Records : WayOf(x)',
             \A x \in Records \ {r} : capture'[x] = capture[x],
             capture'[r] = capture[r] \/ (capture[r] = "socket" /\ capture'[r] = "catch")
      PROVE  StopInv'
  <2>1. TalkOf(r)'
    BY <1>1, <1>2 DEF TalkOf, TalkFits
  <2> QED
    BY <1>1, <1>2, <2>1, DocumentStop
<1>3. CASE /\ capture[r] = "socket" /\ Caught(r)
           /\ UNCHANGED <<external, failureNotified, currentSession, quit>>
  <2>1. ASSUME NEW x \in Records PROVE WayOf(x)'
    <3>1. \/ capture'[x] = capture[x]
          \/ capture[x] \notin {"none", "replacing"} /\ capture'[x] \notin {"none", "replacing"}
      BY <1>3, CaughtWays
    <3> QED
      BY <1>1, <1>3, <3>1, CaughtWays, WaysStay
  <2> QED
    BY <1>2, <1>3, <2>1, CaughtWays DEF external
<1>4. CASE capture[r] # "socket" /\ Current(r) /\ FailSession(r) /\ UNCHANGED capture
  <2>1. /\ StopCapture /\ Says(r, "fatal") /\ currentSession = r /\ currentSession # 0
        /\ capture[r] # "none"
    BY <1>1, <1>4 DEF FailSession, DocOf, DocFits, Current, Records
  <2>2. ASSUME NEW x \in Records PROVE WayOf(x)'
    BY <1>1, <1>4, <2>1, StoppedWay
  <2>3. /\ Append(inbox[r], "fatal") \in Seq(News)
        /\ Answered(Append(inbox[r], "fatal")) => Answered(inbox[r])
    BY <1>1, AnswersMore DEF News
  <2>4. /\ inbox' \in [Records -> Seq(News)] /\ inbox'[r] = Append(inbox[r], "fatal")
        /\ \A x \in Records \ {r} : inbox'[x] = inbox[x]
    BY <1>1, <2>1, <2>3 DEF Says
  <2>5. TalkOf(r)'
    <3>1. preparing[r] = "sent"
      BY <1>1, <2>1 DEF StartOf, StartFits
    <3> QED
      BY <1>1, <1>4, <2>3, <2>4, <3>1 DEF TalkOf, TalkFits
  <2> QED
    BY <1>1, <1>4, <2>2, <2>4, <2>5, DocumentStop
<1>5. CASE UNCHANGED <<external, failureNotified, currentSession, quit, cleanupPromise, mediaStream,
                       capture>>
  <2>1. ASSUME NEW x \in Records PROVE WayOf(x)'
    BY <1>1, <1>5, WaysStay
  <2> QED
    BY <1>2, <1>5, <2>1 DEF external
<1> QED
  BY <1>3, <1>4, <1>5 DEF SocketFails

(* Every step keeps StopInv.                                                *)
LEMMA StopKept ==
  ASSUME HostInv, HostNext
  PROVE  StopInv'
<1>1. EraInv /\ StopInv
  BY DEF HostInv
<1>2. ASSUME NEW r \in Records, HostStep(r)
      PROVE  StopInv'
  BY <1>1, <1>2, PreparedStop, StopContinuesStop, QuietStop, AnsweredStops, SocketFailsStop DEF HostStep
<1> QED
  BY <1>1, <1>2, ManagerStop, ReceiveStop, RestartStop DEF HostNext
-----------------------------------------------------------------------------
LEMMA HostStarts == HostInit => HostInv
<1> SUFFICES ASSUME HostInit PROVE HostInv
  OBVIOUS
<1>1. Init /\ LifeInv
  BY LifeInit DEF HostInit
<1>2. /\ sessionSequence = 0 /\ currentRecord = 0 /\ toOffscreen = <<>> /\ stopsWaiting = {}
      /\ currentSession = 0 /\ forgotten = <<>> /\ overlooked = {}
      /\ \A r \in Records : /\ startPhase[r] = "unborn" /\ cleanup[r] = "none" /\ runtime[r] = "off"
                            /\ preparing[r] = "no" /\ capture[r] = "none" /\ ~quit[r]
                            /\ ~failureNotified[r] /\ cleanupPromise[r] = "none" /\ ~audioCtx[r]
                            /\ ws[r] = "none"
  BY <1>1 DEF HostInit, Init
<1>3. HostTypeOK
  <2>1. 0 \in 0..MaxRecords /\ <<>> \in Seq([type : {"START_CAPTURE", "STOP_CAPTURE"}, of : Records])
    BY SessionAssumption
  <2> QED
    BY <1>2, <2>1 DEF HostInit, HostTypeOK
<1>4. Shape
  BY <1>1 DEF LifeInv, Typed, Shape
<1>5. PipeFits(toOffscreen) /\ forgotten \in Seq(SUBSET Nat) /\ StartsFirst(toOffscreen)
  BY <1>2 DEF PipeFits, StartsFirst
<1>6. \A ty, r : ~InPipe(toOffscreen, ty, r)
  BY <1>2 DEF InPipe
<1>7. ASSUME NEW r \in Records
      PROVE  DocOf(r) /\ EraOf(r) /\ StartOf(r) /\ StopOf(r) /\ BookOf(r)
  <2>1. r \in Nat /\ r # 0 /\ ~(r <= 0)
    BY SessionAssumption DEF Records
  <2>2. DocOf(r) /\ EraOf(r)
    BY <1>2, <2>1 DEF DocOf, DocFits, EraOf, EraFits
  <2>3. StartOf(r) /\ StopOf(r)
    BY <1>2, <1>6, <2>1 DEF StartOf, StartFits, StopOf, StopFits
  <2>4. BookOf(r)
    BY <1>2, <1>6, <2>1 DEF BookOf, BookFits, InProgress
  <2> QED
    BY <2>2, <2>3, <2>4
<1>8. StopInv
  <2>1. ASSUME NEW r \in Records PROVE TalkOf(r) /\ OwnOf(r) /\ WayOf(r)
    <3>1. /\ r \in Nat /\ r # 0 /\ ~(r <= 0) /\ inbox[r] = <<>> /\ ~stopping[r] /\ ~Answered(inbox[r])
          /\ ~Old(r)
      BY <1>1, <1>2, SessionAssumption DEF Init, Records, Answered, Old
    <3> QED
      BY <1>2, <1>6, <3>1 DEF TalkOf, TalkFits, OwnOf, OwnFits, WayOf, WayFits
  <2>2. 0 \in 0..0
    OBVIOUS
  <2> QED
    BY <1>1, <1>2, <1>5, <2>1, <2>2 DEF StopInv, LifeInv, Typed, News
<1> QED
  BY <1>1, <1>3, <1>4, <1>5, <1>7, <1>8 DEF HostInv, EraInv, Books

(* Nothing happens.                                                         *)
LEMMA HostStutters ==
  ASSUME HostInv, UNCHANGED hostVars
  PROVE  HostInv' /\ UNCHANGED vars
<1>1. UNCHANGED <<vars, preparing, toOffscreen, stopsWaiting, document, forgotten, overlooked>>
  BY DEF hostVars
<1>2. UNCHANGED <<currentRecord, sessionSequence, startPhase, cleanup, runtime>>
  BY <1>1 DEF vars, external
<1>3. UNCHANGED <<currentSession, capture, replaced, quit, failureNotified, cleanupPromise,
                  mediaStream, audioCtx, ws>>
  BY <1>1 DEF document
<1>4. HostTypeOK' <=> HostTypeOK
  BY <1>1, <1>3 DEF HostTypeOK
<1>5. /\ Shape' <=> Shape
      /\ PipeFits(toOffscreen)' <=> PipeFits(toOffscreen)
      /\ StartsFirst(toOffscreen)' <=> StartsFirst(toOffscreen)
  BY <1>1, <1>2 DEF Shape
<1>6. ASSUME NEW r \in Records
      PROVE  /\ (DocOf(r)' <=> DocOf(r)) /\ (EraOf(r)' <=> EraOf(r))
             /\ (StartOf(r)' <=> StartOf(r)) /\ (StopOf(r)' <=> StopOf(r))
             /\ (BookOf(r)' <=> BookOf(r))
  BY <1>1, <1>2, <1>3 DEF DocOf, EraOf, First, CurrentFirst, StartOf, StopOf, BookOf
<1>7. EraInv'
  BY <1>1, <1>4, <1>5, <1>6 DEF HostInv, EraInv
<1>8. forgotten = <<>> => Books'
  BY <1>5, <1>6 DEF HostInv, Books
<1>10. StopInv'
  <2>1. UNCHANGED <<inbox, cancelled, stopping>>
    BY <1>1 DEF vars, external, record
  <2>2. ASSUME NEW r \in Records
        PROVE  (TalkOf(r)' <=> TalkOf(r)) /\ (OwnOf(r)' <=> OwnOf(r)) /\ (WayOf(r)' <=> WayOf(r))
    BY <1>1, <1>2, <1>3, <2>1 DEF TalkOf, OwnOf, Old, WayOf
  <2> QED
    BY <1>2, <1>5, <2>1, <2>2 DEF HostInv, StopInv
<1>9. forgotten = <<>> => LifeInv'
  BY <1>1, LifeNext DEF HostInv
<1> QED
  BY <1>1, <1>7, <1>8, <1>9, <1>10 DEF HostInv

(* Every step keeps EraInv.                                                 *)
LEMMA EraKept ==
  ASSUME HostInv, HostNext
  PROVE  EraInv'
<1>1. CASE Manager
  BY <1>1, ManagerEra DEF HostInv
<1>2. CASE Receive
  BY <1>2, ReceiveEra DEF HostInv
<1>3. ASSUME NEW r \in Records, HostStep(r)
      PROVE  EraInv'
  BY <1>3, PreparedEra, StopContinuesEra, QuietEra, AnsweredEra, SocketFailsEra
     DEF HostStep, HostInv
<1>4. CASE Restart
  BY <1>4, RestartEra DEF HostInv
<1> QED
  BY <1>1, <1>2, <1>3, <1>4 DEF HostNext

(* Before the first restart a step is one SessionManager counts on.         *)
LEMMA BooksKept ==
  ASSUME EraInv, LifeInv, Books, forgotten = <<>>, HostNext, forgotten' = <<>>
  PROVE  LifeInv' /\ Books' /\ [Next]_vars
<1>1. Books' /\ [Next]_vars
  <2>1. CASE Manager
    <3>1. Next
      BY <2>1 DEF Manager, TabLeaves, Next
    <3> QED
      BY <2>1, <3>1, ManagerBooks
  <2>2. CASE Receive
    BY <2>2, ReceiveBooks
  <2>3. ASSUME NEW r \in Records, HostStep(r)
        PROVE  Books' /\ [Next]_vars
    BY <2>3, PreparedBooks, StopContinuesBooks, QuietBooks, AnsweredBooks, SocketFailsBooks DEF HostStep
  <2>4. CASE Restart
    BY <2>4 DEF Restart
  <2> QED
    BY <2>1, <2>2, <2>3, <2>4 DEF HostNext
<1>2. LifeInv'
  BY <1>1, LifeNext
<1> QED
  BY <1>1, <1>2

(* A worker that was ended once stays a later one.                          *)
LEMMA ErasPass ==
  ASSUME EraInv, HostNext, forgotten' = <<>>
  PROVE  forgotten = <<>>
<1>1. CASE Restart
  <2>1. forgotten' = Append(forgotten, 1..sessionSequence) /\ forgotten \in Seq(SUBSET Nat)
    BY <1>1 DEF Restart, EraInv
  <2>2. 1..sessionSequence \in SUBSET Nat
    OBVIOUS
  <2>3. Append(forgotten, 1..sessionSequence) # <<>>
    BY <2>1, <2>2, AppendProperties
  <2> QED
    BY <2>1, <2>3
<1>2. CASE UNCHANGED forgotten
  BY <1>2
<1>3. ASSUME NEW r \in Records, HostStep(r)
      PROVE  UNCHANGED forgotten
  BY <1>3 DEF HostStep, Prepared, StopContinuesOffscreen, Quiet, SessionReady, CatchThrows, SocketFails
<1> QED
  BY <1>1, <1>2, <1>3 DEF HostNext, Manager, Receive

LEMMA HostKept == HostInv /\ [HostNext]_hostVars => HostInv' /\ [forgotten' = <<>> => Next]_vars
<1> SUFFICES ASSUME HostInv, [HostNext]_hostVars
             PROVE  HostInv' /\ [forgotten' = <<>> => Next]_vars
  OBVIOUS
<1>1. CASE HostNext
  <2>1. EraInv' /\ StopInv'
    BY <1>1, EraKept, StopKept
  <2>2. forgotten' = <<>> => LifeInv' /\ Books' /\ [Next]_vars
    BY <1>1, BooksKept, ErasPass DEF HostInv
  <2> QED
    BY <2>1, <2>2 DEF HostInv
<1>2. CASE UNCHANGED hostVars
  BY <1>2, HostStutters
<1> QED
  BY <1>1, <1>2

LEMMA HostAlways == HostSpec => []HostInv
  BY HostStarts, HostKept, PTL DEF HostSpec

(* ChromeHost.KeepsToManager for every number of tabs, sessions and         *)
(* restarts.  chrome-background.ts and offscreen.ts are, until the browser  *)
(* ends the service worker for the first time, the runtime that             *)
(* session-manager.ts counts on: an implementation of the external actions  *)
(* of SessionManager, so that its theorems hold of the composed system.     *)
THEOREM HostIsRuntime == HostSpec => KeepsToManager
<1>1. HostInv /\ [HostNext]_hostVars => [forgotten' = <<>> => Next]_vars
  BY HostKept
<1> QED
  BY <1>1, HostAlways, PTL DEF HostSpec, KeepsToManager

(* ChromeHost.CapturesEnd for every number of tabs, sessions and restarts.  *)
(* As long as no STOP has found its session ending another one, which takes *)
(* a restart of the worker, every STOP that was answered has ended its      *)
(* session in offscreen.ts, wherever runStartCapture was, and two tabs are  *)
(* never heard at once.  After such a STOP two sessions may be, but neither *)
(* is one of before the first restart.                                      *)
THEOREM CapturesAlwaysEnd == HostSpec => []CapturesEnd
<1>1. HostInv => CapturesEnd
  <2> SUFFICES ASSUME HostInv PROVE CapturesEnd
    OBVIOUS
  <2>1. HostTypeOK /\ \A r \in Records : EraOf(r) /\ DocOf(r)
    BY DEF HostInv, EraInv
  <2>2. ASSUME NEW q \in Records, NEW r \in Records, q # r, Captures(q), Captures(r)
        PROVE  ~First(q) /\ ~First(r)
    <3>1. ASSUME NEW x \in Records, NEW y \in Records, x # y, Captures(x), Captures(y), First(x)
          PROVE  FALSE
      <4>1. currentSession = x /\ currentSession # 0
        BY <2>1, <3>1 DEF EraOf, EraFits, Captures, Records
      <4>2. CurrentFirst
        BY <3>1, <4>1 DEF CurrentFirst
      <4>3. capture[y] # "none"
        BY <2>1, <3>1 DEF DocOf, DocFits, Captures
      <4>4. ~First(y)
        BY <2>1, <3>1, <4>1 DEF EraOf, EraFits, Captures
      <4> QED
        BY <2>1, <3>1, <4>2, <4>3, <4>4 DEF EraOf, EraFits
    <3> QED
      BY <2>2, <3>1
  <2>3. ASSUME overlooked = {}, NEW x \in Records, audioCtx[x], cleanupPromise[x] = "none"
        PROVE  currentSession = x
    <3>1. WayOf(x) /\ DocOf(x)
      BY <2>1 DEF HostInv, StopInv
    <3> QED
      BY <2>3, <3>1 DEF WayOf, WayFits, DocOf, DocFits
  <2>4. OneCapture
    <3>1. ASSUME NEW q \in Records, NEW r \in Records, q # r, Captures(q), Captures(r)
          PROVE  overlooked # {}
      BY <2>3, <3>1 DEF Captures
    <3> QED
      BY <2>1, <2>2, <3>1 DEF OneCapture
  <2>5. QuietAfterStop
    <3> SUFFICES ASSUME overlooked = {}, NEW r \in Records, cleanup[r] = "done"
                 PROVE  currentSession # r /\ (audioCtx[r] => cleanupPromise[r] # "none")
      BY DEF QuietAfterStop, StopAlwaysEnds
    <3>1. currentSession # r
      BY DEF HostInv, StopInv, WayOf, WayFits
    <3> QED
      BY <2>3, <3>1
  <2> QED
    BY <2>4, <2>5 DEF CapturesEnd
<1> QED
  BY <1>1, HostAlways, PTL

(* The composed system, for every number of tabs and sessions: until the    *)
(* browser ends the service worker for the first time, START, STOP and      *)
(* failures keep the order session-manager.ts promises, with the code of    *)
(* chrome-background.ts and offscreen.ts below it.                          *)
THEOREM SessionsWithHost ==
  HostSpec => [](forgotten = <<>> => StopWins /\ OneRuntime /\ ActiveIsLive)
<1>1. HostInv => (forgotten = <<>> => StopWins /\ OneRuntime /\ ActiveIsLive)
  BY LifeStops, LifeIsOne, LifeIsShown DEF HostInv
<1> QED
  BY <1>1, HostAlways, PTL
=============================================================================
