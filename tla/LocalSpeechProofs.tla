-------------------------- MODULE LocalSpeechProofs --------------------------
(***************************************************************************)
(* Proofs about the local speech engines.                                   *)
(*                                                                          *)
(* LocalTts and its WorkerClient: at most one worker runs and nothing waits *)
(* for another one, the slots of the adapter are conserved, and a call is   *)
(* told "cancelled" exactly when its generation is over.                    *)
(*                                                                          *)
(* SpeechInput: speech is reported once and in order, and the worker keeps  *)
(* no session of a stream that is over.                                     *)
(***************************************************************************)
EXTENDS LocalTts, SpeechInput, SequenceTheorems, FiniteSetTheorems, WellFoundedInduction, TLAPS

(* The requests somebody waits for, in the stages req.                      *)
Taken(req) == {r \in Requests : req[r] \in {"reserved", "aborted", "pending"}}

Stages == {"idle", "reserved", "aborted", "pending", "settled"}

(* What must hold of the stages of the requests whenever a handler goes on: *)
(* the limit, and that each waits for the present child or for its start.   *)
Bounded(req) == Cardinality(Taken(req) \ Bypass) <= MaxQueueSize

PendingAt(req, sent, c) == \A r \in Requests : req[r] = "pending" => sent[r] = c /\ c # 0

ReservedAt(req, promise) ==
  \A r \in Requests : req[r] \in {"reserved", "aborted"} => promise = "waiting"

(* What the fields of the client say of each other.                         *)
FieldsFit ==
  /\ child = 0 <=> readyPromise = "none"
  /\ state = "error" => child = 0
  /\ readyPromise = "waiting" => startupTimer
  /\ \A c \in Children : process[c] = "running" => c = child

ClientInv ==
  /\ ClientTypeOK /\ FieldsFit
  /\ Bounded(request) /\ PendingAt(request, sentTo, child) /\ ReservedAt(request, readyPromise)

AdapterInv == SlotsConserved

VoiceInv == ClientInv /\ AdapterInv

LEMMA ClientImplies ==
  ClientInv => OneWorker
<1> SUFFICES ASSUME ClientInv PROVE OneWorker
  OBVIOUS
<1>1. Outstanding = Taken(request)
  BY DEF Outstanding, Reserved, Taken
<1>2. Cardinality(Outstanding \ Bypass) <= MaxQueueSize
  BY <1>1 DEF ClientInv, Bounded
<1>3. \A r \in Requests : request[r] = "pending" => sentTo[r] = child
  BY DEF ClientInv, PendingAt
<1>4. Reserved # {} => readyPromise = "waiting" /\ startupTimer /\ child # 0
  BY DEF ClientInv, ReservedAt, FieldsFit, Reserved
<1> QED BY <1>2, <1>3, <1>4 DEF ClientInv, FieldsFit, OneWorker
-----------------------------------------------------------------------------
(* Fewer requests, or one more than was allowed, stay within the limit.     *)

LEMMA FewerBounded ==
  ASSUME NEW req, NEW new, Bounded(req), Taken(new) \ Bypass \subseteq Taken(req) \ Bypass
  PROVE  Bounded(new)
<1>1. IsFiniteSet(Taken(req) \ Bypass)
  BY ClientAssumption, FS_Subset DEF Taken
<1>2. Cardinality(Taken(new) \ Bypass) <= Cardinality(Taken(req) \ Bypass)
  BY <1>1, FS_Subset
<1>3. /\ Cardinality(Taken(new) \ Bypass) \in Nat /\ Cardinality(Taken(req) \ Bypass) \in Nat
      /\ MaxQueueSize \in Nat
  BY <1>1, ClientAssumption, FS_Subset, FS_CardinalityType
<1> QED BY <1>2, <1>3 DEF Bounded

LEMMA OneMoreBounded ==
  ASSUME NEW req, NEW new, NEW r \in Requests, Bounded(req), ~IsFull(req, r),
         Taken(new) \subseteq Taken(req) \union {r}
  PROVE  Bounded(new)
<1>1. CASE r \in Bypass
  BY <1>1, FewerBounded
<1>2. CASE r \notin Bypass
  <2> DEFINE T == Taken(req)
  <2>1. ~(Cardinality(T) >= MaxQueueSize)
    BY <1>2 DEF IsFull, Taken
  <2>2. IsFiniteSet(T)
    BY ClientAssumption, FS_Subset DEF Taken
  <2>3. /\ IsFiniteSet(T \union {r})
        /\ Cardinality(T \union {r}) = IF r \in T THEN Cardinality(T) ELSE Cardinality(T) + 1
    BY <2>2, FS_AddElement
  <2>4. Cardinality(Taken(new) \ Bypass) <= Cardinality(T \union {r})
    BY <2>3, FS_Subset
  <2>5. /\ Cardinality(T) \in Nat /\ Cardinality(Taken(new) \ Bypass) \in Nat /\ MaxQueueSize \in Nat
    BY <2>2, <2>3, ClientAssumption, FS_Subset, FS_CardinalityType
  <2> HIDE DEF T
  <2>6. Cardinality(Taken(new) \ Bypass) <= MaxQueueSize
    BY <2>1, <2>3, <2>4, <2>5
  <2> QED BY <2>6 DEF Bounded
<1> QED BY <1>1, <1>2
-----------------------------------------------------------------------------
(* A request is made while the stages are req: those of the state, or those *)
(* after some signals were aborted.                                         *)
LEMMA AskKeeps ==
  ASSUME ClientInv, NEW req \in [Requests -> Stages], NEW r \in Requests, Ask(req, r),
         Bounded(req), PendingAt(req, sentTo, child), ReservedAt(req, readyPromise)
  PROVE  ClientInv'
<1>1. /\ ClientTypeOK /\ FieldsFit /\ UNCHANGED closed
  BY DEF ClientInv, Ask
<1>2. \A s \in Stages : Mark(req, {r}, s) \in [Requests -> Stages]
  BY DEF Mark
<1>3. Taken(Mark(req, {r}, "settled")) \subseteq Taken(req)
  BY DEF Mark, Taken
<1>4. \A s \in Stages : Taken(Mark(req, {r}, s)) \subseteq Taken(req) \union {r}
  BY DEF Mark, Taken
<1>5. CASE Refused(req, r)
  <2>1. /\ request' = Mark(req, {r}, "settled")
        /\ UNCHANGED <<state, child, readyPromise, startupTimer, sentTo, process, loading>>
    BY <1>5 DEF Refused
  <2>2. ClientTypeOK'
    BY <1>1, <1>2, <2>1 DEF ClientTypeOK, Stages
  <2>3. FieldsFit'
    BY <1>1, <2>1 DEF FieldsFit
  <2>4. Bounded(request')
    BY <1>3, <2>1, FewerBounded
  <2>5. PendingAt(request', sentTo', child') /\ ReservedAt(request', readyPromise')
    BY <2>1 DEF PendingAt, ReservedAt, Mark
  <2> QED BY <2>2, <2>3, <2>4, <2>5 DEF ClientInv, Bounded, Taken, PendingAt, ReservedAt
<1>6. CASE /\ ~IsFull(req, r) /\ readyPromise = "none" /\ UNCHANGED sentTo
           /\ Spawn /\ request' = Mark(req, {r}, "reserved")
  <2>1. PICK c \in Children :
          /\ process[c] = "unborn"
          /\ state' = "starting" /\ child' = c
          /\ readyPromise' = "waiting" /\ startupTimer' = TRUE
          /\ process' = [process EXCEPT ![c] = "running"] /\ loading' = loading \union {c}
    BY <1>6 DEF Spawn
  <2>2. c \in 1..MaxChildren /\ c # 0 /\ MaxChildren \in Nat
    BY ClientAssumption DEF Children
  <2>3. ClientTypeOK'
    <3>1. child' \in 0..MaxChildren
      BY <2>1, <2>2
    <3>2. /\ process' \in [Children -> {"unborn", "running", "killed", "exited"}]
          /\ loading' \subseteq Children /\ sentTo' \in [Requests -> 0..MaxChildren]
      BY <1>1, <1>6, <2>1 DEF ClientTypeOK
    <3>3. request' \in [Requests -> Stages]
      BY <1>2, <1>6 DEF Stages
    <3>4. /\ state' \in {"stopped", "starting", "ready", "error", "closed"}
          /\ readyPromise' \in {"none", "waiting", "resolved"} /\ startupTimer' \in BOOLEAN
      BY <2>1
    <3>5. closed' \in BOOLEAN
      BY <1>1 DEF ClientTypeOK
    <3> QED BY <3>1, <3>2, <3>3, <3>4, <3>5 DEF ClientTypeOK, Stages
  <2>4. FieldsFit'
    <3>1. \A d \in Children : d # c => process'[d] # "running"
      BY <1>1, <1>6, <2>1, <2>2 DEF FieldsFit, ClientTypeOK, Children
    <3> QED BY <2>1, <2>2, <3>1 DEF FieldsFit
  <2>5. Bounded(request')
    BY <1>4, <1>6, OneMoreBounded DEF Stages
  <2>6. \A q \in Requests : req[q] # "pending"
    BY <1>1, <1>6 DEF PendingAt, FieldsFit
  <2>7. PendingAt(request', sentTo', child') /\ ReservedAt(request', readyPromise')
    BY <1>6, <2>1, <2>6 DEF PendingAt, ReservedAt, Mark
  <2> QED BY <2>3, <2>4, <2>5, <2>7 DEF ClientInv, Bounded, Taken, PendingAt, ReservedAt
<1>7. CASE /\ readyPromise = "none" /\ UNCHANGED sentTo
           /\ SpawnThrows /\ request' = Mark(req, {r}, "settled")
  <2>1. /\ state' = "error" /\ child = 0
        /\ UNCHANGED <<child, readyPromise, startupTimer, process, loading>>
    BY <1>1, <1>7 DEF SpawnThrows, FieldsFit
  <2>2. ClientTypeOK'
    BY <1>1, <1>2, <1>7, <2>1 DEF ClientTypeOK, Stages
  <2>3. FieldsFit'
    BY <1>1, <2>1 DEF FieldsFit
  <2>4. Bounded(request')
    BY <1>3, <1>7, FewerBounded
  <2>5. PendingAt(request', sentTo', child') /\ ReservedAt(request', readyPromise')
    BY <1>7, <2>1 DEF PendingAt, ReservedAt, Mark
  <2> QED BY <2>2, <2>3, <2>4, <2>5 DEF ClientInv, Bounded, Taken, PendingAt, ReservedAt
<1>8. CASE /\ ~IsFull(req, r) /\ readyPromise = "waiting" /\ request' = Mark(req, {r}, "reserved")
           /\ UNCHANGED <<state, child, readyPromise, startupTimer, sentTo, process, loading>>
  <2>1. ClientTypeOK' /\ FieldsFit'
    BY <1>1, <1>2, <1>8 DEF ClientTypeOK, FieldsFit, Stages
  <2>2. Bounded(request')
    BY <1>4, <1>8, OneMoreBounded DEF Stages
  <2>3. PendingAt(request', sentTo', child') /\ ReservedAt(request', readyPromise')
    BY <1>8 DEF PendingAt, ReservedAt, Mark
  <2> QED BY <2>1, <2>2, <2>3 DEF ClientInv, Bounded, Taken, PendingAt, ReservedAt
<1>9. CASE /\ ~IsFull(req, r) /\ readyPromise = "resolved" /\ Send(req, {r})
           /\ UNCHANGED <<state, child, readyPromise, startupTimer, process, loading>>
  <2>1. /\ child # 0 /\ request' = Mark(req, {r}, "pending")
        /\ sentTo' = [q \in Requests |-> IF q \in {r} THEN child ELSE sentTo[q]]
    BY <1>1, <1>9 DEF Send, FieldsFit
  <2>2. ClientTypeOK' /\ FieldsFit'
    BY <1>1, <1>2, <1>9, <2>1 DEF ClientTypeOK, FieldsFit, Stages
  <2>3. Bounded(request')
    BY <1>4, <1>9, <2>1, OneMoreBounded DEF Stages
  <2>4. PendingAt(request', sentTo', child') /\ ReservedAt(request', readyPromise')
    BY <1>9, <2>1 DEF PendingAt, ReservedAt, Mark
  <2> QED BY <2>2, <2>3, <2>4 DEF ClientInv, Bounded, Taken, PendingAt, ReservedAt
<1> QED BY <1>5, <1>6, <1>7, <1>8, <1>9 DEF Ask

(* Stages that are farther: what was waiting waits as before or is settled.  *)
LEMMA FartherKeeps ==
  ASSUME ClientInv, NEW req \in [Requests -> Stages],
         \A r \in Requests : req[r] = request[r] \/ req[r] = "settled"
                               \/ (request[r] \in {"reserved", "aborted"} /\ req[r] = "aborted")
  PROVE  Bounded(req) /\ PendingAt(req, sentTo, child) /\ ReservedAt(req, readyPromise)
<1>1. Taken(req) \subseteq Taken(request)
  BY DEF Taken
<1>2. Bounded(req)
  BY <1>1, FewerBounded DEF ClientInv
<1>3. PendingAt(req, sentTo, child) /\ ReservedAt(req, readyPromise)
  BY DEF ClientInv, PendingAt, ReservedAt
<1> QED BY <1>2, <1>3

LEMMA AbortedFits ==
  ASSUME ClientInv, NEW S
  PROVE  /\ Aborted(S) \in [Requests -> Stages]
         /\ Bounded(Aborted(S)) /\ PendingAt(Aborted(S), sentTo, child)
         /\ ReservedAt(Aborted(S), readyPromise)
<1>1. request \in [Requests -> Stages]
  BY DEF ClientInv, ClientTypeOK, Stages
<1>2. \A r \in Requests :
        Aborted(S)[r] = CASE r \in S /\ request[r] = "reserved" -> "aborted"
                          [] r \in S /\ request[r] = "pending" -> "settled"
                          [] OTHER -> request[r]
  BY DEF Aborted
<1>3. \A r \in Requests :
        \/ Aborted(S)[r] = request[r] \/ Aborted(S)[r] = "settled"
        \/ (request[r] \in {"reserved", "aborted"} /\ Aborted(S)[r] = "aborted")
  BY <1>2
<1>4. Aborted(S) \in [Requests -> Stages]
  <2>1. \A r \in Requests : Aborted(S)[r] \in Stages
    BY <1>1, <1>3 DEF Stages
  <2> QED BY <2>1 DEF Aborted
<1> QED BY <1>3, <1>4, FartherKeeps

(* The requests go on alone.                                                *)
LEMMA OnlyRequests ==
  ASSUME ClientInv, request' \in [Requests -> Stages],
         Bounded(request'), PendingAt(request', sentTo, child), ReservedAt(request', readyPromise),
         UNCHANGED <<closed, state, child, readyPromise, startupTimer, sentTo, process, loading>>
  PROVE  ClientInv'
<1>1. ClientTypeOK' /\ FieldsFit'
  BY DEF ClientInv, ClientTypeOK, FieldsFit, Stages
<1> QED BY <1>1 DEF ClientInv, Bounded, Taken, PendingAt, ReservedAt

LEMMA SettleKeeps ==
  ASSUME ClientInv, NEW r \in Requests, request' = [request EXCEPT ![r] = "settled"],
         UNCHANGED <<closed, state, child, readyPromise, startupTimer, sentTo, process, loading>>
  PROVE  ClientInv'
<1>1. request' \in [Requests -> Stages]
      /\ \A q \in Requests : request'[q] = request[q] \/ request'[q] = "settled"
  BY DEF ClientInv, ClientTypeOK, Stages
<1>2. Bounded(request') /\ PendingAt(request', sentTo, child) /\ ReservedAt(request', readyPromise)
  BY <1>1, FartherKeeps
<1> QED BY <1>1, <1>2, OnlyRequests

(* Nobody waits when everything outstanding is settled.                     *)
LEMMA AllSettled ==
  ASSUME ClientInv
  PROVE  LET req == Mark(request, Outstanding, "settled")
         IN  /\ req \in [Requests -> Stages] /\ Bounded(req)
             /\ \A r \in Requests : req[r] \notin {"reserved", "aborted", "pending"}
<1> DEFINE req == Mark(request, Outstanding, "settled")
<1>1. /\ req \in [Requests -> Stages]
      /\ \A r \in Requests : req[r] = request[r] \/ req[r] = "settled"
  BY DEF ClientInv, ClientTypeOK, Mark, Stages
<1>2. \A r \in Requests : req[r] \notin {"reserved", "aborted", "pending"}
  BY DEF Mark, Outstanding, Reserved
<1>3. Bounded(req)
  BY <1>1, FartherKeeps
<1> QED BY <1>1, <1>2, <1>3

(* What is true of the processes once the child has been told to stop.      *)
LEMMA NobodyRuns ==
  ASSUME ClientInv
  PROVE  /\ Killed \in [Children -> {"unborn", "running", "killed", "exited"}]
         /\ Stopped \in [Children -> {"unborn", "running", "killed", "exited"}]
         /\ \A c \in Children : Killed[c] # "running" /\ Stopped[c] # "running"
<1>1. \A c \in Children : c # 0
  BY ClientAssumption DEF Children
<1>2. /\ Killed \in [Children -> {"unborn", "running", "killed", "exited"}]
      /\ \A c \in Children : Killed[c] # "running"
  BY DEF ClientInv, ClientTypeOK, FieldsFit, Killed
<1>3. CASE state = "error"
  BY <1>1, <1>2, <1>3 DEF ClientInv, ClientTypeOK, FieldsFit, Stopped
<1>4. CASE state # "error"
  BY <1>2, <1>4 DEF Stopped
<1> QED BY <1>2, <1>3, <1>4

LEMMA FailKeeps ==
  ASSUME ClientInv, FailWorker, UNCHANGED <<closed, sentTo>>, loading' \subseteq Children,
         process' \in [Children -> {"unborn", "running", "killed", "exited"}],
         \A c \in Children : process'[c] # "running"
  PROVE  ClientInv'
<1>1. CASE state = "error"
  <2>1. child = 0 /\ readyPromise = "none"
        /\ UNCHANGED <<state, child, readyPromise, request>> /\ startupTimer' = FALSE
    BY <1>1 DEF ClientInv, FieldsFit, FailWorker
  <2>2. ClientTypeOK' /\ FieldsFit'
    BY <2>1 DEF ClientInv, ClientTypeOK, FieldsFit
  <2> QED BY <2>1, <2>2 DEF ClientInv, Bounded, Taken, PendingAt, ReservedAt
<1>2. CASE state # "error"
  <2>1. /\ state' = (IF closed THEN state ELSE "error") /\ startupTimer' = FALSE
        /\ request' = Mark(request, Outstanding, "settled")
        /\ child' = 0 /\ readyPromise' = "none"
    BY <1>2 DEF FailWorker
  <2>2. /\ request' \in [Requests -> Stages] /\ Bounded(request')
        /\ \A r \in Requests : request'[r] \notin {"reserved", "aborted", "pending"}
    BY <2>1, AllSettled
  <2>3. ClientTypeOK' /\ FieldsFit'
    <3>1. 0 \in 0..MaxChildren
      BY ClientAssumption
    <3>2. ClientTypeOK'
      BY <2>1, <2>2, <3>1 DEF ClientInv, ClientTypeOK, Stages
    <3>3. FieldsFit'
      BY <1>2, <2>1 DEF FieldsFit
    <3> QED BY <3>2, <3>3
  <2> QED BY <2>2, <2>3 DEF ClientInv, Bounded, Taken, PendingAt, ReservedAt
<1> QED BY <1>1, <1>2

LEMMA ReadyKeeps ==
  ASSUME ClientInv, NEW c \in Children, ReadyLine(c)
  PROVE  ClientInv'
<1>1. CASE readyPromise = "waiting"
  <2> DEFINE S == {r \in Requests : request[r] = "reserved"}
             req == Mark(request, Reserved, "settled")
  <2>1. /\ child # 0 /\ readyPromise' = "resolved" /\ state' = "ready" /\ startupTimer' = FALSE
        /\ request' = Mark(req, S, "pending")
        /\ sentTo' = [r \in Requests |-> IF r \in S THEN child ELSE sentTo[r]]
        /\ UNCHANGED <<closed, child, process>> /\ loading' = loading \ {c}
    BY <1>1 DEF ReadyLine, Send, ClientInv, FieldsFit
  <2>2. \A r \in Requests :
          request'[r] = IF request[r] = "reserved" THEN "pending"
                        ELSE IF request[r] = "aborted" THEN "settled" ELSE request[r]
    BY <2>1 DEF Mark, Reserved
  <2>3. request' \in [Requests -> Stages]
    BY <2>1, <2>2 DEF ClientInv, ClientTypeOK, Mark, Stages
  <2>4. ClientTypeOK' /\ FieldsFit'
    BY <2>1, <2>3 DEF ClientInv, ClientTypeOK, FieldsFit, Stages
  <2>5. Bounded(request')
    <3>1. Taken(request') \subseteq Taken(request)
      BY <2>2 DEF Taken
    <3> QED BY <3>1, FewerBounded DEF ClientInv
  <2>6. PendingAt(request', sentTo', child') /\ ReservedAt(request', readyPromise')
    BY <2>1, <2>2 DEF ClientInv, PendingAt, ReservedAt
  <2> QED BY <2>4, <2>5, <2>6 DEF ClientInv, Bounded, Taken, PendingAt, ReservedAt
<1>2. CASE readyPromise # "waiting"
  <2>1. /\ startupTimer' = FALSE /\ loading' = loading \ {c}
        /\ UNCHANGED <<readyPromise, state, request, sentTo, closed, child, process>>
    BY <1>2 DEF ReadyLine
  <2>2. ClientTypeOK' /\ FieldsFit'
    BY <1>2, <2>1 DEF ClientInv, ClientTypeOK, FieldsFit
  <2> QED BY <2>1, <2>2 DEF ClientInv, Bounded, Taken, PendingAt, ReservedAt
<1> QED BY <1>1, <1>2

(* Both ends of the client: the bad line that overtakes the start, close.   *)
LEMMA EndKeeps ==
  ASSUME ClientInv, closed' \in BOOLEAN, state' \in {"ready", "error", "closed"},
         startupTimer' = FALSE, readyPromise' = "none", child' = 0,
         request' = Mark(request, Outstanding, "settled"),
         process' \in {Stopped, Killed}, loading' \subseteq loading, UNCHANGED sentTo
  PROVE  ClientInv'
<1>1. /\ request' \in [Requests -> Stages] /\ Bounded(request')
      /\ \A r \in Requests : request'[r] \notin {"reserved", "aborted", "pending"}
  BY AllSettled
<1>2. /\ process' \in [Children -> {"unborn", "running", "killed", "exited"}]
      /\ \A c \in Children : process'[c] # "running"
  BY NobodyRuns
<1>3. ClientTypeOK'
  <2>1. 0 \in 0..MaxChildren
    BY ClientAssumption
  <2>2. loading' \subseteq Children /\ sentTo' \in [Requests -> 0..MaxChildren]
    BY DEF ClientInv, ClientTypeOK
  <2>3. /\ state' \in {"stopped", "starting", "ready", "error", "closed"}
        /\ readyPromise' \in {"none", "waiting", "resolved"} /\ startupTimer' \in BOOLEAN
    OBVIOUS
  <2> QED BY <1>1, <1>2, <2>1, <2>2, <2>3 DEF ClientTypeOK, Stages
<1>4. FieldsFit'
  BY <1>2 DEF FieldsFit
<1> QED BY <1>1, <1>3, <1>4 DEF ClientInv, Bounded, Taken, PendingAt, ReservedAt

LEMMA StepKeeps ==
  ASSUME ClientInv, ClientStep
  PROVE  ClientInv'
<1>1. /\ process \in [Children -> {"unborn", "running", "killed", "exited"}] /\ loading \subseteq Children
  BY DEF ClientInv, ClientTypeOK
<1>2. ASSUME NEW r \in Requests, RequestTimeout(r) PROVE ClientInv'
  BY <1>2, SettleKeeps DEF RequestTimeout
<1>3. CASE StartupTimeout
  <2>1. /\ process' = Stopped /\ FailWorker /\ UNCHANGED <<closed, sentTo, loading>>
    BY <1>3 DEF StartupTimeout
  <2> QED BY <1>1, <2>1, NobodyRuns, FailKeeps
<1>4. CASE Close
  <2>1. /\ closed' \in BOOLEAN /\ state' \in {"ready", "error", "closed"}
        /\ startupTimer' = FALSE /\ readyPromise' = "none" /\ child' = 0
        /\ request' = Mark(request, Outstanding, "settled")
        /\ process' = Killed /\ UNCHANGED <<sentTo, loading>>
    BY <1>4 DEF Close
  <2> QED BY <2>1, EndKeeps
<1>5. ASSUME NEW c \in Children, ChildExits(c) PROVE ClientInv'
  <2>1. /\ process' = [Stopped EXCEPT ![c] = "exited"] /\ FailWorker /\ UNCHANGED <<closed, sentTo>>
        /\ loading' = loading \ {c}
    BY <1>5 DEF ChildExits
  <2>2. /\ process' \in [Children -> {"unborn", "running", "killed", "exited"}]
        /\ \A d \in Children : process'[d] # "running"
    BY <2>1, NobodyRuns
  <2> QED BY <1>1, <2>1, <2>2, FailKeeps
<1>6. ASSUME NEW c \in Children, BadLine(c) PROVE ClientInv'
  <2>1. /\ process' = Stopped /\ FailWorker /\ UNCHANGED <<closed, sentTo, loading>>
    BY <1>6 DEF BadLine
  <2> QED BY <1>1, <2>1, NobodyRuns, FailKeeps
<1>7. ASSUME NEW c \in Children, ReadyThenBadLine(c) PROVE ClientInv'
  <2>1. /\ state' = "ready" /\ startupTimer' = FALSE /\ readyPromise' = "none" /\ child' = 0
        /\ request' = Mark(request, Outstanding, "settled")
        /\ process' = Stopped /\ UNCHANGED <<closed, sentTo>> /\ loading' = loading \ {c}
    BY <1>7 DEF ReadyThenBadLine
  <2>2. closed' \in BOOLEAN
    BY <2>1 DEF ClientInv, ClientTypeOK
  <2> QED BY <2>1, <2>2, EndKeeps
<1>8. ASSUME NEW c \in Children, NEW r \in Requests, AnswerLine(c, r) PROVE ClientInv'
  BY <1>8, SettleKeeps DEF AnswerLine
<1> QED BY <1>2, <1>3, <1>4, <1>5, <1>6, <1>7, <1>8, ReadyKeeps DEF ClientStep
-----------------------------------------------------------------------------
(* The slots of the adapter.                                                *)

CallStages == {"unborn", "waiting", "granted", "asking", "done", "cancelled"}

Holders(calls) == {s \in Syntheses : calls[s] \in {"granted", "asking"}}

LEMMA HoldersFinite ==
  ASSUME NEW calls
  PROVE  IsFiniteSet(Holders(calls)) /\ Cardinality(Holders(calls)) \in Nat
<1>1. IsFiniteSet(Syntheses)
  BY ClientAssumption, LocalTtsAssumption, FS_Subset
<1> QED BY <1>1, FS_Subset, FS_CardinalityType DEF Holders

(* The adapter keeps its books when the holders stay the same and the line  *)
(* loses who is not waiting any more.                                       *)
LEMMA SameHolders ==
  ASSUME SlotsConserved, ClientTypeOK', UNCHANGED inFlight,
         activeGeneration' \in Nat \ {0}, activeGeneration <= activeGeneration',
         UNCHANGED generation,
         waiters' \in [Syntheses -> Nat], call' \in [Syntheses -> CallStages],
         InLine' = {s \in Syntheses : call'[s] = "waiting"}, InLine' \subseteq InLine,
         Cardinality(Holders(call')) = Cardinality(Holders(call))
  PROVE  SlotsConserved'
<1>1. generation \in [Syntheses -> 0..activeGeneration']
  <2>1. activeGeneration \in Nat /\ generation \in [Syntheses -> 0..activeGeneration]
    BY DEF SlotsConserved, TypeOK
  <2>2. \A s \in Syntheses : generation[s] \in 0..activeGeneration'
    BY <2>1
  <2> QED BY <2>1, <2>2
<1>2. TypeOK'
  BY <1>1 DEF SlotsConserved, TypeOK, CallStages
<1> QED BY <1>2 DEF SlotsConserved, Holders

LEMMA ReleaseKeeps ==
  ASSUME SlotsConserved, ClientTypeOK', NEW s \in Syntheses, call[s] \in {"granted", "asking"},
         Release(s), UNCHANGED <<activeGeneration, generation>>
  PROVE  SlotsConserved'
<1>1. /\ inFlight \in Nat /\ maxConcurrentRequests \in Nat /\ inFlight <= maxConcurrentRequests
      /\ inFlight = Cardinality(Holders(call)) /\ call \in [Syntheses -> CallStages]
      /\ waiters \in [Syntheses -> Nat] /\ activeGeneration \in Nat \ {0}
      /\ generation \in [Syntheses -> 0..activeGeneration]
      /\ InLine = {w \in Syntheses : call[w] = "waiting"}
  BY LocalTtsAssumption DEF SlotsConserved, TypeOK, Holders, CallStages
<1>2. s \in Holders(call) /\ IsFiniteSet(Holders(call)) /\ Outcome(s) \in {"done", "cancelled"}
  BY HoldersFinite DEF Holders, Outcome
<1>3. Cardinality(Holders(call) \ {s}) = inFlight - 1 /\ IsFiniteSet(Holders(call) \ {s})
  BY <1>1, <1>2, FS_RemoveElement
<1>4. CASE InLine = {}
  <2>1. /\ inFlight' = inFlight - 1 /\ call' = [call EXCEPT ![s] = Outcome(s)] /\ waiters' = waiters
    BY <1>4 DEF Release
  <2>2. Holders(call') = Holders(call) \ {s} /\ call' \in [Syntheses -> CallStages]
    BY <1>1, <1>2, <2>1 DEF Holders, CallStages
  <2>3. inFlight' = Cardinality(Holders(call')) /\ inFlight' \in 0..maxConcurrentRequests
    <3>1. inFlight' = Cardinality(Holders(call')) /\ Cardinality(Holders(call')) \in Nat
      BY <1>3, <2>1, <2>2, HoldersFinite
    <3> QED BY <1>1, <2>1, <3>1
  <2>4. InLine' = {} /\ {w \in Syntheses : call'[w] = "waiting"} = {}
    BY <1>1, <1>2, <1>4, <2>1 DEF InLine
  <2>5. TypeOK'
    BY <1>1, <2>1, <2>2, <2>3 DEF TypeOK, CallStages
  <2> QED BY <2>3, <2>4, <2>5 DEF SlotsConserved, Holders
<1>5. CASE InLine # {}
  <2>1. PICK next \in InLine :
          /\ waiters' = [waiters EXCEPT ![next] = 0]
          /\ call' = [call EXCEPT ![s] = Outcome(s), ![next] = "granted"]
          /\ inFlight' = inFlight
    BY <1>5 DEF Release
  <2>2. next \in Syntheses /\ next # s /\ call[next] = "waiting"
    BY <1>1
  <2>3. /\ call' \in [Syntheses -> CallStages] /\ waiters' \in [Syntheses -> Nat]
        /\ \A w \in Syntheses : w # s /\ w # next => call'[w] = call[w]
        /\ call'[s] \in {"done", "cancelled"} /\ call'[next] = "granted"
    BY <1>1, <1>2, <2>1, <2>2 DEF CallStages
  <2>4. Holders(call') = (Holders(call) \ {s}) \union {next} /\ next \notin Holders(call) \ {s}
    BY <1>2, <2>2, <2>3 DEF Holders
  <2>5. Cardinality(Holders(call')) = Cardinality(Holders(call))
    <3> DEFINE others == Holders(call) \ {s}
    <3>1. IsFiniteSet(others) /\ Cardinality(others) = inFlight - 1
      BY <1>3
    <3>2. Holders(call') = others \union {next} /\ next \notin others
      BY <2>4
    <3> HIDE DEF others
    <3>3. Cardinality(Holders(call')) = Cardinality(others) + 1
      BY <3>1, <3>2, FS_AddElement
    <3> QED BY <1>1, <3>1, <3>3
  <2>6. InLine' = InLine \ {next}
    BY <1>1, <2>1, <2>2 DEF InLine
  <2>7. InLine' = {w \in Syntheses : call'[w] = "waiting"}
    BY <1>1, <2>2, <2>3, <2>6
  <2>8. activeGeneration' \in Nat \ {0} /\ activeGeneration <= activeGeneration'
    BY <1>1
  <2> QED BY <2>1, <2>3, <2>5, <2>6, <2>7, <2>8, SameHolders
<1> QED BY <1>4, <1>5

LEMMA SynthesizeKeeps ==
  ASSUME VoiceInv, NEW s \in Syntheses, Synthesize(s)
  PROVE  SlotsConserved'
<1>1. /\ inFlight \in Nat /\ maxConcurrentRequests \in Nat \ {0} /\ inFlight <= maxConcurrentRequests
      /\ inFlight = Cardinality(Holders(call)) /\ call \in [Syntheses -> CallStages]
      /\ waiters \in [Syntheses -> Nat] /\ activeGeneration \in Nat \ {0}
      /\ generation \in [Syntheses -> 0..activeGeneration]
      /\ InLine = {w \in Syntheses : call[w] = "waiting"}
      /\ InLine # {} => inFlight = maxConcurrentRequests
      /\ call[s] = "unborn"
  BY LocalTtsAssumption DEF VoiceInv, AdapterInv, SlotsConserved, TypeOK, Holders, CallStages,
     Synthesize
<1>2. /\ ClientTypeOK' /\ activeGeneration' = activeGeneration
      /\ generation' = [generation EXCEPT ![s] = activeGeneration]
  BY DEF VoiceInv, AdapterInv, SlotsConserved, TypeOK, Synthesize, clientVars, ClientTypeOK
<1>3. generation' \in [Syntheses -> 0..activeGeneration']
  <2>1. activeGeneration \in 0..activeGeneration
    BY <1>1
  <2> QED BY <1>1, <1>2, <2>1
<1>4. CASE /\ inFlight < maxConcurrentRequests /\ inFlight' = inFlight + 1
           /\ call' = [call EXCEPT ![s] = "granted"] /\ UNCHANGED waiters
  <2>1. Holders(call') = Holders(call) \union {s} /\ s \notin Holders(call)
    BY <1>1, <1>4 DEF Holders
  <2>2. inFlight' = Cardinality(Holders(call'))
    BY <1>1, <1>4, <2>1, HoldersFinite, FS_AddElement
  <2>3. InLine = {} /\ InLine' = {} /\ {w \in Syntheses : call'[w] = "waiting"} = {}
    BY <1>1, <1>4 DEF InLine
  <2>4. inFlight' \in 0..maxConcurrentRequests
    BY <1>1, <1>4
  <2>5. TypeOK'
    BY <1>1, <1>2, <1>3, <1>4, <2>4 DEF TypeOK, CallStages
  <2> QED BY <2>2, <2>3, <2>5 DEF SlotsConserved, Holders
<1>5. CASE /\ inFlight >= maxConcurrentRequests /\ UNCHANGED inFlight
           /\ waiters' = [waiters EXCEPT ![s] =
                            Cardinality({t \in Syntheses : call[t] # "unborn"}) + 1]
           /\ call' = [call EXCEPT ![s] = "waiting"]
  <2> DEFINE place == Cardinality({t \in Syntheses : call[t] # "unborn"}) + 1
  <2>1. place \in Nat /\ place # 0
    <3>1. IsFiniteSet({t \in Syntheses : call[t] # "unborn"})
      BY ClientAssumption, LocalTtsAssumption, FS_Subset
    <3> QED BY <3>1, FS_CardinalityType
  <2> HIDE DEF place
  <2>2. waiters' = [waiters EXCEPT ![s] = place]
    BY <1>5 DEF place
  <2>3. Holders(call') = Holders(call)
    BY <1>1, <1>5 DEF Holders
  <2>4. InLine' = InLine \union {s} /\ InLine' = {w \in Syntheses : call'[w] = "waiting"}
    <3>1. waiters'[s] = place /\ call'[s] = "waiting" /\ s \in Syntheses
      BY <1>1, <1>5, <2>2
    <3>2. \A w \in Syntheses : w # s => waiters'[w] = waiters[w] /\ call'[w] = call[w]
      BY <1>1, <1>5, <2>2
    <3>3. InLine' = InLine \union {s}
      BY <2>1, <3>1, <3>2 DEF InLine
    <3>4. InLine' = {w \in Syntheses : call'[w] = "waiting"}
      BY <1>1, <3>1, <3>2, <3>3
    <3> QED BY <3>3, <3>4
  <2>5. TypeOK'
    <3>1. waiters' \in [Syntheses -> Nat] /\ call' \in [Syntheses -> CallStages]
      BY <1>1, <1>5, <2>1, <2>2 DEF CallStages
    <3>2. inFlight' \in 0..maxConcurrentRequests
      BY <1>1, <1>5
    <3> QED BY <1>1, <1>2, <1>3, <3>1, <3>2 DEF TypeOK, CallStages
  <2>6. inFlight' = maxConcurrentRequests
    BY <1>1, <1>5
  <2> QED BY <1>1, <1>5, <2>3, <2>4, <2>5, <2>6 DEF SlotsConserved, Holders
<1> QED BY <1>4, <1>5 DEF Synthesize

LEMMA AbortKeeps ==
  ASSUME SlotsConserved, ClientTypeOK', NEW S \in SUBSET Syntheses, Abort(S),
         activeGeneration' \in Nat \ {0}, activeGeneration <= activeGeneration'
  PROVE  SlotsConserved'
<1> DEFINE inLine == {s \in S : call[s] = "waiting"}
<1>1. /\ call \in [Syntheses -> CallStages] /\ waiters \in [Syntheses -> Nat]
      /\ InLine = {w \in Syntheses : call[w] = "waiting"}
  BY DEF SlotsConserved, TypeOK, CallStages
<1>2. /\ waiters' = [s \in Syntheses |-> IF s \in inLine THEN 0 ELSE waiters[s]]
      /\ call' = [s \in Syntheses |->
                    IF s \notin inLine THEN call[s]
                    ELSE IF generation[s] < activeGeneration' THEN "cancelled" ELSE "done"]
      /\ UNCHANGED <<inFlight, generation>>
  BY DEF Abort
<1>3. waiters' \in [Syntheses -> Nat] /\ call' \in [Syntheses -> CallStages]
  BY <1>1, <1>2 DEF CallStages
<1>4. InLine' = {w \in Syntheses : call'[w] = "waiting"} /\ InLine' \subseteq InLine
  BY <1>1, <1>2 DEF InLine
<1>5. Holders(call') = Holders(call)
  BY <1>2 DEF Holders
<1> QED BY <1>2, <1>3, <1>4, <1>5, SameHolders
-----------------------------------------------------------------------------
(* The theorems.                                                            *)

LEMMA VoiceInit ==
  Init => VoiceInv
<1> SUFFICES ASSUME Init PROVE VoiceInv
  OBVIOUS
<1>1. \A r \in Requests : request[r] = "idle"
  BY DEF Init, ClientInit
<1>2. Taken(request) \ Bypass = {} /\ Bounded(request)
  BY <1>1, ClientAssumption, FS_EmptySet DEF Taken, Bounded
<1>3. ClientTypeOK
  <2>1. 0 \in 0..MaxChildren
    BY ClientAssumption
  <2> QED BY <2>1 DEF Init, ClientInit, ClientTypeOK
<1>4. ClientInv
  BY <1>1, <1>2, <1>3 DEF Init, ClientInit, ClientInv, FieldsFit, PendingAt, ReservedAt
<1>5. TypeOK
  <2>1. 0 \in 0..maxConcurrentRequests /\ 0 \in 0..activeGeneration /\ activeGeneration \in Nat \ {0}
    BY LocalTtsAssumption DEF Init
  <2> QED BY <1>3, <2>1 DEF Init, TypeOK
<1>6. Holders(call) = {} /\ InLine = {} /\ {s \in Syntheses : call[s] = "waiting"} = {}
  BY DEF Init, Holders, InLine
<1>7. SlotsConserved
  BY <1>5, <1>6, FS_EmptySet DEF Init, SlotsConserved, Holders
<1> QED BY <1>4, <1>7 DEF VoiceInv, AdapterInv

LEMMA VoiceKept ==
  ASSUME VoiceInv, UNCHANGED vars
  PROVE  VoiceInv'
<1>1. ClientInv'
  BY DEF VoiceInv, vars, clientVars, ClientInv, ClientTypeOK, FieldsFit, Bounded, Taken, PendingAt,
     ReservedAt
<1>2. SlotsConserved'
  BY DEF VoiceInv, AdapterInv, vars, clientVars, adapterVars, SlotsConserved, TypeOK, ClientTypeOK,
     InLine
<1> QED BY <1>1, <1>2 DEF VoiceInv, AdapterInv

LEMMA ClientKept ==
  ASSUME ClientInv, UNCHANGED clientVars
  PROVE  ClientInv'
BY DEF clientVars, ClientInv, ClientTypeOK, FieldsFit, Bounded, Taken, PendingAt, ReservedAt

LEMMA AdapterKept ==
  ASSUME SlotsConserved, ClientTypeOK', UNCHANGED adapterVars
  PROVE  SlotsConserved'
BY DEF adapterVars, SlotsConserved, TypeOK, InLine

LEMMA ContinuesKeeps ==
  ASSUME VoiceInv, NEW s \in Syntheses, Continues(s)
  PROVE  VoiceInv'
<1>1. /\ call \in [Syntheses -> CallStages] /\ activeGeneration \in Nat \ {0}
      /\ waiters \in [Syntheses -> Nat] /\ InLine = {w \in Syntheses : call[w] = "waiting"}
  BY DEF VoiceInv, AdapterInv, SlotsConserved, TypeOK, CallStages
<1>2. CASE /\ call[s] \in {"granted", "asking"} /\ Release(s)
           /\ UNCHANGED clientVars /\ UNCHANGED <<activeGeneration, generation>>
  <2>1. ClientInv' /\ ClientTypeOK'
    BY <1>2, ClientKept DEF VoiceInv, ClientInv
  <2> QED BY <1>2, <2>1, ReleaseKeeps DEF VoiceInv, AdapterInv
<1>3. CASE /\ call[s] = "granted" /\ Ask(request, s)
           /\ call' = [call EXCEPT ![s] = "asking"]
           /\ UNCHANGED <<inFlight, waiters, activeGeneration, generation>>
  <2>1. ClientInv' /\ ClientTypeOK'
    <3>1. request \in [Requests -> Stages] /\ s \in Requests
      BY LocalTtsAssumption DEF VoiceInv, ClientInv, ClientTypeOK, Stages
    <3> QED BY <1>3, <3>1, AskKeeps DEF VoiceInv, ClientInv
  <2>2. Holders(call') = Holders(call) /\ call' \in [Syntheses -> CallStages]
    BY <1>1, <1>3 DEF Holders, CallStages
  <2>3. InLine' = InLine /\ InLine' = {w \in Syntheses : call'[w] = "waiting"}
    BY <1>1, <1>3 DEF InLine
  <2>4. activeGeneration' \in Nat \ {0} /\ activeGeneration <= activeGeneration'
        /\ waiters' \in [Syntheses -> Nat]
    BY <1>1, <1>3
  <2>5. SlotsConserved'
    BY <1>3, <2>1, <2>2, <2>3, <2>4, SameHolders DEF VoiceInv, AdapterInv
  <2> QED BY <2>1, <2>5 DEF VoiceInv, AdapterInv
<1> QED BY <1>2, <1>3 DEF Continues, AskWorker, WorkerSettles

LEMMA TimeoutKeeps ==
  ASSUME VoiceInv, NEW s \in Syntheses, SynthesisTimeout(s)
  PROVE  VoiceInv'
<1>1. /\ Abort({s}) /\ activeGeneration' = activeGeneration /\ request' = Aborted({s})
      /\ UNCHANGED <<closed, state, child, readyPromise, startupTimer, sentTo, process, loading>>
  BY DEF SynthesisTimeout
<1>2. /\ Aborted({s}) \in [Requests -> Stages]
      /\ Bounded(Aborted({s})) /\ PendingAt(Aborted({s}), sentTo, child)
      /\ ReservedAt(Aborted({s}), readyPromise)
  BY AbortedFits DEF VoiceInv
<1>3. ClientInv' /\ ClientTypeOK'
  <2>1. ClientInv'
    BY <1>1, <1>2, OnlyRequests DEF VoiceInv
  <2> QED BY <2>1 DEF ClientInv
<1>4. activeGeneration \in Nat \ {0} /\ activeGeneration <= activeGeneration
  BY DEF VoiceInv, AdapterInv, SlotsConserved, TypeOK
<1>5. SlotsConserved'
  BY <1>1, <1>3, <1>4, AbortKeeps DEF VoiceInv, AdapterInv
<1> QED BY <1>3, <1>5 DEF VoiceInv, AdapterInv

LEMMA CancelKeeps ==
  ASSUME VoiceInv, CancelGeneration
  PROVE  VoiceInv'
<1> DEFINE S == {s \in Syntheses : generation[s] = activeGeneration}
<1>1. /\ activeGeneration \in DOMAIN CancelRequest /\ activeGeneration' = activeGeneration + 1
      /\ Abort(S) /\ Ask(Aborted(S), CancelRequest[activeGeneration])
  BY DEF CancelGeneration
<1>2. /\ Aborted(S) \in [Requests -> Stages]
      /\ Bounded(Aborted(S)) /\ PendingAt(Aborted(S), sentTo, child)
      /\ ReservedAt(Aborted(S), readyPromise)
  BY AbortedFits DEF VoiceInv
<1>3. CancelRequest[activeGeneration] \in Requests
  BY <1>1, LocalTtsAssumption, ClientAssumption
<1>4. ClientInv' /\ ClientTypeOK'
  <2>1. ClientInv'
    BY <1>1, <1>2, <1>3, AskKeeps DEF VoiceInv
  <2> QED BY <2>1 DEF ClientInv
<1>5. activeGeneration' \in Nat \ {0} /\ activeGeneration <= activeGeneration'
  BY <1>1 DEF VoiceInv, AdapterInv, SlotsConserved, TypeOK
<1>6. SlotsConserved'
  BY <1>1, <1>4, <1>5, AbortKeeps DEF VoiceInv, AdapterInv
<1> QED BY <1>4, <1>6 DEF VoiceInv, AdapterInv

(* The invariant is inductive.                                              *)
THEOREM VoiceIsInvariant == Spec => []VoiceInv
<1>1. VoiceInv /\ [Next]_vars => VoiceInv'
  <2> SUFFICES ASSUME VoiceInv, [Next]_vars PROVE VoiceInv'
    OBVIOUS
  <2>1. ASSUME NEW s \in Syntheses, Synthesize(s) PROVE VoiceInv'
    <3>1. SlotsConserved' /\ UNCHANGED clientVars
      BY <2>1, SynthesizeKeeps DEF Synthesize
    <3> QED BY <3>1, ClientKept DEF VoiceInv, AdapterInv
  <2>2. ASSUME NEW s \in Syntheses, Continues(s) PROVE VoiceInv'
    BY <2>2, ContinuesKeeps
  <2>3. ASSUME NEW s \in Syntheses, SynthesisTimeout(s) PROVE VoiceInv'
    BY <2>3, TimeoutKeeps
  <2>4. CASE CancelGeneration
    BY <2>4, CancelKeeps
  <2>5. CASE ClientStep /\ UNCHANGED adapterVars
    <3>1. ClientInv' /\ ClientTypeOK'
      <4>1. ClientInv'
        BY <2>5, StepKeeps DEF VoiceInv
      <4> QED BY <4>1 DEF ClientInv
    <3> QED BY <2>5, <3>1, AdapterKept DEF VoiceInv, AdapterInv
  <2>6. CASE UNCHANGED vars
    BY <2>6, VoiceKept
  <2> QED BY <2>1, <2>2, <2>3, <2>4, <2>5, <2>6 DEF Next
<1> QED BY VoiceInit, <1>1, PTL DEF Spec

(* Whatever workers do, and whenever requests are aborted: one worker runs  *)
(* at most, what was sent waits for that one, what is reserved waits for a  *)
(* start that a timer ends, and the queue is never longer than its limit.   *)
THEOREM OneWorkerRuns == Spec => []OneWorker
<1>1. VoiceInv => OneWorker
  BY ClientImplies DEF VoiceInv
<1> QED BY VoiceIsInvariant, <1>1, PTL

(* acquire and release lose no slot and give none twice, in whatever order  *)
(* calls end, time out and are cancelled.                                   *)
THEOREM SlotsNeverLost == Spec => []SlotsConserved
<1>1. VoiceInv => SlotsConserved
  BY DEF VoiceInv, AdapterInv
<1> QED BY VoiceIsInvariant, <1>1, PTL

(* A call is told "cancelled" exactly when its generation is over.          *)
THEOREM CancelledExactlyWhenStale == Spec => CancelledWhenStale
<1> DEFINE Told(s) == call'[s] # call[s] /\ call'[s] \in {"done", "cancelled"} =>
                        (call'[s] = "cancelled" <=> generation[s] < activeGeneration')
<1>1. VoiceInv /\ [Next]_vars => [\A s \in Syntheses : Told(s)]_vars
  <2> SUFFICES ASSUME VoiceInv, Next, NEW s \in Syntheses PROVE Told(s)
    BY Zenon
  <2>1. /\ call \in [Syntheses -> CallStages] /\ activeGeneration \in Nat
        /\ InLine = {w \in Syntheses : call[w] = "waiting"}
    BY DEF VoiceInv, AdapterInv, SlotsConserved, TypeOK, CallStages
  <2>2. ASSUME NEW t \in Syntheses, Synthesize(t) PROVE Told(s)
    BY <2>1, <2>2 DEF Synthesize
  <2>3. ASSUME NEW t \in Syntheses, Release(t), call[t] \in {"granted", "asking"},
               UNCHANGED <<activeGeneration, generation>>
        PROVE  Told(s)
    BY <2>1, <2>3 DEF Release, Outcome, IsCancelled
  <2>4. ASSUME NEW t \in Syntheses, Continues(t) PROVE Told(s)
    <3>1. CASE Release(t) /\ call[t] \in {"granted", "asking"} /\ UNCHANGED <<activeGeneration, generation>>
      BY <2>3, <3>1
    <3>2. CASE call' = [call EXCEPT ![t] = "asking"]
      BY <2>1, <3>2
    <3> QED BY <2>4, <3>1, <3>2 DEF Continues, AskWorker, WorkerSettles
  <2>5. ASSUME NEW S, Abort(S) PROVE Told(s)
    BY <2>1, <2>5 DEF Abort
  <2>6. CASE ClientStep /\ UNCHANGED adapterVars
    BY <2>6 DEF adapterVars
  <2> QED BY <2>2, <2>4, <2>5, <2>6 DEF Next, SynthesisTimeout, CancelGeneration
<1> QED BY VoiceIsInvariant, <1>1, PTL DEF Spec, CancelledWhenStale
-----------------------------------------------------------------------------
(* SpeechInput.  Its variables and constants are those of the module; its   *)
(* definitions have the prefix Stt.                                         *)
Pieces == [chunk : Chunks, gap : BOOLEAN]
StreamFields ==
  [opened : BOOLEAN, closed : BOOLEAN, starting : BOOLEAN, started : BOOLEAN, startFailed : BOOLEAN,
   inFlight : BOOLEAN, aborted : BOOLEAN, failures : 0..MaxFailures, pending : Seq(Pieces)]
Commands == [stream : Streams, op : {"start", "audio", "discard", "cancel"},
             batch : Seq(Chunks)]
Answers ==
  {a \in [request : Commands, kind : {"ok", "notStarted", "error", "cancelled"},
          utterance : Seq(Chunks)] : a.kind = "notStarted" => a.request.op = "audio"}

(* What must hold of the streams str, the promises W that wait, the queues  *)
(* inp, req and out, the sessions ss, the chunks fin reported and n         *)
(* captured, and the streams ab abandoned, whenever a handler goes on.      *)
Typed(str, W, inp, req, ss, out, fin, n, ab) ==
  /\ str \in [Streams -> StreamFields]
  /\ W \subseteq Commands /\ IsFiniteSet(W)
  /\ inp \in Seq(Commands) /\ req \in Seq(Commands) /\ out \in Seq(Answers)
  /\ DOMAIN ss \subseteq Streams /\ \A s \in DOMAIN ss : ss[s] \in Seq(Chunks)
  /\ fin \in Seq(Chunks) /\ n \in 0..MaxChunks /\ ab \subseteq Streams

(* The streams have been opened one after the other, the latest is last.    *)
OpenedOf(s, x, last) ==
  /\ x.opened <=> s <= last
  /\ x.closed => x.opened /\ x.aborted
  /\ s < last => x.closed
  /\ ~x.opened => x = NewStream
  /\ Len(x.pending) <= MaxBuffered
  /\ x.failures < MaxFailures \/ x.aborted

Opened(str) == \E last \in 0..MaxStreams : \A s \in Streams : OpenedOf(s, str[s], last)

(* What the flags of a stream say of the promises that wait.                *)
PromisesOf(s, x, W) ==
  /\ x.inFlight <=> \E r \in W : r.stream = s /\ r.op = "audio"
  /\ x.starting <=> \E r \in W : r.stream = s /\ r.op = "start"
  /\ \A r, q \in W : r.stream = s /\ q.stream = s /\ r.op = q.op /\ r.op # "discard" => r = q

Promises(str, W) ==
  /\ \A s \in Streams : PromisesOf(s, str[s], W)
  /\ \A r \in W : r.op # "cancel"

(* Chunks on their way: in sequences, and in sequences of sequences.        *)
Of(q) == {q[i] : i \in DOMAIN q}
All(qq) == UNION {Of(qq[i]) : i \in DOMAIN qq}
Below(A, B) == \A a \in A, b \in B : a < b
Increasing(q) == \A i, j \in DOMAIN q : i < j => q[i] < q[j]
Sorted(qq) ==
  /\ \A i \in DOMAIN qq : Increasing(qq[i])
  /\ \A i, j \in DOMAIN qq : i < j => Below(Of(qq[i]), Of(qq[j]))

Batches(q, s) == [i \in DOMAIN q |-> IF q[i].stream = s THEN q[i].batch ELSE <<>>]
Utterances(q, s) == [i \in DOMAIN q |-> IF q[i].request.stream = s THEN q[i].utterance ELSE <<>>]
Buffer(ss, s) == IF s \in DOMAIN ss THEN ss[s] ELSE <<>>
ChunksOf(p) == [i \in DOMAIN p |-> p[i].chunk]

Line(A, B, C, D, E, F) ==
  /\ Below(A, B) /\ Below(A, C) /\ Below(A, D) /\ Below(A, E) /\ Below(A, F)
  /\ Below(B, C) /\ Below(B, D) /\ Below(B, E) /\ Below(B, F)
  /\ Below(C, D) /\ Below(C, E) /\ Below(C, F)
  /\ Below(D, E) /\ Below(D, F)
  /\ Below(E, F)

(* What a stream has reported, its answers, its session in the worker, its  *)
(* commands there and before, and what waits in the adapter, in this order, *)
(* are the chunks in the order in which they were captured.                 *)
Flows(fin, out, buf, req, inp, pend, n) ==
  /\ Increasing(fin) /\ Sorted(out) /\ Increasing(buf) /\ Sorted(req) /\ Sorted(inp) /\ Increasing(pend)
  /\ Line(Of(fin), All(out), Of(buf), All(req), All(inp), Of(pend))
  /\ Of(fin) \union All(out) \union Of(buf) \union All(req) \union All(inp) \union Of(pend) \subseteq 1..n

FlowsOf(s, x, inp, req, ss, out, fin, n) ==
  Flows(fin, Utterances(out, s), Buffer(ss, s), Batches(req, s), Batches(inp, s), ChunksOf(x.pending), n)

InOrder(str, inp, req, ss, out, fin, n) ==
  /\ Increasing(fin) /\ Of(fin) \subseteq 1..n
  /\ \A s \in Streams :
       str[s].opened /\ ~str[s].aborted => FlowsOf(s, str[s], inp, req, ss, out, fin, n)

(* Nothing is known of a stream that was not opened yet.                    *)
NoTrace(s, W, inp, req, ss, out) ==
  /\ s \notin DOMAIN ss
  /\ \A r \in W \union Of(inp) \union Of(req) : r.stream # s
  /\ \A a \in Of(out) : a.request.stream # s

Untouched(str, W, inp, req, ss, out) ==
  \A s \in Streams : ~str[s].opened => NoTrace(s, W, inp, req, ss, out)

(* The command that ends stream s is in q, and no start of s after it.      *)
Starts(c, s) == c.stream = s /\ c.op = "start"
NoStart(q, s) == \A i \in DOMAIN q : ~Starts(q[i], s)
EndsIn(q, s) ==
  \E i \in DOMAIN q : /\ q[i].stream = s /\ q[i].op = "discard"
                      /\ \A j \in DOMAIN q : i < j => ~Starts(q[j], s)

EndOf(s, inp, req, ss) ==
  \/ EndsIn(inp, s)
  \/ NoStart(inp, s) /\ EndsIn(req, s)
  \/ NoStart(inp, s) /\ NoStart(req, s) /\ s \notin DOMAIN ss

Ends(str, inp, req, ss, ab) ==
  \A s \in Streams : str[s].closed /\ s \notin ab => EndOf(s, inp, req, ss)

Consistent(str, W, inp, req, ss, out, fin, n, ab) ==
  /\ Typed(str, W, inp, req, ss, out, fin, n, ab) /\ Opened(str) /\ Promises(str, W)
  /\ InOrder(str, inp, req, ss, out, fin, n) /\ Untouched(str, W, inp, req, ss, out)
  /\ Ends(str, inp, req, ss, ab)

SpeechInv ==
  /\ active \in BOOLEAN /\ crashes \in 0..MaxCrashes
  /\ cancelled \in Seq(Streams) /\ Len(cancelled) <= MaxCancelled
  /\ Consistent(stream, awaiting, stdin, requests, sessions, stdout, finals, captured, abandoned)
-----------------------------------------------------------------------------
(* Operators of the model: the largest of a set of numbers, the batch that  *)
(* is joined, a stream moved to the end of the registry.                    *)

LEMMA LargestIs ==
  ASSUME NEW n \in Nat, NEW S, S \subseteq 0..n, S # {}
  PROVE  Max(S) \in S /\ \A k \in S : k <= Max(S)
<1> DEFINE T == {k \in Nat : \A m \in S : m <= k}
<1>1. n \in T
  OBVIOUS
<1>2. PICK k \in T : \A m \in T : ~(<<m, k>> \in OpToRel(<, Nat))
  <2> HIDE DEF T
  <2>1. T \subseteq Nat /\ T # {}
    BY <1>1 DEF T
  <2> QED BY ONLY <2>1, NatLessThanWellFounded, WFMin
<1>3. \A m \in T : ~(m < k)
  BY <1>2 DEF OpToRel
<1>4. k \in S
  <2> SUFFICES ASSUME k \notin S PROVE FALSE
    OBVIOUS
  <2>1. \A m \in S : m < k
    OBVIOUS
  <2>2. k \in Nat /\ k # 0
    <3>1. PICK m \in S : TRUE
      OBVIOUS
    <3> QED BY <2>1, <3>1
  <2>3. k - 1 \in T
    BY <2>1, <2>2
  <2> QED BY <1>3, <2>2, <2>3
<1>5. k \in S /\ \A m \in S : k >= m
  BY <1>4
<1> HIDE DEF T
<1>6. Max(S) \in S /\ \A m \in S : Max(S) >= m
  BY ONLY <1>5, Zenon DEF Max
<1> QED BY <1>6

LEMMA SmallestIs ==
  ASSUME NEW S, S \subseteq Nat, S # {}
  PROVE  Min(S) \in S
<1>1. PICK k \in S : \A m \in S : ~(<<m, k>> \in OpToRel(<, Nat))
  BY ONLY S \subseteq Nat, S # {}, NatLessThanWellFounded, WFMin
<1>2. \A m \in S : ~(m < k)
  BY <1>1 DEF OpToRel
<1>3. k \in S /\ \A m \in S : k <= m
  BY <1>2
<1> QED BY ONLY <1>3, Zenon DEF Min

LEMMA LargestOfTwo ==
  ASSUME NEW k \in Int
  PROVE  Max({0, k}) = IF k >= 0 THEN k ELSE 0
BY DEF Max

LEMMA BatchIsPart ==
  ASSUME SpeechAssumption, NEW S, NEW q \in Seq(S), q # <<>>
  PROVE  BatchLength(q) \in 1..Len(q)
<1>1. Len(q) \in Nat /\ Len(q) >= 1
  BY EmptySeq
<1> DEFINE Fits(m) == m <= MaxBatch /\ \A i \in 2..m : ~q[i].gap
           F == {m \in 1..Len(q) : m = 1 \/ Fits(m)}
<1>2. 1 \in F /\ F \subseteq 1..Len(q)
  BY <1>1
<1>3. F # {} /\ F \subseteq 0..Len(q)
  BY <1>2
<1>4. BatchLength(q) = Max(F)
  BY DEF BatchLength
<1> HIDE DEF F
<1> QED BY <1>1, <1>2, <1>3, <1>4, LargestIs

LEMMA RememberTyped ==
  ASSUME SpeechAssumption, NEW s \in Streams, cancelled \in Seq(Streams)
  PROVE  Remember(s) \in Seq(Streams) /\ Len(Remember(s)) <= MaxCancelled
<1> DEFINE others == RemoveFirst(cancelled, s)
           k == Max({0, Len(others) + 1 - MaxCancelled})
           kept == SubSeq(others, 1 + k, Len(others))
<1>0. MaxCancelled \in Nat /\ MaxCancelled >= 1
  BY DEF SpeechAssumption
<1>1. others \in Seq(Streams)
  <2>1. CASE \E i \in 1..Len(cancelled) : cancelled[i] = s
    <3> DEFINE I == {i \in 1..Len(cancelled) : cancelled[i] = s}
    <3>1. Min(I) \in I
      <4>1. I \subseteq Nat /\ I # {}
        BY <2>1
      <4> HIDE DEF I
      <4> QED BY <4>1, SmallestIs
    <3> DEFINE at == Min(I)
    <3>2. others = SubSeq(cancelled, 1, at - 1) \o SubSeq(cancelled, at + 1, Len(cancelled))
      BY <2>1 DEF RemoveFirst, RemoveAt, SelectInSeq
    <3>3. at \in 1..Len(cancelled)
      BY <3>1
    <3> HIDE DEF at
    <3> QED BY <3>2, <3>3
  <2>2. CASE ~\E i \in 1..Len(cancelled) : cancelled[i] = s
    BY <2>2 DEF RemoveFirst
  <2> QED BY <2>1, <2>2
<1>2. Remember(s) = Append(kept, s)
  BY DEF Remember
<1> HIDE DEF others
<1>3. Len(others) \in Nat
  BY <1>1
<1>4. k = IF Len(others) + 1 - MaxCancelled >= 0 THEN Len(others) + 1 - MaxCancelled ELSE 0
  BY <1>0, <1>3, LargestOfTwo
<1>5. k \in Nat /\ k <= Len(others) /\ Len(others) - k <= MaxCancelled - 1
  BY <1>0, <1>3, <1>4
<1> HIDE DEF k
<1>6. kept \in Seq(Streams) /\ Len(kept) = Len(others) - k
  BY <1>1, <1>3, <1>5, SubSeqProperties
<1> HIDE DEF kept
<1> QED BY <1>0, <1>2, <1>3, <1>5, <1>6, AppendProperties

LEMMA SetInSequence ==
  ASSUME NEW S, IsFiniteSet(S)
  PROVE  /\ Cardinality(S) \in Nat
         /\ SetToSeq(S) \in [1..Cardinality(S) -> S]
<1>1. PICK n \in Nat : \E f : f \in Bijection(1..n, S)
  BY FS_NatBijection DEF ExistsBijection
<1>2. PICK f : f \in Bijection(1..n, S)
  BY <1>1
<1>3. Cardinality(S) = n
  BY <1>1, FS_CountingElements DEF ExistsBijection
<1>4. f \in [1..Cardinality(S) -> S] /\ IsInjective(f)
  BY <1>2, <1>3 DEF Bijection, Injection, IsInjective
<1>5. SetToSeq(S) \in [1..Cardinality(S) -> S]
  BY ONLY <1>4, Zenon DEF SetToSeq
<1> QED BY <1>3, <1>5
-----------------------------------------------------------------------------
(* Sequences of chunks, in order.                                           *)

LEMMA OfParts ==
  ASSUME NEW S, NEW p \in Seq(S)
  PROVE  /\ Of(p) \subseteq S
         /\ \A q \in Seq(S) : Of(p \o q) = Of(p) \union Of(q)
         /\ \A e \in S : Of(Append(p, e)) = Of(p) \union {e}
         /\ p # <<>> => Head(p) \in Of(p) /\ Of(Tail(p)) \subseteq Of(p)
<1>1. Of(p) \subseteq S
  BY DEF Of
<1>2. ASSUME NEW q \in Seq(S) PROVE Of(p \o q) = Of(p) \union Of(q)
  <2>1. \A i \in 1..Len(p) : (p \o q)[i] = p[i] /\ i \in 1..Len(p \o q)
    OBVIOUS
  <2>2. \A i \in 1..Len(q) : (p \o q)[Len(p) + i] = q[i] /\ Len(p) + i \in 1..Len(p \o q)
    OBVIOUS
  <2> DEFINE pq == p \o q
  <2>0. DOMAIN p = 1..Len(p) /\ DOMAIN q = 1..Len(q) /\ DOMAIN pq = 1..Len(pq)
    OBVIOUS
  <2>3. Of(p) \union Of(q) \subseteq Of(p \o q)
    <3> HIDE DEF pq
    <3>1. \A i \in DOMAIN p : p[i] = pq[i] /\ i \in DOMAIN pq
      BY <2>0, <2>1 DEF pq
    <3>2. \A i \in DOMAIN q : q[i] = pq[Len(p) + i] /\ Len(p) + i \in DOMAIN pq
      BY <2>0, <2>2 DEF pq
    <3>3. \A i \in DOMAIN q : q[i] \in Of(pq)
      BY <3>2, Zenon DEF Of
    <3> QED BY <3>1, <3>3 DEF Of, pq
  <2>4. ASSUME NEW i \in 1..Len(p \o q) PROVE (p \o q)[i] \in Of(p) \union Of(q)
    <3>1. CASE i <= Len(p)
      BY <3>1 DEF Of
    <3>2. CASE i > Len(p)
      <4>1. i - Len(p) \in DOMAIN q /\ (p \o q)[i] = q[i - Len(p)]
        BY <3>2
      <4> QED BY <4>1 DEF Of
    <3> QED BY <3>1, <3>2
  <2>5. Of(p \o q) \subseteq Of(p) \union Of(q)
    BY <2>4 DEF Of
  <2> QED BY <2>3, <2>5
<1>3. ASSUME NEW e \in S PROVE Of(Append(p, e)) = Of(p) \union {e}
  <2>1. \A i \in 1..Len(p) : Append(p, e)[i] = p[i]
    OBVIOUS
  <2>2. DOMAIN Append(p, e) = 1..Len(p) \union {Len(p) + 1} /\ Append(p, e)[Len(p) + 1] = e
    OBVIOUS
  <2>3. DOMAIN p = 1..Len(p)
    OBVIOUS
  <2> DEFINE new == Append(p, e)
  <2>4. /\ \A i \in DOMAIN p : p[i] = new[i] /\ i \in DOMAIN new
        /\ \A i \in DOMAIN new : new[i] = e \/ (i \in DOMAIN p /\ new[i] = p[i])
        /\ Len(p) + 1 \in DOMAIN new /\ new[Len(p) + 1] = e
    BY <2>1, <2>2, <2>3
  <2> HIDE DEF new
  <2>5. e \in Of(new) /\ Of(p) \subseteq Of(new) /\ Of(new) \subseteq Of(p) \union {e}
    BY <2>4 DEF Of
  <2> QED BY <2>5 DEF new
<1>4. ASSUME p # <<>> PROVE Head(p) \in Of(p) /\ Of(Tail(p)) \subseteq Of(p)
  <2>1. 1 \in DOMAIN p /\ Head(p) = p[1]
    BY <1>4
  <2>2. \A i \in DOMAIN Tail(p) : i + 1 \in DOMAIN p /\ Tail(p)[i] = p[i + 1]
    BY <1>4
  <2> QED BY <2>1, <2>2 DEF Of
<1> QED BY <1>1, <1>2, <1>3, <1>4

LEMMA OfPart ==
  ASSUME NEW S, NEW p \in Seq(S), NEW m \in 1..(Len(p) + 1), NEW n \in 0..Len(p)
  PROVE  /\ SubSeq(p, m, n) \in Seq(S) /\ Of(SubSeq(p, m, n)) \subseteq Of(p)
         /\ Len(SubSeq(p, m, n)) = IF m <= n THEN n - m + 1 ELSE 0
         /\ \A i \in DOMAIN SubSeq(p, m, n) : m + i - 1 \in m..n /\ SubSeq(p, m, n)[i] = p[m + i - 1]
<1>1. \A i \in m..n : p[i] \in S
  OBVIOUS
<1>2. /\ SubSeq(p, m, n) \in Seq(S)
      /\ Len(SubSeq(p, m, n)) = IF m <= n THEN n - m + 1 ELSE 0
      /\ \A i \in 1..(n - m + 1) : SubSeq(p, m, n)[i] = p[m + i - 1]
  BY <1>1, SubSeqProperties
<1>3. \A i \in DOMAIN SubSeq(p, m, n) : m + i - 1 \in m..n /\ SubSeq(p, m, n)[i] = p[m + i - 1]
  BY <1>2
<1>4. \A i \in DOMAIN SubSeq(p, m, n) : SubSeq(p, m, n)[i] = p[m + i - 1] /\ m + i - 1 \in DOMAIN p
  BY <1>3
<1> QED BY <1>2, <1>3, <1>4 DEF Of

LEMMA IncreasingPart ==
  ASSUME NEW p \in Seq(Nat), Increasing(p), NEW m \in 1..(Len(p) + 1), NEW n \in 0..Len(p)
  PROVE  Increasing(SubSeq(p, m, n))
<1>1. \A i \in DOMAIN SubSeq(p, m, n) : m + i - 1 \in DOMAIN p /\ SubSeq(p, m, n)[i] = p[m + i - 1]
  BY OfPart, SMTT(30)
<1>2. DOMAIN SubSeq(p, m, n) \subseteq Nat
  BY OfPart
<1> QED BY <1>1, <1>2 DEF Increasing

LEMMA IncreasingJoin ==
  ASSUME NEW p \in Seq(Nat), NEW q \in Seq(Nat), Increasing(p), Increasing(q), Below(Of(p), Of(q))
  PROVE  Increasing(p \o q)
<1> SUFFICES ASSUME NEW i \in DOMAIN (p \o q), NEW j \in DOMAIN (p \o q), i < j
             PROVE  (p \o q)[i] < (p \o q)[j]
  BY DEF Increasing
<1>1. CASE j <= Len(p)
  BY <1>1 DEF Increasing
<1>2. CASE i > Len(p)
  <2>1. i - Len(p) \in DOMAIN q /\ j - Len(p) \in DOMAIN q /\ i - Len(p) < j - Len(p)
    BY <1>2
  <2>2. (p \o q)[i] = q[i - Len(p)] /\ (p \o q)[j] = q[j - Len(p)]
    BY <1>2
  <2> QED BY <2>1, <2>2 DEF Increasing
<1>3. CASE i <= Len(p) /\ j > Len(p)
  <2>1. i \in DOMAIN p /\ j - Len(p) \in DOMAIN q
    BY <1>3
  <2>2. (p \o q)[i] = p[i] /\ (p \o q)[j] = q[j - Len(p)]
    BY <1>3
  <2> QED BY <2>1, <2>2 DEF Below, Of
<1> QED BY <1>1, <1>2, <1>3

LEMMA IncreasingCut ==
  ASSUME NEW p \in Seq(Nat), Increasing(p), NEW k \in 0..Len(p)
  PROVE  Below(Of(SubSeq(p, 1, k)), Of(SubSeq(p, k + 1, Len(p))))
<1> DEFINE front == SubSeq(p, 1, k)
           back == SubSeq(p, k + 1, Len(p))
<1>1. \A i \in DOMAIN front : i \in 1..k /\ front[i] = p[i]
  <2>1. \A i \in DOMAIN front : 1 + i - 1 \in 1..k /\ front[i] = p[1 + i - 1]
    BY OfPart
  <2>2. DOMAIN front \subseteq Int
    BY OfPart
  <2> QED BY <2>1, <2>2
<1>2. \A i \in DOMAIN back : k + 1 + i - 1 \in (k + 1)..Len(p) /\ back[i] = p[k + 1 + i - 1]
  BY OfPart, SMTT(30)
<1> HIDE DEF front, back
<1>3. ASSUME NEW i \in DOMAIN front, NEW j \in DOMAIN back PROVE front[i] < back[j]
  BY <1>1, <1>2 DEF Increasing
<1> QED BY <1>3 DEF Of, Below, front, back

LEMMA SortedAppend ==
  ASSUME NEW qq \in Seq(Seq(Nat)), NEW q \in Seq(Nat),
         Sorted(qq), Increasing(q), Below(All(qq), Of(q))
  PROVE  Sorted(Append(qq, q))
<1> DEFINE new == Append(qq, q)
<1>1. /\ DOMAIN new = 1..(Len(qq) + 1) /\ DOMAIN qq = 1..Len(qq) /\ Len(qq) \in Nat
      /\ \A i \in DOMAIN qq : new[i] = qq[i]
      /\ new[Len(qq) + 1] = q
  OBVIOUS
<1>2. \A i \in DOMAIN qq : Below(Of(qq[i]), Of(q))
  BY DEF Below, All
<1> HIDE DEF new
<1>3. \A i \in DOMAIN new : Increasing(new[i])
  <2> TAKE i \in DOMAIN new
  <2>1. CASE i \in DOMAIN qq
    <3>1. new[i] = qq[i] /\ Increasing(qq[i])
      BY <1>1, <2>1 DEF Sorted
    <3> QED BY <3>1, Zenon
  <2>2. CASE i = Len(qq) + 1
    BY <1>1, <2>2, Zenon
  <2> QED BY <1>1, <2>1, <2>2
<1>4. ASSUME NEW i \in DOMAIN new, NEW j \in DOMAIN new, i < j PROVE Below(Of(new[i]), Of(new[j]))
  <2>1. CASE j \in DOMAIN qq
    <3>1. i \in DOMAIN qq
      BY <1>1, <1>4, <2>1
    <3>2. new[i] = qq[i] /\ new[j] = qq[j] /\ Below(Of(qq[i]), Of(qq[j]))
      BY <1>1, <1>4, <2>1, <3>1 DEF Sorted
    <3> QED BY <3>2, Zenon
  <2>2. CASE j = Len(qq) + 1
    <3>1. i \in DOMAIN qq
      BY <1>1, <1>4, <2>2
    <3>2. new[i] = qq[i] /\ new[j] = q
      BY <1>1, <2>2, <3>1
    <3> QED BY <1>2, <3>1, <3>2, Zenon
  <2>3. j \in DOMAIN qq \/ j = Len(qq) + 1
    BY <1>1, SMTT(30)
  <2> QED BY <2>1, <2>2, <2>3, Zenon
<1> QED BY <1>3, <1>4 DEF Sorted, new

LEMMA AllAppend ==
  ASSUME NEW qq \in Seq(Seq(Nat)), NEW q \in Seq(Nat)
  PROVE  All(Append(qq, q)) = All(qq) \union Of(q)
<1>1. /\ DOMAIN Append(qq, q) = DOMAIN qq \union {Len(qq) + 1}
      /\ \A i \in DOMAIN qq : Append(qq, q)[i] = qq[i]
      /\ Append(qq, q)[Len(qq) + 1] = q
  OBVIOUS
<1> QED BY <1>1 DEF All

LEMMA SortedTail ==
  ASSUME NEW qq \in Seq(Seq(Nat)), Sorted(qq), qq # <<>>
  PROVE  /\ Sorted(Tail(qq)) /\ Increasing(Head(qq)) /\ Below(Of(Head(qq)), All(Tail(qq)))
         /\ Of(Head(qq)) \subseteq All(qq) /\ All(Tail(qq)) \subseteq All(qq)
<1>1. /\ 1 \in DOMAIN qq /\ Head(qq) = qq[1]
      /\ \A i \in DOMAIN Tail(qq) : i + 1 \in DOMAIN qq /\ Tail(qq)[i] = qq[i + 1] /\ i >= 1
      /\ DOMAIN Tail(qq) \subseteq Nat
  OBVIOUS
<1>2. Of(Head(qq)) \subseteq All(qq) /\ All(Tail(qq)) \subseteq All(qq)
  BY <1>1 DEF All
<1>3. Increasing(Head(qq))
  BY <1>1 DEF Sorted
<1>4. \A i \in DOMAIN Tail(qq) : Below(Of(qq[1]), Of(Tail(qq)[i]))
  <2> TAKE i \in DOMAIN Tail(qq)
  <2>1. 1 < i + 1
    BY <1>1
  <2> QED BY <1>1, <2>1 DEF Sorted
<1>5. Below(Of(Head(qq)), All(Tail(qq)))
  BY <1>1, <1>4 DEF Below, All
<1>6. \A i \in DOMAIN Tail(qq) : Increasing(Tail(qq)[i])
  BY <1>1 DEF Sorted
<1>7. ASSUME NEW i \in DOMAIN Tail(qq), NEW j \in DOMAIN Tail(qq), i < j
      PROVE  Below(Of(Tail(qq)[i]), Of(Tail(qq)[j]))
  <2>1. i + 1 < j + 1
    BY <1>1, <1>7
  <2> QED BY <1>1, <2>1 DEF Sorted
<1> QED BY <1>2, <1>3, <1>5, <1>6, <1>7 DEF Sorted
-----------------------------------------------------------------------------
(* Chunks move along the line, or are dropped, and stay in order.           *)

FlowTyped(fin, out, buf, req, inp, pend) ==
  /\ fin \in Seq(Nat) /\ buf \in Seq(Nat) /\ pend \in Seq(Nat)
  /\ out \in Seq(Seq(Nat)) /\ req \in Seq(Seq(Nat)) /\ inp \in Seq(Seq(Nat))

LEMMA FlowsLess ==
  ASSUME NEW fin, NEW out, NEW buf, NEW req, NEW inp, NEW pend, NEW n \in Nat,
         NEW fin1, NEW out1, NEW buf1, NEW req1, NEW inp1, NEW pend1, NEW m \in Nat,
         Flows(fin, out, buf, req, inp, pend, n), n <= m,
         Increasing(fin1), Sorted(out1), Increasing(buf1), Sorted(req1), Sorted(inp1), Increasing(pend1),
         Of(fin1) \subseteq Of(fin), All(out1) \subseteq All(out), Of(buf1) \subseteq Of(buf),
         All(req1) \subseteq All(req), All(inp1) \subseteq All(inp), Of(pend1) \subseteq Of(pend)
  PROVE  Flows(fin1, out1, buf1, req1, inp1, pend1, m)
<1>1. Line(Of(fin), All(out), Of(buf), All(req), All(inp), Of(pend))
  BY DEF Flows
<1>2. Line(Of(fin1), All(out1), Of(buf1), All(req1), All(inp1), Of(pend1))
  BY <1>1 DEF Line, Below
<1>3. Of(fin) \union All(out) \union Of(buf) \union All(req) \union All(inp) \union Of(pend) \subseteq 1..n
  BY DEF Flows
<1>4. Of(fin1) \union All(out1) \union Of(buf1) \union All(req1) \union All(inp1) \union Of(pend1)
        \subseteq 1..m
  BY <1>3
<1> QED BY <1>2, <1>4 DEF Flows

LEMMA EmptyFlows ==
  Increasing(<<>>) /\ Sorted(<<>>) /\ Of(<<>>) = {} /\ All(<<>>) = {}
BY DEF Increasing, Sorted, Of, All

LEMMA FlowsAnswered ==
  ASSUME NEW fin, NEW out, NEW buf, NEW req, NEW inp, NEW pend, NEW n \in Nat,
         FlowTyped(fin, out, buf, req, inp, pend), Flows(fin, out, buf, req, inp, pend, n), out # <<>>
  PROVE  /\ Flows(fin \o Head(out), Tail(out), buf, req, inp, pend, n)
         /\ Flows(fin, Tail(out), buf, req, inp, pend, n)
<1>1. /\ Increasing(fin) /\ Sorted(out) /\ Increasing(buf) /\ Sorted(req) /\ Sorted(inp) /\ Increasing(pend)
      /\ Line(Of(fin), All(out), Of(buf), All(req), All(inp), Of(pend))
      /\ Of(fin) \union All(out) \union Of(buf) \union All(req) \union All(inp) \union Of(pend) \subseteq 1..n
  BY DEF Flows
<1>2. Head(out) \in Seq(Nat) /\ out \in Seq(Seq(Nat)) /\ fin \in Seq(Nat)
  BY DEF FlowTyped
<1>3. /\ Sorted(Tail(out)) /\ Increasing(Head(out)) /\ Below(Of(Head(out)), All(Tail(out)))
      /\ Of(Head(out)) \subseteq All(out) /\ All(Tail(out)) \subseteq All(out)
  BY <1>1, <1>2, SortedTail
<1>4. Of(fin \o Head(out)) = Of(fin) \union Of(Head(out))
  BY <1>2, OfParts
<1>5. Increasing(fin \o Head(out))
  <2>1. Below(Of(fin), Of(Head(out)))
    BY <1>1, <1>3 DEF Line, Below
  <2> QED BY <1>1, <1>2, <1>3, <2>1, IncreasingJoin
<1>6. Line(Of(fin \o Head(out)), All(Tail(out)), Of(buf), All(req), All(inp), Of(pend))
  BY <1>1, <1>3, <1>4 DEF Line, Below
<1>7. Of(fin \o Head(out)) \union All(Tail(out)) \union Of(buf) \union All(req) \union All(inp)
        \union Of(pend) \subseteq 1..n
  BY <1>1, <1>3, <1>4
<1>8. Flows(fin \o Head(out), Tail(out), buf, req, inp, pend, n)
  BY <1>1, <1>3, <1>5, <1>6, <1>7 DEF Flows
<1>9. Flows(fin, Tail(out), buf, req, inp, pend, n)
  BY <1>1, <1>3, FlowsLess
<1> QED BY <1>8, <1>9

LEMMA FlowsJoined ==
  ASSUME NEW fin, NEW out, NEW buf, NEW req, NEW inp, NEW pend, NEW n \in Nat,
         FlowTyped(fin, out, buf, req, inp, pend), Flows(fin, out, buf, req, inp, pend, n), req # <<>>
  PROVE  /\ Flows(fin, out, buf \o Head(req), Tail(req), inp, pend, n)
         /\ Flows(fin, out, buf, Tail(req), inp, pend, n)
<1>1. /\ Increasing(fin) /\ Sorted(out) /\ Increasing(buf) /\ Sorted(req) /\ Sorted(inp) /\ Increasing(pend)
      /\ Line(Of(fin), All(out), Of(buf), All(req), All(inp), Of(pend))
      /\ Of(fin) \union All(out) \union Of(buf) \union All(req) \union All(inp) \union Of(pend) \subseteq 1..n
  BY DEF Flows
<1>2. Head(req) \in Seq(Nat) /\ req \in Seq(Seq(Nat)) /\ buf \in Seq(Nat)
  BY DEF FlowTyped
<1>3. /\ Sorted(Tail(req)) /\ Increasing(Head(req)) /\ Below(Of(Head(req)), All(Tail(req)))
      /\ Of(Head(req)) \subseteq All(req) /\ All(Tail(req)) \subseteq All(req)
  BY <1>1, <1>2, SortedTail
<1>4. Of(buf \o Head(req)) = Of(buf) \union Of(Head(req))
  BY <1>2, OfParts
<1>5. Increasing(buf \o Head(req))
  <2>1. Below(Of(buf), Of(Head(req)))
    BY <1>1, <1>3 DEF Line, Below
  <2> QED BY <1>1, <1>2, <1>3, <2>1, IncreasingJoin
<1>6. Line(Of(fin), All(out), Of(buf \o Head(req)), All(Tail(req)), All(inp), Of(pend))
  BY <1>1, <1>3, <1>4 DEF Line, Below
<1>7. Of(fin) \union All(out) \union Of(buf \o Head(req)) \union All(Tail(req)) \union All(inp)
        \union Of(pend) \subseteq 1..n
  BY <1>1, <1>3, <1>4
<1>8. Flows(fin, out, buf \o Head(req), Tail(req), inp, pend, n)
  BY <1>1, <1>3, <1>5, <1>6, <1>7 DEF Flows
<1>9. Flows(fin, out, buf, Tail(req), inp, pend, n)
  BY <1>1, <1>3, FlowsLess
<1> QED BY <1>8, <1>9

LEMMA FlowsCut ==
  ASSUME NEW fin, NEW out, NEW buf, NEW req, NEW inp, NEW pend, NEW n \in Nat,
         FlowTyped(fin, out, buf, req, inp, pend), Flows(fin, out, buf, req, inp, pend, n),
         NEW k \in 0..Len(buf), NEW e \in 0..Len(buf)
  PROVE  /\ Flows(fin, Append(out, SubSeq(buf, 1, k)), SubSeq(buf, k + 1, Len(buf)), req, inp, pend, n)
         /\ Flows(fin, Append(out, <<>>), SubSeq(buf, k + 1, e), req, inp, pend, n)
         /\ Flows(fin, Append(out, <<>>), <<>>, req, inp, pend, n)
         /\ Flows(fin, Append(out, <<>>), buf, req, inp, pend, n)
<1> DEFINE u == SubSeq(buf, 1, k)
           rest == SubSeq(buf, k + 1, Len(buf))
           part == SubSeq(buf, k + 1, e)
<1>1. /\ Increasing(fin) /\ Sorted(out) /\ Increasing(buf) /\ Sorted(req) /\ Sorted(inp) /\ Increasing(pend)
      /\ Line(Of(fin), All(out), Of(buf), All(req), All(inp), Of(pend))
      /\ Of(fin) \union All(out) \union Of(buf) \union All(req) \union All(inp) \union Of(pend) \subseteq 1..n
  BY DEF Flows
<1>2. out \in Seq(Seq(Nat)) /\ buf \in Seq(Nat) /\ Len(buf) \in Nat /\ <<>> \in Seq(Nat)
  BY DEF FlowTyped
<1>3. /\ u \in Seq(Nat) /\ Of(u) \subseteq Of(buf) /\ Increasing(u)
      /\ rest \in Seq(Nat) /\ Of(rest) \subseteq Of(buf) /\ Increasing(rest)
      /\ part \in Seq(Nat) /\ Of(part) \subseteq Of(buf) /\ Increasing(part)
  <2>1. 1 \in 1..(Len(buf) + 1) /\ k + 1 \in 1..(Len(buf) + 1) /\ Len(buf) \in 0..Len(buf)
    BY <1>2
  <2> QED BY <1>1, <1>2, <2>1, OfPart, IncreasingPart
<1>4. Below(Of(u), Of(rest))
  BY <1>1, <1>2, IncreasingCut
<1> HIDE DEF u, rest, part
<1>5. All(Append(out, u)) = All(out) \union Of(u) /\ All(Append(out, <<>>)) = All(out)
  <2>1. All(Append(out, u)) = All(out) \union Of(u)
    BY <1>2, <1>3, AllAppend
  <2>2. All(Append(out, <<>>)) = All(out) \union Of(<<>>) /\ Of(<<>>) = {}
    BY <1>2, AllAppend, EmptyFlows
  <2> QED BY <2>1, <2>2
<1>6. Sorted(Append(out, u)) /\ Sorted(Append(out, <<>>))
  <2>1. Below(All(out), Of(u)) /\ Below(All(out), Of(<<>>))
    BY <1>1, <1>3, EmptyFlows DEF Line, Below
  <2> QED BY <1>1, <1>2, <1>3, <2>1, SortedAppend, EmptyFlows
<1>7. Line(Of(fin), All(Append(out, u)), Of(rest), All(req), All(inp), Of(pend))
  BY <1>1, <1>3, <1>4, <1>5 DEF Line, Below
<1>8. Of(fin) \union All(Append(out, u)) \union Of(rest) \union All(req) \union All(inp)
        \union Of(pend) \subseteq 1..n
  BY <1>1, <1>3, <1>5
<1>9. Flows(fin, Append(out, u), rest, req, inp, pend, n)
  BY <1>1, <1>3, <1>6, <1>7, <1>8 DEF Flows
<1>10. Flows(fin, Append(out, <<>>), part, req, inp, pend, n)
  <2>1. Line(Of(fin), All(Append(out, <<>>)), Of(part), All(req), All(inp), Of(pend))
    BY <1>1, <1>3, <1>5 DEF Line, Below
  <2>2. Of(fin) \union All(Append(out, <<>>)) \union Of(part) \union All(req) \union All(inp)
          \union Of(pend) \subseteq 1..n
    BY <1>1, <1>3, <1>5
  <2> QED BY <1>1, <1>3, <1>6, <2>1, <2>2 DEF Flows
<1>11. Flows(fin, Append(out, <<>>), <<>>, req, inp, pend, n)
  BY <1>1, <1>5, <1>6, EmptyFlows, FlowsLess
<1>12. Flows(fin, Append(out, <<>>), buf, req, inp, pend, n)
  BY <1>1, <1>5, <1>6, FlowsLess
<1> QED BY <1>9, <1>10, <1>11, <1>12 DEF u, rest, part

LEMMA FlowsRead ==
  ASSUME NEW fin, NEW out, NEW buf, NEW req, NEW inp, NEW pend, NEW n \in Nat,
         FlowTyped(fin, out, buf, req, inp, pend), Flows(fin, out, buf, req, inp, pend, n), inp # <<>>
  PROVE  /\ Flows(fin, out, buf, Append(req, Head(inp)), Tail(inp), pend, n)
         /\ Flows(fin, out, buf, req, Tail(inp), pend, n)
<1>1. /\ Increasing(fin) /\ Sorted(out) /\ Increasing(buf) /\ Sorted(req) /\ Sorted(inp) /\ Increasing(pend)
      /\ Line(Of(fin), All(out), Of(buf), All(req), All(inp), Of(pend))
      /\ Of(fin) \union All(out) \union Of(buf) \union All(req) \union All(inp) \union Of(pend) \subseteq 1..n
  BY DEF Flows
<1>2. Head(inp) \in Seq(Nat) /\ inp \in Seq(Seq(Nat)) /\ req \in Seq(Seq(Nat))
  BY DEF FlowTyped
<1>3. /\ Sorted(Tail(inp)) /\ Increasing(Head(inp)) /\ Below(Of(Head(inp)), All(Tail(inp)))
      /\ Of(Head(inp)) \subseteq All(inp) /\ All(Tail(inp)) \subseteq All(inp)
  BY <1>1, <1>2, SortedTail
<1>4. All(Append(req, Head(inp))) = All(req) \union Of(Head(inp))
  BY <1>2, AllAppend
<1>5. Sorted(Append(req, Head(inp)))
  <2>1. Below(All(req), Of(Head(inp)))
    BY <1>1, <1>3 DEF Line, Below
  <2> QED BY <1>1, <1>2, <1>3, <2>1, SortedAppend
<1>6. Line(Of(fin), All(out), Of(buf), All(Append(req, Head(inp))), All(Tail(inp)), Of(pend))
  BY <1>1, <1>3, <1>4 DEF Line, Below
<1>7. Of(fin) \union All(out) \union Of(buf) \union All(Append(req, Head(inp))) \union All(Tail(inp))
        \union Of(pend) \subseteq 1..n
  BY <1>1, <1>3, <1>4
<1>8. Flows(fin, out, buf, Append(req, Head(inp)), Tail(inp), pend, n)
  BY <1>1, <1>3, <1>5, <1>6, <1>7 DEF Flows
<1>9. Flows(fin, out, buf, req, Tail(inp), pend, n)
  BY <1>1, <1>3, FlowsLess
<1> QED BY <1>8, <1>9

LEMMA FlowsPumped ==
  ASSUME NEW fin, NEW out, NEW buf, NEW req, NEW inp, NEW pend, NEW n \in Nat,
         FlowTyped(fin, out, buf, req, inp, pend), Flows(fin, out, buf, req, inp, pend, n),
         NEW k \in 0..Len(pend)
  PROVE  /\ Flows(fin, out, buf, req, Append(inp, SubSeq(pend, 1, k)), SubSeq(pend, k + 1, Len(pend)), n)
         /\ Flows(fin, out, buf, req, inp, SubSeq(pend, k + 1, Len(pend)), n)
         /\ Flows(fin, out, buf, req, Append(inp, <<>>), pend, n)
<1> DEFINE u == SubSeq(pend, 1, k)
           rest == SubSeq(pend, k + 1, Len(pend))
<1>1. /\ Increasing(fin) /\ Sorted(out) /\ Increasing(buf) /\ Sorted(req) /\ Sorted(inp) /\ Increasing(pend)
      /\ Line(Of(fin), All(out), Of(buf), All(req), All(inp), Of(pend))
      /\ Of(fin) \union All(out) \union Of(buf) \union All(req) \union All(inp) \union Of(pend) \subseteq 1..n
  BY DEF Flows
<1>2. inp \in Seq(Seq(Nat)) /\ pend \in Seq(Nat) /\ Len(pend) \in Nat /\ <<>> \in Seq(Nat)
  BY DEF FlowTyped
<1>3. /\ u \in Seq(Nat) /\ Of(u) \subseteq Of(pend) /\ Increasing(u)
      /\ rest \in Seq(Nat) /\ Of(rest) \subseteq Of(pend) /\ Increasing(rest)
  <2>1. 1 \in 1..(Len(pend) + 1) /\ k + 1 \in 1..(Len(pend) + 1) /\ Len(pend) \in 0..Len(pend)
    BY <1>2
  <2> QED BY <1>1, <1>2, <2>1, OfPart, IncreasingPart
<1>4. Below(Of(u), Of(rest))
  BY <1>1, <1>2, IncreasingCut
<1> HIDE DEF u, rest
<1>5. All(Append(inp, u)) = All(inp) \union Of(u) /\ All(Append(inp, <<>>)) = All(inp)
  BY <1>2, <1>3, AllAppend, EmptyFlows
<1>6. Sorted(Append(inp, u)) /\ Sorted(Append(inp, <<>>))
  <2>1. Below(All(inp), Of(u)) /\ Below(All(inp), Of(<<>>))
    BY <1>1, <1>3, EmptyFlows DEF Line, Below
  <2> QED BY <1>1, <1>2, <1>3, <2>1, SortedAppend, EmptyFlows
<1>7. Line(Of(fin), All(out), Of(buf), All(req), All(Append(inp, u)), Of(rest))
  BY <1>1, <1>3, <1>4, <1>5 DEF Line, Below
<1>8. Of(fin) \union All(out) \union Of(buf) \union All(req) \union All(Append(inp, u))
        \union Of(rest) \subseteq 1..n
  BY <1>1, <1>3, <1>5
<1>9. Flows(fin, out, buf, req, Append(inp, u), rest, n)
  BY <1>1, <1>3, <1>6, <1>7, <1>8 DEF Flows
<1>10. Flows(fin, out, buf, req, inp, rest, n)
  BY <1>1, <1>3, FlowsLess
<1>11. Flows(fin, out, buf, req, Append(inp, <<>>), pend, n)
  BY <1>1, <1>5, <1>6, FlowsLess
<1> QED BY <1>9, <1>10, <1>11 DEF u, rest

LEMMA FlowsCaptured ==
  ASSUME NEW fin, NEW out, NEW buf, NEW req, NEW inp, NEW pend, NEW n \in Nat,
         FlowTyped(fin, out, buf, req, inp, pend), Flows(fin, out, buf, req, inp, pend, n)
  PROVE  Flows(fin, out, buf, req, inp, Append(pend, n + 1), n + 1)
<1>1. /\ Increasing(fin) /\ Sorted(out) /\ Increasing(buf) /\ Sorted(req) /\ Sorted(inp) /\ Increasing(pend)
      /\ Line(Of(fin), All(out), Of(buf), All(req), All(inp), Of(pend))
      /\ Of(fin) \union All(out) \union Of(buf) \union All(req) \union All(inp) \union Of(pend) \subseteq 1..n
  BY DEF Flows
<1>2. pend \in Seq(Nat)
  BY DEF FlowTyped
<1>3. Of(Append(pend, n + 1)) = Of(pend) \union {n + 1}
  BY <1>2, OfParts
<1>4. Increasing(Append(pend, n + 1))
  <2>1. \A i \in DOMAIN pend : pend[i] < n + 1
    <3>1. \A i \in DOMAIN pend : pend[i] \in Of(pend)
      BY DEF Of
    <3>2. Of(pend) \subseteq 1..n
      BY <1>1
    <3> QED BY <3>1, <3>2
  <2>2. /\ DOMAIN Append(pend, n + 1) = 1..(Len(pend) + 1) /\ DOMAIN pend = 1..Len(pend)
        /\ \A i \in DOMAIN pend : Append(pend, n + 1)[i] = pend[i]
        /\ Append(pend, n + 1)[Len(pend) + 1] = n + 1 /\ Len(pend) \in Nat
    BY <1>2
  <2> QED BY <1>1, <2>1, <2>2 DEF Increasing
<1>5. \A c \in Of(fin) \union All(out) \union Of(buf) \union All(req) \union All(inp) : c < n + 1
  BY <1>1
<1>6. Line(Of(fin), All(out), Of(buf), All(req), All(inp), Of(Append(pend, n + 1)))
  BY <1>1, <1>3, <1>5 DEF Line, Below
<1>7. Of(fin) \union All(out) \union Of(buf) \union All(req) \union All(inp)
        \union Of(Append(pend, n + 1)) \subseteq 1..(n + 1)
  BY <1>1, <1>3
<1> QED BY <1>1, <1>4, <1>6, <1>7 DEF Flows
-----------------------------------------------------------------------------
(* What a queue holds for one stream, when it is appended to and read.      *)

LEMMA BatchesOf ==
  ASSUME SpeechAssumption, NEW q \in Seq(Commands), NEW s
  PROVE  /\ Batches(q, s) \in Seq(Seq(Nat))
         /\ \A r \in Commands :
              Batches(Append(q, r), s) = Append(Batches(q, s), IF r.stream = s THEN r.batch ELSE <<>>)
         /\ q # <<>> => /\ Batches(q, s) # <<>> /\ Batches(Tail(q), s) = Tail(Batches(q, s))
                        /\ Head(Batches(q, s)) = IF Head(q).stream = s THEN Head(q).batch ELSE <<>>
<1> DEFINE B(p) == Batches(p, s)
           Part(r) == IF r.stream = s THEN r.batch ELSE <<>>
<1>1. \A r \in Commands : Part(r) \in Seq(Nat)
  <2>1. Chunks \subseteq Nat
    BY DEF Chunks
  <2>2. \A b \in Seq(Chunks) : b \in Seq(Nat)
    BY <2>1, SeqMonotonic
  <2> QED BY <2>2 DEF Commands
<1>2. ASSUME NEW p \in Seq(Commands)
      PROVE  /\ B(p) \in Seq(Seq(Nat)) /\ Len(B(p)) = Len(p) /\ DOMAIN B(p) = 1..Len(p)
             /\ \A i \in 1..Len(p) : B(p)[i] = Part(p[i])
  <2>0. \A i \in 1..Len(p) : p[i] \in Commands
    OBVIOUS
  <2>1. B(p) = [i \in 1..Len(p) |-> Part(p[i])]
    BY DEF Batches
  <2>2. \A i \in 1..Len(p) : Part(p[i]) \in Seq(Nat)
    <3> HIDE DEF Part
    <3> QED BY <1>1, <2>0
  <2>3. Len(p) \in Nat
    OBVIOUS
  <2> HIDE DEF B, Part
  <2> QED BY <2>1, <2>2, <2>3
<1> HIDE DEF B, Part
<1>3. ASSUME NEW r \in Commands PROVE B(Append(q, r)) = Append(B(q), Part(r))
  <2> DEFINE qr == Append(q, r)
  <2>1. /\ qr \in Seq(Commands) /\ Len(qr) = Len(q) + 1 /\ qr[Len(q) + 1] = r
        /\ \A i \in 1..Len(q) : qr[i] = q[i]
    OBVIOUS
  <2> HIDE DEF qr
  <2>2. /\ B(qr) \in Seq(Seq(Nat)) /\ Len(B(qr)) = Len(q) + 1
        /\ \A i \in 1..(Len(q) + 1) : B(qr)[i] = Part(qr[i])
    BY <1>2, <2>1
  <2> DEFINE both == Append(B(q), Part(r))
  <2>3. both \in Seq(Seq(Nat)) /\ Len(both) = Len(q) + 1 /\ both[Len(q) + 1] = Part(r)
        /\ \A i \in 1..Len(q) : both[i] = Part(q[i])
    BY <1>1, <1>2
  <2> HIDE DEF both
  <2>4. ASSUME NEW i \in 1..(Len(q) + 1) PROVE B(qr)[i] = both[i]
    <3>1. i \in 1..Len(q) \/ i = Len(q) + 1
      OBVIOUS
    <3>2. B(qr)[i] = Part(qr[i])
      BY <2>2
    <3> QED BY <2>1, <2>3, <3>1, <3>2
  <2>5. B(qr) = both
    BY <2>2, <2>3, <2>4, SeqEqual
  <2> QED BY <2>5 DEF qr, both
<1>4. ASSUME q # <<>>
      PROVE B(q) # <<>> /\ B(Tail(q)) = Tail(B(q)) /\ Head(B(q)) = Part(Head(q))
  <2> DEFINE rest == Tail(q)
             tail == Tail(B(q))
  <2>1. /\ rest \in Seq(Commands) /\ Len(rest) = Len(q) - 1 /\ Len(q) - 1 \in Nat
        /\ \A i \in 1..(Len(q) - 1) : rest[i] = q[i + 1] /\ i + 1 \in 1..Len(q)
        /\ Head(q) = q[1] /\ 1 \in 1..Len(q)
    BY <1>4
  <2>2. B(q) # <<>> /\ Head(B(q)) = B(q)[1]
    BY <1>2, <2>1
  <2>3. /\ tail \in Seq(Seq(Nat)) /\ Len(tail) = Len(q) - 1
        /\ \A i \in 1..(Len(q) - 1) : tail[i] = B(q)[i + 1]
    BY <1>2, <2>2
  <2> HIDE DEF rest, tail
  <2>4. /\ B(rest) \in Seq(Seq(Nat)) /\ Len(B(rest)) = Len(q) - 1
        /\ \A i \in 1..(Len(q) - 1) : B(rest)[i] = Part(rest[i])
    BY <1>2, <2>1
  <2>5. ASSUME NEW i \in 1..(Len(q) - 1) PROVE B(rest)[i] = tail[i]
    <3>1. tail[i] = B(q)[i + 1] /\ i + 1 \in 1..Len(q) /\ rest[i] = q[i + 1]
      BY <2>1, <2>3
    <3>2. B(q)[i + 1] = Part(q[i + 1])
      BY <1>2, <3>1
    <3> QED BY <2>4, <3>1, <3>2
  <2>6. B(rest) = tail
    BY <2>1, <2>3, <2>4, <2>5, SeqEqual
  <2> QED BY <1>2, <2>1, <2>2, <2>6 DEF rest, tail
<1> QED BY <1>2, <1>3, <1>4 DEF B, Part

LEMMA UtterancesOf ==
  ASSUME SpeechAssumption, NEW q \in Seq(Answers), NEW s
  PROVE  /\ Utterances(q, s) \in Seq(Seq(Nat))
         /\ \A a \in Answers :
              Utterances(Append(q, a), s) =
                Append(Utterances(q, s), IF a.request.stream = s THEN a.utterance ELSE <<>>)
         /\ q # <<>> => /\ Utterances(q, s) # <<>> /\ Utterances(Tail(q), s) = Tail(Utterances(q, s))
                        /\ Head(Utterances(q, s)) =
                             IF Head(q).request.stream = s THEN Head(q).utterance ELSE <<>>
<1> DEFINE B(p) == Utterances(p, s)
           Part(a) == IF a.request.stream = s THEN a.utterance ELSE <<>>
<1>1. \A a \in Answers : Part(a) \in Seq(Nat)
  <2>1. Chunks \subseteq Nat
    BY DEF Chunks
  <2>2. \A b \in Seq(Chunks) : b \in Seq(Nat)
    BY <2>1, SeqMonotonic
  <2> QED BY <2>2 DEF Answers
<1>2. ASSUME NEW p \in Seq(Answers)
      PROVE  /\ B(p) \in Seq(Seq(Nat)) /\ Len(B(p)) = Len(p) /\ DOMAIN B(p) = 1..Len(p)
             /\ \A i \in 1..Len(p) : B(p)[i] = Part(p[i])
  <2>0. \A i \in 1..Len(p) : p[i] \in Answers
    OBVIOUS
  <2>1. B(p) = [i \in 1..Len(p) |-> Part(p[i])]
    BY DEF Utterances
  <2>2. \A i \in 1..Len(p) : Part(p[i]) \in Seq(Nat)
    <3> HIDE DEF Part
    <3> QED BY <1>1, <2>0
  <2>3. Len(p) \in Nat
    OBVIOUS
  <2> HIDE DEF B, Part
  <2> QED BY <2>1, <2>2, <2>3
<1> HIDE DEF B, Part
<1>3. ASSUME NEW a \in Answers PROVE B(Append(q, a)) = Append(B(q), Part(a))
  <2> DEFINE qa == Append(q, a)
  <2>1. /\ qa \in Seq(Answers) /\ Len(qa) = Len(q) + 1 /\ qa[Len(q) + 1] = a
        /\ \A i \in 1..Len(q) : qa[i] = q[i]
    OBVIOUS
  <2> HIDE DEF qa
  <2>2. /\ B(qa) \in Seq(Seq(Nat)) /\ Len(B(qa)) = Len(q) + 1
        /\ \A i \in 1..(Len(q) + 1) : B(qa)[i] = Part(qa[i])
    BY <1>2, <2>1
  <2> DEFINE both == Append(B(q), Part(a))
  <2>3. both \in Seq(Seq(Nat)) /\ Len(both) = Len(q) + 1 /\ both[Len(q) + 1] = Part(a)
        /\ \A i \in 1..Len(q) : both[i] = Part(q[i])
    BY <1>1, <1>2
  <2> HIDE DEF both
  <2>4. ASSUME NEW i \in 1..(Len(q) + 1) PROVE B(qa)[i] = both[i]
    <3>1. i \in 1..Len(q) \/ i = Len(q) + 1
      OBVIOUS
    <3>2. B(qa)[i] = Part(qa[i])
      BY <2>2
    <3> QED BY <2>1, <2>3, <3>1, <3>2
  <2>5. B(qa) = both
    BY <2>2, <2>3, <2>4, SeqEqual
  <2> QED BY <2>5 DEF qa, both
<1>4. ASSUME q # <<>>
      PROVE B(q) # <<>> /\ B(Tail(q)) = Tail(B(q)) /\ Head(B(q)) = Part(Head(q))
  <2> DEFINE rest == Tail(q)
             tail == Tail(B(q))
  <2>1. /\ rest \in Seq(Answers) /\ Len(rest) = Len(q) - 1 /\ Len(q) - 1 \in Nat
        /\ \A i \in 1..(Len(q) - 1) : rest[i] = q[i + 1] /\ i + 1 \in 1..Len(q)
        /\ Head(q) = q[1] /\ 1 \in 1..Len(q)
    BY <1>4
  <2>2. B(q) # <<>> /\ Head(B(q)) = B(q)[1]
    BY <1>2, <2>1
  <2>3. /\ tail \in Seq(Seq(Nat)) /\ Len(tail) = Len(q) - 1
        /\ \A i \in 1..(Len(q) - 1) : tail[i] = B(q)[i + 1]
    BY <1>2, <2>2
  <2> HIDE DEF rest, tail
  <2>4. /\ B(rest) \in Seq(Seq(Nat)) /\ Len(B(rest)) = Len(q) - 1
        /\ \A i \in 1..(Len(q) - 1) : B(rest)[i] = Part(rest[i])
    BY <1>2, <2>1
  <2>5. ASSUME NEW i \in 1..(Len(q) - 1) PROVE B(rest)[i] = tail[i]
    <3>1. tail[i] = B(q)[i + 1] /\ i + 1 \in 1..Len(q) /\ rest[i] = q[i + 1]
      BY <2>1, <2>3
    <3>2. B(q)[i + 1] = Part(q[i + 1])
      BY <1>2, <3>1
    <3> QED BY <2>4, <3>1, <3>2
  <2>6. B(rest) = tail
    BY <2>1, <2>3, <2>4, <2>5, SeqEqual
  <2> QED BY <1>2, <2>1, <2>2, <2>6 DEF rest, tail
<1> QED BY <1>2, <1>3, <1>4 DEF B, Part
-----------------------------------------------------------------------------
(* The command that ends a stream stays behind its last start.              *)

LEMMA EndAppend ==
  ASSUME NEW q \in Seq(Commands), NEW r \in Commands, NEW s, ~Starts(r, s)
  PROVE  /\ EndsIn(q, s) => EndsIn(Append(q, r), s)
         /\ NoStart(q, s) => NoStart(Append(q, r), s)
         /\ r.stream = s /\ r.op = "discard" => EndsIn(Append(q, r), s)
<1> DEFINE qr == Append(q, r)
<1>1. /\ DOMAIN qr = 1..(Len(q) + 1) /\ DOMAIN q = 1..Len(q) /\ Len(q) \in Nat
      /\ \A i \in DOMAIN q : qr[i] = q[i]
      /\ qr[Len(q) + 1] = r
  OBVIOUS
<1> HIDE DEF qr
<1>2. ASSUME NEW i \in DOMAIN q, \A j \in DOMAIN q : i < j => ~Starts(q[j], s)
      PROVE  \A j \in DOMAIN qr : i < j => ~Starts(qr[j], s)
  BY <1>1, <1>2 DEF Starts
<1>3. EndsIn(q, s) => EndsIn(qr, s)
  BY <1>1, <1>2 DEF EndsIn
<1>4. NoStart(q, s) => NoStart(qr, s)
  BY <1>1 DEF NoStart, Starts
<1>5. r.stream = s /\ r.op = "discard" => EndsIn(qr, s)
  BY <1>1 DEF EndsIn
<1> QED BY <1>3, <1>4, <1>5 DEF qr

LEMMA EndTail ==
  ASSUME NEW q \in Seq(Commands), q # <<>>, NEW s
  PROVE  /\ NoStart(q, s) => NoStart(Tail(q), s) /\ ~Starts(Head(q), s)
         /\ EndsIn(q, s) =>
              \/ EndsIn(Tail(q), s)
              \/ NoStart(Tail(q), s) /\ Head(q).stream = s /\ Head(q).op = "discard"
<1> DEFINE rest == Tail(q)
<1>1. /\ DOMAIN q = 1..Len(q) /\ Len(q) \in Nat /\ 1 \in DOMAIN q /\ Head(q) = q[1]
      /\ DOMAIN rest = 1..(Len(q) - 1)
      /\ \A i \in DOMAIN rest : rest[i] = q[i + 1] /\ i + 1 \in DOMAIN q /\ 1 < i + 1
  OBVIOUS
<1> HIDE DEF rest
<1>2. NoStart(q, s) => NoStart(rest, s) /\ ~Starts(Head(q), s)
  BY <1>1 DEF NoStart, Starts
<1>3. ASSUME EndsIn(q, s)
      PROVE  EndsIn(rest, s) \/ (NoStart(rest, s) /\ Head(q).stream = s /\ Head(q).op = "discard")
  <2>1. PICK i \in DOMAIN q : /\ q[i].stream = s /\ q[i].op = "discard"
                              /\ \A j \in DOMAIN q : i < j => ~Starts(q[j], s)
    BY <1>3 DEF EndsIn
  <2>2. CASE i = 1
    BY <1>1, <2>1, <2>2 DEF NoStart, Starts
  <2>3. CASE i # 1
    <3>1. i - 1 \in DOMAIN rest /\ rest[i - 1] = q[i]
      BY <1>1, <2>3
    <3>2. \A j \in DOMAIN rest : i - 1 < j => ~Starts(rest[j], s)
      BY <1>1, <2>1 DEF Starts
    <3> QED BY <2>1, <3>1, <3>2 DEF EndsIn
  <2> QED BY <2>2, <2>3
<1> QED BY <1>2, <1>3 DEF rest

LEMMA EndWritten ==
  ASSUME NEW inp \in Seq(Commands), NEW req, NEW ss, NEW r \in Commands, NEW s, ~Starts(r, s)
  PROVE  /\ EndOf(s, inp, req, ss) => EndOf(s, Append(inp, r), req, ss)
         /\ r.stream = s /\ r.op = "discard" => EndOf(s, Append(inp, r), req, ss)
BY EndAppend, Zenon DEF EndOf

LEMMA EndRead ==
  ASSUME NEW inp \in Seq(Commands), NEW req \in Seq(Commands), NEW ss, NEW s, inp # <<>>,
         EndOf(s, inp, req, ss)
  PROVE  /\ EndOf(s, Tail(inp), Append(req, Head(inp)), ss)
         /\ Head(inp).op = "cancel" => EndOf(s, Tail(inp), req, ss)
<1> DEFINE r == Head(inp)
<1>1. r \in Commands
  OBVIOUS
<1>2. /\ NoStart(inp, s) => NoStart(Tail(inp), s) /\ ~Starts(r, s)
      /\ EndsIn(inp, s) => EndsIn(Tail(inp), s) \/ (NoStart(Tail(inp), s) /\ r.stream = s /\ r.op = "discard")
  BY EndTail
<1>3. r.op = "discard" => ~Starts(r, s)
  BY DEF Starts
<1>4. CASE EndsIn(Tail(inp), s)
  BY <1>4 DEF EndOf
<1>5. CASE NoStart(Tail(inp), s) /\ r.stream = s /\ r.op = "discard"
  <2>1. EndsIn(Append(req, r), s)
    BY <1>1, <1>3, <1>5, EndAppend
  <2> QED BY <1>5, <2>1 DEF EndOf
<1>6. CASE NoStart(inp, s) /\ EndsIn(req, s)
  <2>1. EndsIn(Append(req, r), s)
    BY <1>1, <1>2, <1>6, EndAppend
  <2> QED BY <1>2, <1>6, <2>1 DEF EndOf
<1>7. CASE NoStart(inp, s) /\ NoStart(req, s) /\ s \notin DOMAIN ss
  <2>1. NoStart(Append(req, r), s)
    BY <1>1, <1>2, <1>7, EndAppend
  <2> QED BY <1>2, <1>7, <2>1 DEF EndOf
<1> HIDE DEF r
<1> QED BY <1>2, <1>4, <1>5, <1>6, <1>7 DEF EndOf, r

LEMMA EndHandled ==
  ASSUME NEW inp, NEW req \in Seq(Commands), NEW ss, NEW ss1, NEW s, req # <<>>,
         EndOf(s, inp, req, ss),
         Starts(Head(req), s) \/ (s \in DOMAIN ss1 => s \in DOMAIN ss),
         Head(req).stream = s /\ Head(req).op = "discard" => s \notin DOMAIN ss1
  PROVE  EndOf(s, inp, Tail(req), ss1)
<1>1. CASE EndsIn(inp, s)
  BY <1>1 DEF EndOf
<1>2. CASE NoStart(inp, s) /\ EndsIn(req, s)
  BY <1>2, EndTail DEF EndOf
<1>3. CASE NoStart(inp, s) /\ NoStart(req, s) /\ s \notin DOMAIN ss
  <2>1. NoStart(Tail(req), s) /\ ~Starts(Head(req), s)
    BY <1>3, EndTail
  <2> QED BY <1>3, <2>1 DEF EndOf
<1> QED BY <1>1, <1>2, <1>3 DEF EndOf
-----------------------------------------------------------------------------
(* A handler of the node: one stream gets other fields, promises and        *)
(* commands of its own.                                                     *)

LEMMA ChangeKeeps ==
  ASSUME SpeechAssumption,
         NEW str, NEW W, NEW inp, NEW req, NEW ss, NEW out, NEW fin, NEW n, NEW ab,
         Consistent(str, W, inp, req, ss, out, fin, n, ab),
         NEW s \in Streams, NEW x \in StreamFields, NEW W1, NEW inp1, NEW m, NEW ab1,
         str[s].opened, x.opened, str[s].closed => x.closed, x.closed => x.aborted,
         str[s].aborted => x.aborted,
         Len(x.pending) <= MaxBuffered, x.failures < MaxFailures \/ x.aborted,
         W1 \subseteq Commands, IsFiniteSet(W1), PromisesOf(s, x, W1), \A r \in W1 : r.op # "cancel",
         \A r \in W \union W1 : r.stream # s => (r \in W <=> r \in W1),
         inp1 \in Seq(Commands), inp1 = inp \/ ~str[s].aborted,
         \A r \in Of(inp1) : r \in Of(inp) \/ r.stream = s,
         \A t \in Streams \ {s} : EndOf(t, inp, req, ss) => EndOf(t, inp1, req, ss),
         m \in n..MaxChunks, ab1 \subseteq Streams, ab \subseteq ab1,
         ~x.aborted => FlowsOf(s, x, inp1, req, ss, out, fin, m),
         x.closed /\ s \notin ab1 => EndOf(s, inp1, req, ss)
  PROVE  Consistent([str EXCEPT ![s] = x], W1, inp1, req, ss, out, fin, m, ab1)
<1> DEFINE new == [str EXCEPT ![s] = x]
<1>1. /\ Typed(str, W, inp, req, ss, out, fin, n, ab) /\ Opened(str) /\ Promises(str, W)
      /\ InOrder(str, inp, req, ss, out, fin, n) /\ Untouched(str, W, inp, req, ss, out)
      /\ Ends(str, inp, req, ss, ab)
  BY DEF Consistent
<1>2. new \in [Streams -> StreamFields] /\ new[s] = x /\ \A t \in Streams \ {s} : new[t] = str[t]
  BY <1>1 DEF Typed
<1>3. n \in Nat /\ m \in Nat /\ n <= m
  BY <1>1 DEF Typed, SpeechAssumption
<1> HIDE DEF new
<1>4. Typed(new, W1, inp1, req, ss, out, fin, m, ab1)
  <2>1. m \in 0..MaxChunks
    BY <1>1, <1>3 DEF Typed, SpeechAssumption
  <2> QED BY <1>1, <1>2, <2>1 DEF Typed
<1>5. PICK last \in 0..MaxStreams : \A t \in Streams : OpenedOf(t, str[t], last)
  BY <1>1 DEF Opened
<1>6. Opened(new)
  <2>1. \A t \in Streams \ {s} : OpenedOf(t, new[t], last)
    BY <1>2, <1>5
  <2>2. OpenedOf(s, x, last)
    BY <1>5 DEF OpenedOf
  <2>3. \A t \in Streams : OpenedOf(t, new[t], last)
    BY <1>2, <2>1, <2>2
  <2> QED BY <2>3 DEF Opened
<1>7. Promises(new, W1)
  <2>1. ASSUME NEW t \in Streams \ {s} PROVE PromisesOf(t, new[t], W1)
    <3>1. PromisesOf(t, str[t], W)
      BY <1>1 DEF Promises
    <3>2. \A r : r.stream = t => (r \in W <=> r \in W1)
      OBVIOUS
    <3> QED BY <1>2, <3>1, <3>2 DEF PromisesOf
  <2> QED BY <1>2, <2>1 DEF Promises
<1>8. InOrder(new, inp1, req, ss, out, fin, m)
  <2>1. Increasing(fin) /\ Of(fin) \subseteq 1..m
    BY <1>1, <1>3 DEF InOrder
  <2>2. ASSUME NEW t \in Streams, new[t].opened, ~new[t].aborted
        PROVE  FlowsOf(t, new[t], inp1, req, ss, out, fin, m)
    <3>1. CASE t = s
      BY <1>2, <2>2, <3>1
    <3>2. CASE t # s
      <4>1. str[t].opened /\ ~str[t].aborted
        BY <1>2, <2>2, <3>2
      <4>2. str[s].aborted
        <5>1. s \in Nat /\ t \in Nat /\ last \in Nat
          BY DEF Streams, SpeechAssumption
        <5>2. s <= last /\ t <= last /\ ~(t < last)
          BY <1>5, <4>1 DEF OpenedOf
        <5>3. s < last
          BY <3>2, <5>1, <5>2
        <5> QED BY <1>5, <5>3 DEF OpenedOf
      <4>3. inp1 = inp
        BY <4>2
      <4>4. Flows(fin, Utterances(out, t), Buffer(ss, t), Batches(req, t), Batches(inp, t),
                  ChunksOf(str[t].pending), n)
        BY <1>1, <4>1 DEF InOrder, FlowsOf
      <4>5. Flows(fin, Utterances(out, t), Buffer(ss, t), Batches(req, t), Batches(inp, t),
                  ChunksOf(str[t].pending), m)
        BY <1>3, <4>4 DEF Flows
      <4> QED BY <1>2, <3>2, <4>3, <4>5 DEF FlowsOf
    <3> QED BY <3>1, <3>2
  <2> QED BY <2>1, <2>2 DEF InOrder
<1>9. Untouched(new, W1, inp1, req, ss, out)
  <2> SUFFICES ASSUME NEW t \in Streams, ~new[t].opened PROVE NoTrace(t, W1, inp1, req, ss, out)
    BY DEF Untouched
  <2>1. t # s /\ ~str[t].opened
    BY <1>2
  <2>2. NoTrace(t, W, inp, req, ss, out)
    BY <1>1, <2>1 DEF Untouched
  <2> QED BY <2>1, <2>2 DEF NoTrace
<1>10. Ends(new, inp1, req, ss, ab1)
  <2> SUFFICES ASSUME NEW t \in Streams, new[t].closed, t \notin ab1 PROVE EndOf(t, inp1, req, ss)
    BY DEF Ends
  <2>1. CASE t = s
    BY <1>2, <2>1
  <2>2. CASE t # s
    <3>1. EndOf(t, inp, req, ss)
      BY <1>1, <1>2, <2>2 DEF Ends
    <3> QED BY <2>2, <3>1
  <2> QED BY <2>1, <2>2
<1> QED BY <1>4, <1>6, <1>7, <1>8, <1>9, <1>10 DEF Consistent, new

LEMMA AskedKeeps ==
  ASSUME SpeechAssumption,
         NEW str, NEW W, NEW inp, NEW req, NEW ss, NEW out, NEW fin, NEW n, NEW ab,
         Consistent(str, W, inp, req, ss, out, fin, n, ab),
         NEW s \in Streams, NEW y \in StreamFields, NEW r \in Commands, NEW inp1,
         str[s].opened, ~str[s].aborted, y.opened, ~y.closed,
         Len(y.pending) <= MaxBuffered, y.failures < MaxFailures \/ y.aborted,
         r.stream = s, r.op \in {"start", "audio"}, inp1 \in {inp, Append(inp, r)},
         PromisesOf(s, y, W \union {r}), FlowsOf(s, y, inp1, req, ss, out, fin, n)
  PROVE  Consistent([str EXCEPT ![s] = y], W \union {r}, inp1, req, ss, out, fin, n, ab)
<1>1. /\ Typed(str, W, inp, req, ss, out, fin, n, ab) /\ Opened(str) /\ Promises(str, W)
      /\ Ends(str, inp, req, ss, ab)
  BY DEF Consistent
<1>2. ~str[s].closed
  BY <1>1 DEF Opened, OpenedOf
<1>3. /\ inp \in Seq(Commands) /\ inp1 \in Seq(Commands) /\ Of(inp1) \subseteq Of(inp) \union {r}
  <2>1. inp \in Seq(Commands)
    BY <1>1 DEF Typed
  <2>2. Append(inp, r) \in Seq(Commands) /\ Of(Append(inp, r)) = Of(inp) \union {r}
    BY <2>1, OfParts
  <2> QED BY <2>1, <2>2
<1>4. \A t \in Streams \ {s} : EndOf(t, inp, req, ss) => EndOf(t, inp1, req, ss)
  <2> TAKE t \in Streams \ {s}
  <2>1. ~Starts(r, t)
    BY DEF Starts
  <2>2. EndOf(t, inp, req, ss) => EndOf(t, Append(inp, r), req, ss)
    BY <1>3, <2>1, EndWritten
  <2> QED BY <2>2
<1>5. /\ W \union {r} \subseteq Commands /\ IsFiniteSet(W \union {r})
      /\ \A q \in W \union {r} : q.op # "cancel"
      /\ \A q \in W \union (W \union {r}) : q.stream # s => (q \in W <=> q \in W \union {r})
  BY <1>1, FS_AddElement DEF Typed, Promises
<1>6. n \in n..MaxChunks /\ ab \subseteq Streams
  BY <1>1 DEF Typed, SpeechAssumption
<1>7. \A q \in Of(inp1) : q \in Of(inp) \/ q.stream = s
  BY <1>3
<1>8. ASSUME NEW W1, W1 = W \union {r}
      PROVE  Consistent([str EXCEPT ![s] = y], W1, inp1, req, ss, out, fin, n, ab)
  <2>1. /\ W1 \subseteq Commands /\ IsFiniteSet(W1) /\ \A q \in W1 : q.op # "cancel"
        /\ \A q \in W \union W1 : q.stream # s => (q \in W <=> q \in W1)
        /\ PromisesOf(s, y, W1)
    BY <1>5, <1>8
  <2> QED BY <1>2, <1>3, <1>4, <1>6, <1>7, <2>1, ChangeKeeps, SMTT(30)
<1> QED BY <1>8

(* A stream whose promises and fields change, and nothing else.             *)
LEMMA FieldsKeep ==
  ASSUME SpeechAssumption,
         NEW str, NEW W, NEW inp, NEW req, NEW ss, NEW out, NEW fin, NEW n, NEW ab,
         Consistent(str, W, inp, req, ss, out, fin, n, ab),
         NEW s \in Streams, NEW x \in StreamFields, NEW W1,
         str[s].opened, x.opened, str[s].closed <=> x.closed, str[s].aborted => x.aborted,
         Len(x.pending) <= MaxBuffered, x.failures < MaxFailures \/ x.aborted,
         W1 \subseteq W, \A r \in W : r.stream # s => r \in W1, PromisesOf(s, x, W1),
         ~x.aborted => FlowsOf(s, x, inp, req, ss, out, fin, n)
  PROVE  Consistent([str EXCEPT ![s] = x], W1, inp, req, ss, out, fin, n, ab)
<1>1. /\ Typed(str, W, inp, req, ss, out, fin, n, ab) /\ Opened(str) /\ Promises(str, W)
      /\ Ends(str, inp, req, ss, ab)
  BY DEF Consistent
<1>2. str[s].closed => str[s].aborted
  BY <1>1 DEF Opened, OpenedOf
<1>3. /\ W1 \subseteq Commands /\ IsFiniteSet(W1) /\ \A r \in W1 : r.op # "cancel"
      /\ \A r \in W \union W1 : r.stream # s => (r \in W <=> r \in W1)
  BY <1>1, FS_Subset DEF Typed, Promises
<1>4. inp \in Seq(Commands) /\ n \in n..MaxChunks /\ ab \subseteq Streams
  BY <1>1 DEF Typed, SpeechAssumption
<1>5. x.closed /\ s \notin ab => EndOf(s, inp, req, ss)
  BY <1>1 DEF Ends
<1> QED BY <1>2, <1>3, <1>4, <1>5, ChangeKeeps

LEMMA FlowOf ==
  ASSUME SpeechAssumption,
         NEW str, NEW W, NEW inp, NEW req, NEW ss, NEW out, NEW fin, NEW n, NEW ab,
         Consistent(str, W, inp, req, ss, out, fin, n, ab), NEW s \in Streams
  PROVE  /\ str[s].opened /\ ~str[s].aborted => FlowsOf(s, str[s], inp, req, ss, out, fin, n)
         /\ str[s] \in StreamFields /\ PromisesOf(s, str[s], W) /\ n \in Nat
         /\ \A x \in StreamFields :
              FlowTyped(fin, Utterances(out, s), Buffer(ss, s), Batches(req, s), Batches(inp, s),
                        ChunksOf(x.pending))
<1>1. /\ Typed(str, W, inp, req, ss, out, fin, n, ab) /\ Promises(str, W)
      /\ InOrder(str, inp, req, ss, out, fin, n)
  BY DEF Consistent
<1>2. Chunks \subseteq Nat
  BY DEF Chunks
<1>3. \A q \in Seq(Chunks) : q \in Seq(Nat)
  BY <1>2, SeqMonotonic
<1>4. fin \in Seq(Nat) /\ Buffer(ss, s) \in Seq(Nat)
  <2>1. <<>> \in Seq(Nat)
    OBVIOUS
  <2> QED BY <1>1, <1>3, <2>1 DEF Typed, Buffer
<1>5. Utterances(out, s) \in Seq(Seq(Nat)) /\ Batches(req, s) \in Seq(Seq(Nat))
      /\ Batches(inp, s) \in Seq(Seq(Nat))
  BY <1>1, BatchesOf, UtterancesOf DEF Typed
<1>6. ASSUME NEW x \in StreamFields PROVE ChunksOf(x.pending) \in Seq(Nat)
  <2>1. x.pending \in Seq(Pieces)
    BY DEF StreamFields
  <2>2. \A i \in 1..Len(x.pending) : x.pending[i].chunk \in Nat
    <3>1. \A i \in 1..Len(x.pending) : x.pending[i] \in Pieces
      BY <2>1, ElementOfSeq
    <3> QED BY <1>2, <3>1 DEF Pieces
  <2>3. ChunksOf(x.pending) = [i \in 1..Len(x.pending) |-> x.pending[i].chunk]
    BY <2>1 DEF ChunksOf
  <2> QED BY <2>1, <2>2, <2>3
<1>7. \A x \in StreamFields :
        FlowTyped(fin, Utterances(out, s), Buffer(ss, s), Batches(req, s), Batches(inp, s),
                  ChunksOf(x.pending))
  BY <1>4, <1>5, <1>6 DEF FlowTyped
<1>8. str[s] \in StreamFields /\ PromisesOf(s, str[s], W) /\ n \in Nat
  BY <1>1 DEF Typed, Promises, SpeechAssumption
<1>9. str[s].opened /\ ~str[s].aborted => FlowsOf(s, str[s], inp, req, ss, out, fin, n)
  BY <1>1 DEF InOrder
<1> QED BY <1>7, <1>8, <1>9

LEMMA ChunksSplit ==
  ASSUME NEW p \in Seq(Pieces), NEW k \in 0..Len(p)
  PROVE  /\ ChunksOf(p) \in Seq(Chunks) /\ Len(ChunksOf(p)) = Len(p)
         /\ SubSeq(p, k + 1, Len(p)) \in Seq(Pieces) /\ Len(SubSeq(p, k + 1, Len(p))) = Len(p) - k
         /\ [i \in 1..k |-> p[i].chunk] \in Seq(Chunks)
         /\ [i \in 1..k |-> p[i].chunk] = SubSeq(ChunksOf(p), 1, k)
         /\ ChunksOf(SubSeq(p, k + 1, Len(p))) = SubSeq(ChunksOf(p), k + 1, Len(p))
<1> DEFINE C(q) == ChunksOf(q)
<1>1. ASSUME NEW q \in Seq(Pieces)
      PROVE  C(q) \in Seq(Chunks) /\ Len(C(q)) = Len(q) /\ \A i \in 1..Len(q) : C(q)[i] = q[i].chunk
  <2>1. \A i \in 1..Len(q) : q[i].chunk \in Chunks
    <3>1. \A i \in 1..Len(q) : q[i] \in Pieces
      BY ElementOfSeq
    <3> QED BY <3>1 DEF Pieces
  <2>2. C(q) = [i \in 1..Len(q) |-> q[i].chunk]
    BY DEF ChunksOf
  <2>3. Len(q) \in Nat
    OBVIOUS
  <2> HIDE DEF C
  <2> QED BY <2>1, <2>2, <2>3
<1>2. Len(p) \in Nat /\ k \in Nat /\ k <= Len(p)
  OBVIOUS
<1>3. /\ 1 \in 1..(Len(p) + 1) /\ k \in 0..Len(p)
      /\ k + 1 \in 1..(Len(p) + 1) /\ Len(p) \in 0..Len(p)
  BY <1>2
<1> HIDE DEF C
<1> DEFINE rest == SubSeq(p, k + 1, Len(p))
           cp == C(p)
           front == SubSeq(cp, 1, k)
           back == SubSeq(cp, k + 1, Len(p))
           batch == [i \in 1..k |-> p[i].chunk]
<1>4. /\ rest \in Seq(Pieces) /\ Len(rest) = IF k + 1 <= Len(p) THEN Len(p) - (k + 1) + 1 ELSE 0
      /\ \A i \in DOMAIN rest : rest[i] = p[(k + 1) + i - 1]
  BY <1>3, OfPart
<1>5. cp \in Seq(Chunks) /\ Len(cp) = Len(p) /\ \A i \in 1..Len(p) : cp[i] = p[i].chunk
  BY <1>1
<1> HIDE DEF cp
<1>6. /\ back \in Seq(Chunks) /\ Len(back) = IF k + 1 <= Len(p) THEN Len(p) - (k + 1) + 1 ELSE 0
      /\ \A i \in DOMAIN back : back[i] = cp[(k + 1) + i - 1]
  BY <1>3, <1>5, OfPart
<1>7. /\ front \in Seq(Chunks) /\ Len(front) = IF 1 <= k THEN k - 1 + 1 ELSE 0
      /\ \A i \in DOMAIN front : front[i] = cp[1 + i - 1]
  BY <1>3, <1>5, OfPart
<1>8. batch \in Seq(Chunks) /\ Len(batch) = k /\ \A i \in 1..k : batch[i] = p[i].chunk
  <2>1. \A i \in 1..k : p[i].chunk \in Chunks
    <3> TAKE i \in 1..k
    <3>1. i \in 1..Len(p) /\ p[i] \in Pieces
      BY <1>2, ElementOfSeq
    <3> QED BY <3>1 DEF Pieces
  <2> QED BY <1>2, <2>1
<1> HIDE DEF rest, front, back, batch
<1>9. Len(rest) = Len(p) - k /\ Len(back) = Len(p) - k /\ Len(front) = k
  BY <1>2, <1>4, <1>6, <1>7
<1>10. ASSUME NEW i \in 1..k PROVE batch[i] = front[i]
  <2>1. i \in 1..Len(p) /\ 1 + i - 1 = i /\ i \in DOMAIN front
    BY <1>2, <1>7, <1>9
  <2> QED BY <1>5, <1>7, <1>8, <2>1
<1>11. batch = front
  BY <1>7, <1>8, <1>9, <1>10, SeqEqual
<1>12. ASSUME NEW i \in 1..(Len(p) - k) PROVE C(rest)[i] = back[i]
  <2>1. (k + 1) + i - 1 = k + i /\ k + i \in 1..Len(p) /\ i \in DOMAIN back /\ i \in DOMAIN rest
        /\ i \in 1..Len(rest)
    BY <1>2, <1>4, <1>6, <1>9
  <2>2. C(rest)[i] = rest[i].chunk
    BY <1>1, <1>4, <2>1
  <2> QED BY <1>4, <1>5, <1>6, <2>1, <2>2
<1>13. C(rest) = back
  <2>1. C(rest) \in Seq(Chunks) /\ Len(C(rest)) = Len(p) - k
    BY <1>1, <1>4, <1>9
  <2> QED BY <1>6, <1>9, <1>12, <2>1, SeqEqual
<1> QED BY <1>4, <1>5, <1>8, <1>9, <1>11, <1>13 DEF C, rest, cp, front, back, batch

LEMMA PumpKeeps ==
  ASSUME SpeechAssumption, stream \in [Streams -> StreamFields],
         NEW s \in Streams, NEW x \in StreamFields, x.opened, NEW W, NEW out, NEW fin, NEW n, NEW ab,
         Consistent([stream EXCEPT ![s] = x], W, stdin, requests, sessions, out, fin, n, ab),
         Pump(s, x, W)
  PROVE  Consistent(stream', awaiting', stdin', requests, sessions, out, fin, n, ab)
<1> DEFINE str == [stream EXCEPT ![s] = x]
<1>1. str[s] = x /\ \A y : [str EXCEPT ![s] = y] = [stream EXCEPT ![s] = y]
  OBVIOUS
<1>2. CASE x.inFlight \/ x.aborted \/ ~x.started \/ x.pending = <<>>
  BY <1>2 DEF Pump
<1>3. CASE ~(x.inFlight \/ x.aborted \/ ~x.started \/ x.pending = <<>>)
  <2> DEFINE k == BatchLength(x.pending)
             rest == SubSeq(x.pending, k + 1, Len(x.pending))
             y == [x EXCEPT !.inFlight = TRUE, !.pending = rest]
             batch == [i \in 1..k |-> x.pending[i].chunk]
             r == Request(s, "audio", batch)
  <2>1. stream' = [stream EXCEPT ![s] = y] /\ awaiting' = W \union {r} /\ stdin' \in {stdin, Append(stdin, r)}
    BY <1>3 DEF Pump, SendRequest
  <2>2. x.pending \in Seq(Pieces) /\ x.pending # <<>> /\ Len(x.pending) \in Nat
    BY <1>3 DEF StreamFields
  <2>3. k \in 1..Len(x.pending)
    BY <2>2, BatchIsPart
  <2> HIDE DEF k
  <2>4. k + 1 \in 1..(Len(x.pending) + 1) /\ Len(x.pending) \in 0..Len(x.pending) /\ k \in 0..Len(x.pending)
        /\ 1 \in 1..(Len(x.pending) + 1)
    BY <2>2, <2>3
  <2> DEFINE pend == ChunksOf(x.pending)
  <2>5. /\ rest \in Seq(Pieces) /\ Len(rest) = Len(x.pending) - k
        /\ batch \in Seq(Chunks) /\ batch = SubSeq(pend, 1, k)
        /\ ChunksOf(rest) = SubSeq(pend, k + 1, Len(pend)) /\ Len(pend) = Len(x.pending)
    BY <2>2, <2>4, ChunksSplit
  <2> HIDE DEF rest
  <2>6. y \in StreamFields /\ y.opened /\ y.closed = x.closed /\ y.pending = rest /\ y.failures = x.failures
        /\ y.aborted = x.aborted /\ y.inFlight = TRUE /\ y.starting = x.starting
    BY <2>5 DEF StreamFields
  <2>7. /\ str[s].opened /\ ~str[s].aborted => FlowsOf(s, str[s], stdin, requests, sessions, out, fin, n)
        /\ PromisesOf(s, str[s], W) /\ n \in Nat
        /\ FlowTyped(fin, Utterances(out, s), Buffer(sessions, s), Batches(requests, s),
                     Batches(stdin, s), pend)
    BY FlowOf
  <2>8. r \in Commands /\ r.stream = s /\ r.op = "audio" /\ r.batch = batch
    <3> HIDE DEF batch
    <3> QED BY <2>5 DEF Request, Commands
  <2>9. stdin \in Seq(Commands)
    BY DEF Consistent, Typed
  <2> HIDE DEF r, batch, pend, y, str
  <2>10. PromisesOf(s, y, W \union {r})
    <3>1. PromisesOf(s, x, W) /\ ~x.inFlight
      BY <1>1, <1>3, <2>7
    <3> QED BY <2>6, <2>8, <3>1 DEF PromisesOf
  <2>11. /\ Flows(fin, Utterances(out, s), Buffer(sessions, s), Batches(requests, s),
                  Append(Batches(stdin, s), batch), ChunksOf(y.pending), n)
         /\ Flows(fin, Utterances(out, s), Buffer(sessions, s), Batches(requests, s), Batches(stdin, s),
                  ChunksOf(y.pending), n)
    <3>1. Flows(fin, Utterances(out, s), Buffer(sessions, s), Batches(requests, s), Batches(stdin, s), pend, n)
      BY <1>1, <1>3, <2>7 DEF FlowsOf, pend
    <3>2. k \in 0..Len(pend)
      BY <2>4, <2>5
    <3> QED BY <2>5, <2>6, <2>7, <3>1, <3>2, FlowsPumped
  <2>12. Batches(Append(stdin, r), s) = Append(Batches(stdin, s), batch)
    BY <2>8, <2>9, BatchesOf
  <2>13. FlowsOf(s, y, stdin', requests, sessions, out, fin, n)
    <3>1. CASE stdin' = stdin
      BY <2>11, <3>1 DEF FlowsOf
    <3>2. CASE stdin' = Append(stdin, r)
      BY <2>11, <2>12, <3>2 DEF FlowsOf
    <3> QED BY <2>1, <3>1, <3>2
  <2>14. ~y.closed /\ Len(y.pending) <= MaxBuffered /\ (y.failures < MaxFailures \/ y.aborted)
    <3>1. PICK last \in 0..MaxStreams : OpenedOf(s, x, last)
      BY <1>1 DEF Consistent, Opened, str
    <3>2. ~x.closed /\ Len(x.pending) <= MaxBuffered /\ (x.failures < MaxFailures \/ x.aborted)
      BY <1>3, <3>1 DEF OpenedOf
    <3>3. Len(rest) <= MaxBuffered
      BY <2>2, <2>3, <2>5, <3>2 DEF SpeechAssumption
    <3> QED BY <2>6, <3>2, <3>3
  <2>15. Consistent([str EXCEPT ![s] = y], W \union {r}, stdin', requests, sessions, out, fin, n, ab)
    <3>1. Consistent(str, W, stdin, requests, sessions, out, fin, n, ab) /\ str[s].opened /\ ~str[s].aborted
      BY <1>1, <1>3 DEF str
    <3> QED BY <2>1, <2>6, <2>8, <2>10, <2>13, <2>14, <3>1, AskedKeeps
  <2>16. stream' = [str EXCEPT ![s] = y]
    BY <1>1, <2>1 DEF str, y
  <2> QED BY <2>1, <2>15, <2>16
<1> QED BY <1>2, <1>3

(* A promise of a stream is settled, and its fields follow.                 *)
LEMMA SettledKeeps ==
  ASSUME SpeechAssumption,
         NEW str, NEW W, NEW inp, NEW req, NEW ss, NEW out, NEW fin, NEW n, NEW ab,
         Consistent(str, W, inp, req, ss, out, fin, n, ab),
         NEW r \in W, NEW s, s = r.stream, NEW y \in StreamFields, y.opened, y.closed <=> str[s].closed,
         str[s].aborted => y.aborted, y.failures < MaxFailures \/ y.aborted,
         y.inFlight <=> (str[s].inFlight /\ r.op # "audio"),
         y.starting <=> (str[s].starting /\ r.op # "start"),
         y.pending \in {str[s].pending, <<>>}
  PROVE  Consistent([str EXCEPT ![s] = y], W \ {r}, inp, req, ss, out, fin, n, ab)
<1>1. Typed(str, W, inp, req, ss, out, fin, n, ab) /\ Untouched(str, W, inp, req, ss, out) /\ Opened(str)
  BY DEF Consistent
<1>2. s \in Streams
  BY <1>1 DEF Typed, Commands
<1>3. str[s].opened /\ Len(str[s].pending) <= MaxBuffered
  <2>1. ~NoTrace(s, W, inp, req, ss, out)
    BY DEF NoTrace
  <2> QED BY <1>1, <1>2, <2>1 DEF Untouched, Opened, OpenedOf
<1>4. Len(y.pending) <= MaxBuffered
  <2>1. Len(<<>>) <= MaxBuffered
    BY DEF SpeechAssumption
  <2> QED BY <1>3, <2>1
<1>5. PromisesOf(s, y, W \ {r})
  <2>1. PromisesOf(s, str[s], W)
    BY <1>2, FlowOf
  <2> QED BY <2>1 DEF PromisesOf
<1>6. ASSUME ~y.aborted PROVE FlowsOf(s, y, inp, req, ss, out, fin, n)
  <2>1. FlowsOf(s, str[s], inp, req, ss, out, fin, n) /\ n \in Nat
    BY <1>2, <1>3, <1>6, FlowOf
  <2>2. CASE y.pending = str[s].pending
    BY <2>1, <2>2 DEF FlowsOf
  <2>3. CASE y.pending = <<>>
    <3>1. ChunksOf(y.pending) = <<>>
      BY <2>3 DEF ChunksOf
    <3>2. Flows(fin, Utterances(out, s), Buffer(ss, s), Batches(req, s), Batches(inp, s),
                ChunksOf(str[s].pending), n)
      BY <2>1 DEF FlowsOf
    <3>3. /\ Increasing(fin) /\ Sorted(Utterances(out, s)) /\ Increasing(Buffer(ss, s))
          /\ Sorted(Batches(req, s)) /\ Sorted(Batches(inp, s))
      BY <3>2 DEF Flows
    <3>4. Flows(fin, Utterances(out, s), Buffer(ss, s), Batches(req, s), Batches(inp, s), <<>>, n)
      BY <2>1, <3>2, <3>3, EmptyFlows, FlowsLess
    <3> QED BY <3>1, <3>4 DEF FlowsOf
  <2> QED BY <2>2, <2>3
<1> QED BY <1>2, <1>3, <1>4, <1>5, <1>6, FieldsKeep

LEMMA StreamAbortKeeps ==
  ASSUME SpeechAssumption, stream \in [Streams -> StreamFields],
         NEW s \in Streams, NEW x \in StreamFields, x.opened, NEW W, NEW out, NEW fin, NEW n,
         Consistent([stream EXCEPT ![s] = x], W, stdin, requests, sessions, out, fin, n, abandoned),
         AbortStream(s, x, W)
  PROVE  Consistent(stream', awaiting', stdin', requests, sessions, out, fin, n, abandoned')
<1> DEFINE str == [stream EXCEPT ![s] = x]
<1>1. str[s] = x /\ \A y : [str EXCEPT ![s] = y] = [stream EXCEPT ![s] = y]
  OBVIOUS
<1> HIDE DEF str
<1>2. Consistent(str, W, stdin, requests, sessions, out, fin, n, abandoned)
  BY DEF str
<1>3. /\ W \subseteq Commands /\ IsFiniteSet(W) /\ PromisesOf(s, x, W) /\ \A r \in W : r.op # "cancel"
      /\ stdin \in Seq(Commands) /\ n \in n..MaxChunks /\ abandoned \union {s} \subseteq Streams
      /\ abandoned \subseteq Streams
      /\ Len(x.pending) <= MaxBuffered /\ (x.failures < MaxFailures \/ x.aborted)
  BY <1>1, <1>2 DEF Consistent, Typed, Promises, Opened, OpenedOf, SpeechAssumption
<1>4. CASE x.aborted
  <2> DEFINE y == [x EXCEPT !.closed = TRUE]
  <2>1. stream' = [stream EXCEPT ![s] = y] /\ abandoned' = abandoned \union {s} /\ awaiting' = W
        /\ stdin' = stdin
    BY <1>4 DEF AbortStream
  <2>2. y \in StreamFields /\ y.opened /\ y.closed /\ y.aborted /\ y.pending = x.pending
        /\ y.failures = x.failures /\ y.inFlight = x.inFlight /\ y.starting = x.starting
    BY <1>4 DEF StreamFields
  <2> HIDE DEF y
  <2>3. PromisesOf(s, y, W)
    BY <1>3, <2>2 DEF PromisesOf
  <2>4. Consistent([str EXCEPT ![s] = y], W, stdin, requests, sessions, out, fin, n, abandoned \union {s})
    <3>1. \A r \in Of(stdin) : r \in Of(stdin) \/ r.stream = s
      OBVIOUS
    <3> QED BY <1>1, <1>2, <1>3, <1>4, <2>2, <2>3, <3>1, ChangeKeeps, SMTT(30)
  <2> QED BY <1>1, <2>1, <2>4
<1>5. CASE ~x.aborted
  <2> DEFINE y == [x EXCEPT !.aborted = TRUE, !.pending = <<>>, !.closed = TRUE]
             d == Request(s, "discard", <<>>)
             c == Request(s, "cancel", <<>>)
             cancelling == Append(stdin, c)
             ending == Append(cancelling, d)
  <2>1. /\ stream' = [stream EXCEPT ![s] = y] /\ awaiting' = W \union {d}
        /\ \/ stdin' = stdin \o <<c, d>> /\ abandoned' = abandoned
           \/ stdin' = cancelling /\ abandoned' = abandoned \union {s}
    BY <1>5 DEF AbortStream
  <2>2. y \in StreamFields /\ y.opened /\ y.closed /\ y.aborted /\ y.pending = <<>>
        /\ y.failures = x.failures /\ y.inFlight = x.inFlight /\ y.starting = x.starting
    <3>1. <<>> \in Seq(Pieces)
      OBVIOUS
    <3> QED BY <3>1 DEF StreamFields
  <2>3. d \in Commands /\ d.stream = s /\ d.op = "discard" /\ c \in Commands /\ c.stream = s /\ c.op = "cancel"
    <3>1. <<>> \in Seq(Chunks)
      OBVIOUS
    <3> QED BY <3>1 DEF Request, Commands
  <2> HIDE DEF y, c, d
  <2>4. stdin \o <<c, d>> = ending
    <3>1. stdin \o <<c, d>> \in Seq(Commands) /\ ending \in Seq(Commands)
      BY <1>3, <2>3
    <3>2. Len(stdin \o <<c, d>>) = Len(stdin) + 2 /\ Len(ending) = Len(stdin) + 2
      BY <1>3, <2>3
    <3>3. ASSUME NEW i \in 1..(Len(stdin) + 2) PROVE (stdin \o <<c, d>>)[i] = ending[i]
      <4>1. CASE i \in 1..Len(stdin)
        BY <1>3, <2>3, <4>1
      <4>2. CASE i = Len(stdin) + 1
        BY <1>3, <2>3, <4>2
      <4>3. CASE i = Len(stdin) + 2
        BY <1>3, <2>3, <4>3
      <4>4. Len(stdin) \in Nat
        BY <1>3
      <4> QED BY <4>1, <4>2, <4>3, <4>4
    <3> QED BY <3>1, <3>2, <3>3, SeqEqual
  <2>5. /\ cancelling \in Seq(Commands) /\ ending \in Seq(Commands)
        /\ Of(cancelling) = Of(stdin) \union {c} /\ Of(ending) = Of(stdin) \union {c} \union {d}
    <3>1. cancelling \in Seq(Commands) /\ Of(cancelling) = Of(stdin) \union {c}
      BY <1>3, <2>3, OfParts
    <3> HIDE DEF cancelling
    <3>2. ending \in Seq(Commands) /\ Of(ending) = Of(cancelling) \union {d}
      BY <2>3, <3>1, OfParts
    <3> QED BY <3>1, <3>2
  <2>6. ASSUME NEW t \in Streams
        PROVE  /\ EndOf(t, stdin, requests, sessions) => EndOf(t, cancelling, requests, sessions)
               /\ EndOf(t, stdin, requests, sessions) => EndOf(t, ending, requests, sessions)
               /\ t = s => EndOf(t, ending, requests, sessions)
    <3>1. ~Starts(c, t) /\ ~Starts(d, t)
      BY <2>3 DEF Starts
    <3>2. EndOf(t, stdin, requests, sessions) => EndOf(t, cancelling, requests, sessions)
      BY <1>3, <2>3, <3>1, EndWritten
    <3>3. EndOf(t, cancelling, requests, sessions) => EndOf(t, ending, requests, sessions)
      <4> HIDE DEF cancelling
      <4> QED BY <2>3, <2>5, <3>1, EndWritten
    <3>4. t = s => EndOf(t, ending, requests, sessions)
      <4> HIDE DEF cancelling
      <4> QED BY <2>3, <2>5, <3>1, EndWritten
    <3> QED BY <3>2, <3>3, <3>4
  <2>7. PromisesOf(s, y, W \union {d})
    BY <1>3, <2>2, <2>3 DEF PromisesOf
  <2>8. IsFiniteSet(W \union {d})
    BY <1>3, FS_AddElement
  <2>9. Len(y.pending) <= MaxBuffered
    BY <2>2 DEF SpeechAssumption
  <2> HIDE DEF cancelling, ending
  <2>10. ASSUME NEW inp1, NEW ab1, \/ inp1 = ending /\ ab1 = abandoned
                                   \/ inp1 = cancelling /\ ab1 = abandoned \union {s},
                NEW W1, W1 = W \union {d}
         PROVE  Consistent([str EXCEPT ![s] = y], W1, inp1, requests, sessions, out, fin, n, ab1)
    <3>1. inp1 \in Seq(Commands) /\ \A r \in Of(inp1) : r \in Of(stdin) \/ r.stream = s
      BY <2>3, <2>5, <2>10
    <3>2. \A t \in Streams \ {s} : EndOf(t, stdin, requests, sessions) => EndOf(t, inp1, requests, sessions)
      BY <2>6, <2>10
    <3>3. s \notin ab1 => EndOf(s, inp1, requests, sessions)
      BY <2>6, <2>10
    <3>4. ab1 \subseteq Streams /\ abandoned \subseteq ab1
      BY <1>3, <2>10
    <3>5. /\ W1 \subseteq Commands /\ IsFiniteSet(W1) /\ PromisesOf(s, y, W1) /\ \A r \in W1 : r.op # "cancel"
          /\ \A r \in W \union W1 : r.stream # s => (r \in W <=> r \in W1)
      BY <1>3, <2>3, <2>7, <2>8, <2>10
    <3> QED BY <1>1, <1>2, <1>3, <1>5, <2>2, <2>9, <3>1, <3>2, <3>3, <3>4, <3>5, ChangeKeeps, SMTT(30)
  <2>11. Consistent([str EXCEPT ![s] = y], W \union {d}, stdin', requests, sessions, out, fin, n, abandoned')
    BY <2>1, <2>4, <2>10
  <2> QED BY <1>1, <2>1, <2>11
<1> QED BY <1>4, <1>5

LEMMA FatalKeeps ==
  ASSUME SpeechAssumption, stream \in [Streams -> StreamFields], active \in BOOLEAN,
         NEW s \in Streams, NEW x \in StreamFields, x.opened, NEW W, NEW out, NEW fin, NEW n,
         Consistent([stream EXCEPT ![s] = x], W, stdin, requests, sessions, out, fin, n, abandoned),
         Fatal(s, x, W)
  PROVE  /\ Consistent(stream', awaiting', stdin', requests, sessions, out, fin, n, abandoned')
         /\ active' \in BOOLEAN
<1>1. CASE s = Current /\ active
  <2>1. active' = FALSE /\ AbortStream(s, x, W)
    BY <1>1 DEF Fatal
  <2> QED BY <2>1, StreamAbortKeeps
<1>2. CASE ~(s = Current /\ active)
  BY <1>2 DEF Fatal
<1> QED BY <1>1, <1>2

(* The handlers of an answer, or of its absence: out is what stdout holds   *)
(* then, fin what has been reported.                                        *)
LEMMA StreamOf ==
  ASSUME NEW out, NEW fin, NEW n,
         Consistent(stream, awaiting, stdin, requests, sessions, out, fin, n, abandoned),
         NEW r \in awaiting, NEW s, s = r.stream
  PROVE  /\ s \in Streams /\ stream \in [Streams -> StreamFields] /\ stream[s] \in StreamFields
         /\ stream[s].opened /\ r.op \in {"start", "audio", "discard"}
         /\ stream[s].failures < MaxFailures \/ stream[s].aborted
         /\ r.op = "audio" => stream[s].inFlight
         /\ r.op = "start" => stream[s].starting
<1>1. /\ s \in Streams /\ stream \in [Streams -> StreamFields] /\ r \in Commands /\ r.op # "cancel"
      /\ PromisesOf(s, stream[s], awaiting)
  BY DEF Consistent, Typed, Commands, Promises
<1>2. stream[s].opened
  BY <1>1 DEF Consistent, Untouched, NoTrace
<1>3. stream[s].failures < MaxFailures \/ stream[s].aborted
  BY <1>1 DEF Consistent, Opened, OpenedOf
<1>4. (r.op = "audio" => stream[s].inFlight) /\ (r.op = "start" => stream[s].starting)
  BY <1>1 DEF PromisesOf
<1>5. r.op \in {"start", "audio", "discard"}
  BY <1>1 DEF Commands
<1> QED BY <1>1, <1>2, <1>3, <1>4, <1>5

LEMMA StartFailsKeeps ==
  ASSUME SpeechAssumption, active \in BOOLEAN, NEW out, NEW fin, NEW n,
         Consistent(stream, awaiting, stdin, requests, sessions, out, fin, n, abandoned),
         NEW r \in awaiting, r.op = "start", StartFails(r)
  PROVE  /\ Consistent(stream', awaiting', stdin', requests, sessions, out, fin, n, abandoned')
         /\ active' \in BOOLEAN
<1> DEFINE s == r.stream
           x == [stream[s] EXCEPT !.starting = FALSE, !.startFailed = TRUE, !.pending = <<>>]
<1>1. /\ s \in Streams /\ stream \in [Streams -> StreamFields] /\ stream[s] \in StreamFields
      /\ stream[s].opened /\ (stream[s].failures < MaxFailures \/ stream[s].aborted)
  BY StreamOf
<1>2. /\ x \in StreamFields /\ x.opened /\ x.closed = stream[s].closed /\ x.aborted = stream[s].aborted
      /\ x.failures = stream[s].failures /\ x.inFlight = stream[s].inFlight /\ x.starting = FALSE
      /\ x.pending = <<>>
  <2>1. <<>> \in Seq(Pieces)
    OBVIOUS
  <2> QED BY <1>1, <2>1 DEF StreamFields
<1>3. \/ /\ stream' = [stream EXCEPT ![s] = x] /\ awaiting' = awaiting \ {r}
         /\ UNCHANGED <<active, stdin, abandoned>>
      \/ Fatal(s, x, awaiting \ {r})
  BY DEF StartFails
<1> HIDE DEF x
<1>4. Consistent([stream EXCEPT ![s] = x], awaiting \ {r}, stdin, requests, sessions, out, fin, n, abandoned)
  BY <1>1, <1>2, SettledKeeps
<1> HIDE DEF s
<1> QED BY <1>1, <1>2, <1>3, <1>4, FatalKeeps

LEMMA AudioFailsKeeps ==
  ASSUME SpeechAssumption, active \in BOOLEAN, NEW out, NEW fin, NEW n,
         Consistent(stream, awaiting, stdin, requests, sessions, out, fin, n, abandoned),
         NEW r \in awaiting, r.op = "audio", AudioFails(r)
  PROVE  /\ Consistent(stream', awaiting', stdin', requests, sessions, out, fin, n, abandoned')
         /\ active' \in BOOLEAN
<1> DEFINE s == r.stream
           x == [stream[s] EXCEPT !.inFlight = FALSE]
           counted == [x EXCEPT !.failures = @ + 1]
           ended == [counted EXCEPT !.aborted = TRUE, !.pending = <<>>]
           others == awaiting \ {r}
<1>1. /\ s \in Streams /\ stream \in [Streams -> StreamFields] /\ stream[s] \in StreamFields
      /\ stream[s].opened /\ (stream[s].failures < MaxFailures \/ stream[s].aborted)
  BY StreamOf
<1>2. MaxFailures \in Nat
  BY DEF SpeechAssumption
<1>3. CASE x.aborted
  <2>1. Pump(s, x, others) /\ active' = active /\ abandoned' = abandoned
    BY <1>3 DEF AudioFails
  <2>2. /\ x \in StreamFields /\ x.opened /\ x.closed = stream[s].closed /\ x.aborted = stream[s].aborted
        /\ x.failures = stream[s].failures /\ x.inFlight = FALSE /\ x.starting = stream[s].starting
        /\ x.pending = stream[s].pending
    BY <1>1 DEF StreamFields
  <2> HIDE DEF x, counted, ended
  <2>3. Consistent([stream EXCEPT ![s] = x], others, stdin, requests, sessions, out, fin, n, abandoned)
    BY <1>1, <2>2, SettledKeeps
  <2> HIDE DEF s, others
  <2>4. Consistent(stream', awaiting', stdin', requests, sessions, out, fin, n, abandoned)
    BY <1>1, <2>1, <2>2, <2>3, PumpKeeps
  <2> QED BY <2>1, <2>4
<1>4. CASE ~x.aborted
  <2>0. ~stream[s].aborted
    BY <1>1, <1>4 DEF StreamFields
  <2>1. stream[s].failures \in Nat /\ stream[s].failures + 1 <= MaxFailures
        /\ stream[s].failures + 1 \in 0..MaxFailures
    BY <1>1, <1>2, <2>0 DEF StreamFields
  <2>2. /\ counted \in StreamFields /\ counted.opened /\ counted.closed = stream[s].closed
        /\ counted.aborted = stream[s].aborted /\ counted.failures = stream[s].failures + 1
        /\ counted.inFlight = FALSE /\ counted.starting = stream[s].starting
        /\ counted.pending = stream[s].pending
    BY <1>1, <2>1 DEF StreamFields
  <2>3. CASE counted.failures >= MaxFailures
    <3>1. Fatal(s, ended, others)
      BY <1>4, <2>3 DEF AudioFails
    <3>2. /\ ended \in StreamFields /\ ended.opened /\ ended.closed = stream[s].closed
          /\ ended.aborted = TRUE /\ ended.inFlight = FALSE /\ ended.starting = stream[s].starting
          /\ ended.pending = <<>>
      <4>1. <<>> \in Seq(Pieces)
        OBVIOUS
      <4> HIDE DEF counted
      <4> QED BY <2>2, <4>1 DEF StreamFields
    <3> HIDE DEF x, counted, ended
    <3>3. Consistent([stream EXCEPT ![s] = ended], others, stdin, requests, sessions, out, fin, n, abandoned)
      BY <1>1, <3>2, SettledKeeps
    <3> HIDE DEF s, others
    <3> QED BY <1>1, <3>1, <3>2, <3>3, FatalKeeps
  <2>4. CASE ~(counted.failures >= MaxFailures)
    <3>1. Pump(s, counted, others) /\ active' = active /\ abandoned' = abandoned
      BY <1>4, <2>4 DEF AudioFails
    <3>2. counted.failures < MaxFailures
      BY <1>2, <2>1, <2>2, <2>4
    <3> HIDE DEF x, counted, ended
    <3>3. Consistent([stream EXCEPT ![s] = counted], others, stdin, requests, sessions, out, fin, n, abandoned)
      BY <1>1, <2>2, <3>2, SettledKeeps
    <3> HIDE DEF s, others
    <3>4. Consistent(stream', awaiting', stdin', requests, sessions, out, fin, n, abandoned)
      BY <1>1, <2>2, <3>1, <3>3, PumpKeeps
    <3> QED BY <3>1, <3>4
  <2> QED BY <2>3, <2>4
<1> QED BY <1>3, <1>4

LEMMA ForgottenKeeps ==
  ASSUME SpeechAssumption, NEW out, NEW fin, NEW n,
         Consistent(stream, awaiting, stdin, requests, sessions, out, fin, n, abandoned),
         NEW r \in awaiting, r.op = "discard"
  PROVE  Consistent(stream, awaiting \ {r}, stdin, requests, sessions, out, fin, n, abandoned)
<1> DEFINE s == r.stream
<1>1. /\ s \in Streams /\ stream \in [Streams -> StreamFields] /\ stream[s] \in StreamFields
      /\ stream[s].opened /\ (stream[s].failures < MaxFailures \/ stream[s].aborted)
  BY StreamOf
<1>2. Consistent([stream EXCEPT ![s] = stream[s]], awaiting \ {r}, stdin, requests, sessions, out,
                 fin, n, abandoned)
  BY <1>1, SettledKeeps
<1>3. [stream EXCEPT ![s] = stream[s]] = stream
  BY <1>1
<1> QED BY <1>2, <1>3

LEMMA RejectedKeeps ==
  ASSUME SpeechAssumption, active \in BOOLEAN, NEW out, NEW fin, NEW n,
         Consistent(stream, awaiting, stdin, requests, sessions, out, fin, n, abandoned),
         NEW r \in awaiting, Rejected(r)
  PROVE  /\ Consistent(stream', awaiting', stdin', requests, sessions, out, fin, n, abandoned')
         /\ active' \in BOOLEAN
<1>1. r.op \in {"start", "audio", "discard"}
  BY StreamOf
<1>2. CASE r.op = "start"
  <2>1. StartFails(r)
    BY <1>2 DEF Rejected
  <2> QED BY <1>2, <2>1, StartFailsKeeps
<1>3. CASE r.op = "audio"
  <2>1. AudioFails(r)
    BY <1>3 DEF Rejected
  <2> QED BY <1>3, <2>1, AudioFailsKeeps
<1>4. CASE r.op = "discard"
  <2>1. awaiting' = awaiting \ {r} /\ UNCHANGED <<active, stream, stdin, abandoned>>
    BY <1>4 DEF Rejected
  <2> QED BY <1>4, <2>1, ForgottenKeeps
<1> QED BY <1>1, <1>2, <1>3, <1>4

LEMMA FulfilledKeeps ==
  ASSUME SpeechAssumption, NEW out, NEW fin, NEW n, NEW u,
         Consistent(stream, awaiting, stdin, requests, sessions, out, fin, n, abandoned),
         NEW r \in awaiting, Fulfilled(r, u)
  PROVE  Consistent(stream', awaiting', stdin', requests, sessions, out, fin, n, abandoned')
<1> DEFINE s == r.stream
           others == awaiting \ {r}
<1>1. /\ s \in Streams /\ stream \in [Streams -> StreamFields] /\ stream[s] \in StreamFields
      /\ stream[s].opened /\ (stream[s].failures < MaxFailures \/ stream[s].aborted)
      /\ r.op \in {"start", "audio", "discard"}
  BY StreamOf
<1>2. abandoned' = abandoned
  BY DEF Fulfilled
<1>3. CASE r.op = "start"
  <2> DEFINE x == [stream[s] EXCEPT !.starting = FALSE, !.started = TRUE]
  <2>1. Pump(s, x, others)
    BY <1>3 DEF Fulfilled
  <2>2. /\ x \in StreamFields /\ x.opened /\ x.closed = stream[s].closed /\ x.aborted = stream[s].aborted
        /\ x.failures = stream[s].failures /\ x.inFlight = stream[s].inFlight /\ x.starting = FALSE
        /\ x.pending = stream[s].pending
    BY <1>1 DEF StreamFields
  <2> HIDE DEF x
  <2>3. Consistent([stream EXCEPT ![s] = x], others, stdin, requests, sessions, out, fin, n, abandoned)
    BY <1>1, <1>3, <2>2, SettledKeeps
  <2> HIDE DEF s, others
  <2> QED BY <1>1, <1>2, <2>1, <2>2, <2>3, PumpKeeps
<1>4. CASE r.op = "audio"
  <2> DEFINE x == [stream[s] EXCEPT !.inFlight = FALSE, !.failures = 0]
  <2>1. Pump(s, x, others)
    BY <1>4 DEF Fulfilled
  <2>2. /\ x \in StreamFields /\ x.opened /\ x.closed = stream[s].closed /\ x.aborted = stream[s].aborted
        /\ x.failures = 0 /\ x.inFlight = FALSE /\ x.starting = stream[s].starting
        /\ x.pending = stream[s].pending /\ 0 < MaxFailures
    <3>1. 0 \in 0..MaxFailures /\ 0 < MaxFailures
      BY DEF SpeechAssumption
    <3> QED BY <1>1, <3>1 DEF StreamFields
  <2> HIDE DEF x
  <2>3. Consistent([stream EXCEPT ![s] = x], others, stdin, requests, sessions, out, fin, n, abandoned)
    BY <1>1, <1>4, <2>2, SettledKeeps
  <2> HIDE DEF s, others
  <2> QED BY <1>1, <1>2, <2>1, <2>2, <2>3, PumpKeeps
<1>5. CASE r.op = "discard"
  <2>1. awaiting' = awaiting \ {r} /\ UNCHANGED <<stream, stdin>>
    BY <1>5 DEF Fulfilled
  <2> QED BY <1>2, <1>5, <2>1, ForgottenKeeps
<1> QED BY <1>1, <1>3, <1>4, <1>5

LEMMA StartAskedKeeps ==
  ASSUME SpeechAssumption,
         NEW str, NEW W, NEW inp, NEW req, NEW ss, NEW out, NEW fin, NEW n, NEW ab,
         Consistent(str, W, inp, req, ss, out, fin, n, ab),
         NEW s \in Streams, str[s].opened, ~str[s].aborted, ~str[s].starting,
         NEW r, r = Request(s, "start", <<>>),
         NEW y, y = Starting(str[s]), NEW inp1, inp1 \in {inp, Append(inp, r)}
  PROVE  Consistent([str EXCEPT ![s] = y], W \union {r}, inp1, req, ss, out, fin, n, ab)
<1> DEFINE x == str[s]
<1>1. /\ FlowsOf(s, x, inp, req, ss, out, fin, n) /\ PromisesOf(s, x, W) /\ n \in Nat
      /\ FlowTyped(fin, Utterances(out, s), Buffer(ss, s), Batches(req, s), Batches(inp, s),
                   ChunksOf(x.pending))
      /\ x \in StreamFields
  BY FlowOf
<1>2. inp \in Seq(Commands) /\ ~x.closed /\ Len(x.pending) <= MaxBuffered
      /\ (x.failures < MaxFailures \/ x.aborted)
  BY DEF Consistent, Typed, Opened, OpenedOf
<1> HIDE DEF x
<1>3. /\ y \in StreamFields /\ y.opened = x.opened /\ y.closed = x.closed /\ y.aborted = x.aborted
      /\ y.failures = x.failures /\ y.inFlight = x.inFlight /\ y.starting = TRUE /\ y.pending = x.pending
  BY <1>1 DEF StreamFields, Starting, x
<1>4. r \in Commands /\ r.stream = s /\ r.op = "start" /\ r.batch = <<>>
  <2>1. <<>> \in Seq(Chunks)
    OBVIOUS
  <2> QED BY <2>1 DEF Request, Commands
<1>5. PromisesOf(s, y, W \union {r})
  <2>1. ~x.starting
    BY DEF x
  <2> QED BY <1>1, <1>3, <1>4, <2>1 DEF PromisesOf
<1>6. FlowsOf(s, y, inp1, req, ss, out, fin, n)
  <2> DEFINE pend == ChunksOf(x.pending)
  <2>1. Flows(fin, Utterances(out, s), Buffer(ss, s), Batches(req, s), Batches(inp, s), pend, n)
    BY <1>1 DEF FlowsOf
  <2>2. FlowTyped(fin, Utterances(out, s), Buffer(ss, s), Batches(req, s), Batches(inp, s), pend)
    BY <1>1
  <2>3. pend \in Seq(Nat) /\ 0 \in 0..Len(pend)
    BY <2>2 DEF FlowTyped
  <2> HIDE DEF pend
  <2>4. Flows(fin, Utterances(out, s), Buffer(ss, s), Batches(req, s), Append(Batches(inp, s), <<>>), pend, n)
    BY <1>1, <2>1, <2>2, <2>3, FlowsPumped
  <2>5. Batches(Append(inp, r), s) = Append(Batches(inp, s), <<>>)
    BY <1>2, <1>4, BatchesOf, SMTT(30)
  <2>6. FlowsOf(s, y, inp, req, ss, out, fin, n)
    BY <1>3, <2>1 DEF FlowsOf, pend
  <2>7. FlowsOf(s, y, Append(inp, r), req, ss, out, fin, n)
    BY <1>3, <2>4, <2>5 DEF FlowsOf, pend
  <2> QED BY <2>6, <2>7
<1>7. ~str[s].aborted /\ str[s].opened /\ y.opened /\ ~y.closed
  BY <1>2, <1>3 DEF x
<1>8. inp1 \in {inp, Append(inp, r)} /\ Len(y.pending) <= MaxBuffered /\ (y.failures < MaxFailures \/ y.aborted)
  BY <1>2, <1>3
<1>9. Consistent([str EXCEPT ![s] = y], W \union {r}, inp1, req, ss, out, fin, n, ab)
  BY <1>3, <1>4, <1>5, <1>6, <1>7, <1>8, AskedKeeps
<1> QED BY <1>9

LEMMA NotStartedKeeps ==
  ASSUME SpeechAssumption, NEW out, NEW fin, NEW n,
         Consistent(stream, awaiting, stdin, requests, sessions, out, fin, n, abandoned),
         NEW r \in awaiting, r.op = "audio", NotStarted(r)
  PROVE  Consistent(stream', awaiting', stdin', requests, sessions, out, fin, n, abandoned')
<1> DEFINE s == r.stream
           x == [stream[s] EXCEPT !.inFlight = FALSE]
           str == [stream EXCEPT ![s] = x]
           others == awaiting \ {r}
<1>1. /\ s \in Streams /\ stream \in [Streams -> StreamFields] /\ stream[s] \in StreamFields
      /\ stream[s].opened /\ (stream[s].failures < MaxFailures \/ stream[s].aborted)
  BY StreamOf
<1>2. /\ \/ /\ CanStart(x) /\ stream' = [stream EXCEPT ![s] = Starting(x)]
            /\ SendRequest(Request(s, "start", <<>>), others)
         \/ stream' = str /\ awaiting' = others /\ UNCHANGED stdin
      /\ abandoned' = abandoned
  BY DEF NotStarted
<1>3. /\ x \in StreamFields /\ x.opened /\ x.closed = stream[s].closed /\ x.aborted = stream[s].aborted
      /\ x.failures = stream[s].failures /\ x.inFlight = FALSE /\ x.starting = stream[s].starting
      /\ x.pending = stream[s].pending
  BY <1>1 DEF StreamFields
<1> HIDE DEF x
<1>4. Consistent(str, others, stdin, requests, sessions, out, fin, n, abandoned)
  BY <1>1, <1>3, SettledKeeps
<1>5. str[s] = x /\ [str EXCEPT ![s] = Starting(x)] = [stream EXCEPT ![s] = Starting(x)]
  BY <1>1
<1> HIDE DEF s, str, others
<1>6. CASE /\ CanStart(x) /\ stream' = [stream EXCEPT ![s] = Starting(x)]
           /\ SendRequest(Request(s, "start", <<>>), others)
  <2> DEFINE q == Request(s, "start", <<>>)
  <2>1. ~x.starting /\ ~x.aborted /\ awaiting' = others \union {q} /\ stdin' \in {stdin, Append(stdin, q)}
    BY <1>6 DEF CanStart, SendRequest
  <2>2. str[s].opened /\ ~str[s].aborted /\ ~str[s].starting
    BY <1>3, <1>5, <2>1
  <2> DEFINE y == Starting(str[s])
  <2>3. stream' = [str EXCEPT ![s] = y]
    BY <1>5, <1>6
  <2>4. q = Request(s, "start", <<>>) /\ y = Starting(str[s])
    OBVIOUS
  <2> HIDE DEF q, y
  <2>5. Consistent([str EXCEPT ![s] = y], others \union {q}, stdin', requests, sessions, out, fin, n, abandoned)
    BY <1>1, <1>4, <2>1, <2>2, <2>4, StartAskedKeeps
  <2> QED BY <1>2, <2>1, <2>3, <2>5
<1>7. CASE stream' = str /\ awaiting' = others /\ UNCHANGED stdin
  BY <1>2, <1>4, <1>7
<1> QED BY <1>2, <1>6, <1>7

(* An answer is read: what it reports goes on, or is ignored.               *)
LEMMA AnswerRead ==
  ASSUME SpeechAssumption,
         NEW str, NEW W, NEW inp, NEW req, NEW ss, NEW out, NEW fin, NEW n, NEW ab,
         Consistent(str, W, inp, req, ss, out, fin, n, ab), out # <<>>
  PROVE  /\ Consistent(str, W, inp, req, ss, Tail(out), fin, n, ab)
         /\ ~str[Head(out).request.stream].aborted =>
              Consistent(str, W, inp, req, ss, Tail(out), fin \o Head(out).utterance, n, ab)
<1> DEFINE a == Head(out)
           rest == Tail(out)
           more == fin \o a.utterance
<1>1. /\ Typed(str, W, inp, req, ss, out, fin, n, ab) /\ Opened(str) /\ Promises(str, W)
      /\ InOrder(str, inp, req, ss, out, fin, n) /\ Untouched(str, W, inp, req, ss, out)
      /\ Ends(str, inp, req, ss, ab)
  BY DEF Consistent
<1>2. out \in Seq(Answers) /\ a \in Answers /\ rest \in Seq(Answers) /\ a \in Of(out)
      /\ Of(rest) \subseteq Of(out)
      /\ n \in Nat /\ fin \in Seq(Chunks)
  BY <1>1, OfParts DEF Typed, SpeechAssumption
<1>3. a.utterance \in Seq(Chunks) /\ a.request.stream \in Streams /\ more \in Seq(Chunks)
  <2>1. a.utterance \in Seq(Chunks) /\ a.request.stream \in Streams
    BY <1>2 DEF Answers, Commands
  <2> QED BY <1>2, <2>1
<1>4. ASSUME NEW s \in Streams
      PROVE  /\ Utterances(rest, s) = Tail(Utterances(out, s)) /\ Utterances(out, s) # <<>>
             /\ Head(Utterances(out, s)) = IF a.request.stream = s THEN a.utterance ELSE <<>>
  BY <1>2, UtterancesOf
<1> HIDE DEF a, rest, more
<1>5. ASSUME NEW s \in Streams, str[s].opened, ~str[s].aborted
      PROVE  /\ FlowsOf(s, str[s], inp, req, ss, rest, fin, n)
             /\ s = a.request.stream => FlowsOf(s, str[s], inp, req, ss, rest, more, n)
  <2> DEFINE pend == ChunksOf(str[s].pending)
             U == Utterances(out, s)
  <2>1. Flows(fin, U, Buffer(ss, s), Batches(req, s), Batches(inp, s), pend, n)
    BY <1>1, <1>5 DEF InOrder, FlowsOf
  <2>2. FlowTyped(fin, U, Buffer(ss, s), Batches(req, s), Batches(inp, s), pend)
    BY FlowOf
  <2>3. U # <<>>
    BY <1>4
  <2> HIDE DEF U, pend
  <2>4. /\ Flows(fin \o Head(U), Tail(U), Buffer(ss, s), Batches(req, s), Batches(inp, s), pend, n)
        /\ Flows(fin, Tail(U), Buffer(ss, s), Batches(req, s), Batches(inp, s), pend, n)
    BY <1>2, <2>1, <2>2, <2>3, FlowsAnswered
  <2> QED BY <1>4, <2>4 DEF FlowsOf, U, pend, more
<1>6. Untouched(str, W, inp, req, ss, rest)
  BY <1>1, <1>2 DEF Untouched, NoTrace
<1>7. Typed(str, W, inp, req, ss, rest, fin, n, ab) /\ Typed(str, W, inp, req, ss, rest, more, n, ab)
  BY <1>1, <1>2, <1>3 DEF Typed
<1>8. InOrder(str, inp, req, ss, rest, fin, n)
  BY <1>1, <1>5 DEF InOrder
<1>9. ASSUME ~str[a.request.stream].aborted PROVE InOrder(str, inp, req, ss, rest, more, n)
  <2> DEFINE s == a.request.stream
  <2>1. str[s].opened
    BY <1>1, <1>2, <1>3 DEF Untouched, NoTrace
  <2>2. FlowsOf(s, str[s], inp, req, ss, rest, more, n)
    BY <1>3, <1>5, <1>9, <2>1
  <2>3. Increasing(more) /\ Of(more) \subseteq 1..n
    BY <2>2 DEF FlowsOf, Flows
  <2>4. ASSUME NEW t \in Streams, str[t].opened, ~str[t].aborted PROVE t = s
    <3>1. PICK last \in 0..MaxStreams : \A u \in Streams : OpenedOf(u, str[u], last)
      BY <1>1 DEF Opened
    <3>2. s \in Nat /\ t \in Nat /\ last \in Nat
      BY <1>3 DEF Streams, SpeechAssumption
    <3>3. ~(s < last) /\ ~(t < last) /\ s <= last /\ t <= last
      BY <1>3, <1>9, <2>1, <2>4, <3>1 DEF OpenedOf
    <3> HIDE DEF s
    <3> QED BY <3>2, <3>3
  <2> HIDE DEF s
  <2> QED BY <2>2, <2>3, <2>4 DEF InOrder
<1>10. Consistent(str, W, inp, req, ss, rest, fin, n, ab)
  BY <1>1, <1>6, <1>7, <1>8 DEF Consistent
<1>11. ~str[a.request.stream].aborted => Consistent(str, W, inp, req, ss, rest, more, n, ab)
  BY <1>1, <1>6, <1>7, <1>9 DEF Consistent
<1> QED BY <1>10, <1>11 DEF a, rest, more
-----------------------------------------------------------------------------
(* The actions of the node.                                                 *)

LEMMA ReceiveAnswerKeeps ==
  ASSUME SpeechAssumption, SpeechInv, ReceiveAnswer
  PROVE  SpeechInv'
<1> DEFINE a == Head(stdout)
           r == a.request
<1>1. /\ stdout # <<>> /\ stdout' = Tail(stdout) /\ captured' = captured /\ crashes' = crashes
      /\ requests' = requests /\ cancelled' = cancelled /\ sessions' = sessions
  BY DEF ReceiveAnswer, worker
<1>2. /\ active \in BOOLEAN
      /\ Consistent(stream, awaiting, stdin, requests, sessions, stdout, finals, captured, abandoned)
  BY DEF SpeechInv
<1>3. a \in Answers
  BY <1>1, <1>2 DEF Consistent, Typed
<1>4. /\ Consistent(stream, awaiting, stdin, requests, sessions, stdout', finals, captured, abandoned)
      /\ ~stream[r.stream].aborted =>
           Consistent(stream, awaiting, stdin, requests, sessions, stdout', finals \o a.utterance,
                      captured, abandoned)
  BY <1>1, <1>2, AnswerRead
<1>5. \/ UNCHANGED <<node, awaiting, stdin>>
      \/ r \in awaiting /\ Fulfilled(r, a.utterance)
      \/ r \in awaiting /\ a.kind = "notStarted" /\ NotStarted(r)
      \/ r \in awaiting /\ Rejected(r)
  BY DEF ReceiveAnswer
<1> HIDE DEF a, r
<1>6. /\ Consistent(stream', awaiting', stdin', requests, sessions, stdout', finals', captured, abandoned')
      /\ active' \in BOOLEAN
  <2>1. CASE UNCHANGED <<node, awaiting, stdin>>
    BY <1>2, <1>4, <2>1 DEF node
  <2>2. CASE r \in awaiting /\ Fulfilled(r, a.utterance)
    <3>1. /\ finals' = IF stream[r.stream].aborted THEN finals ELSE finals \o a.utterance
          /\ active' = active
      BY <2>2 DEF Fulfilled
    <3>2. Consistent(stream, awaiting, stdin, requests, sessions, stdout', finals', captured, abandoned)
      BY <1>4, <3>1
    <3> QED BY <1>2, <2>2, <3>1, <3>2, FulfilledKeeps
  <2>3. CASE r \in awaiting /\ a.kind = "notStarted" /\ NotStarted(r)
    <3>1. finals' = finals /\ active' = active
      BY <2>3 DEF NotStarted
    <3>2. r.op = "audio"
      BY <1>3, <2>3 DEF Answers, r
    <3>3. Consistent(stream', awaiting', stdin', requests, sessions, stdout', finals, captured, abandoned')
      BY <1>4, <2>3, <3>2, NotStartedKeeps
    <3> QED BY <1>2, <3>1, <3>3
  <2>4. CASE r \in awaiting /\ Rejected(r)
    <3>1. finals' = finals
      BY <2>4 DEF Rejected
    <3>2. /\ Consistent(stream', awaiting', stdin', requests, sessions, stdout', finals, captured, abandoned')
          /\ active' \in BOOLEAN
      BY <1>2, <1>4, <2>4, RejectedKeeps
    <3> QED BY <3>1, <3>2
  <2> QED BY <1>5, <2>1, <2>2, <2>3, <2>4
<1> QED BY <1>1, <1>6 DEF SpeechInv

LEMMA TimesOutKeeps ==
  ASSUME SpeechAssumption, SpeechInv, NEW r \in awaiting, TimesOut(r)
  PROVE  SpeechInv'
<1>1. /\ Rejected(r) /\ finals' = finals /\ stdout' = stdout /\ captured' = captured /\ crashes' = crashes
      /\ requests' = requests /\ cancelled' = cancelled /\ sessions' = sessions
  BY DEF TimesOut, Rejected, worker
<1>2. /\ active \in BOOLEAN
      /\ Consistent(stream, awaiting, stdin, requests, sessions, stdout, finals, captured, abandoned)
  BY DEF SpeechInv
<1>3. /\ Consistent(stream', awaiting', stdin', requests, sessions, stdout, finals, captured, abandoned')
      /\ active' \in BOOLEAN
  BY <1>1, <1>2, RejectedKeeps
<1> QED BY <1>1, <1>3 DEF SpeechInv

(* The streams that are open are the first ones, up to the newest.          *)
LEMMA NewestIs ==
  ASSUME SpeechAssumption, SpeechInv
  PROVE  /\ Newest \in 0..MaxStreams
         /\ \A s \in Streams : OpenedOf(s, stream[s], Newest)
<1>1. PICK last \in 0..MaxStreams : \A s \in Streams : OpenedOf(s, stream[s], last)
  BY DEF SpeechInv, Consistent, Opened
<1>2. {s \in Streams : stream[s].opened} = 1..last
  BY <1>1 DEF OpenedOf, Streams, SpeechAssumption
<1>3. last \in Nat /\ 1 \in Int /\ last \in Int
  BY DEF SpeechAssumption
<1>4. Cardinality(1..last) = last
  BY <1>3, FS_Interval
<1>5. Newest = last
  BY <1>2, <1>4 DEF Newest
<1> QED BY <1>1, <1>5

LEMMA CurrentIs ==
  ASSUME SpeechAssumption, SpeechInv, Current # 0
  PROVE  Current \in Streams /\ stream[Current].opened
<1>1. Current = Newest /\ Newest # 0
  BY DEF Current
<1>2. Newest \in Streams
  BY <1>1, NewestIs DEF Streams, SpeechAssumption
<1>3. Newest <= Newest
  BY <1>2 DEF Streams, SpeechAssumption
<1> QED BY <1>1, <1>2, <1>3, NewestIs DEF OpenedOf

LEMMA EndStreamKeeps ==
  ASSUME SpeechAssumption, SpeechInv, Seek \/ Stop
  PROVE  SpeechInv'
<1> DEFINE s == Current
<1>1. /\ s # 0 /\ AbortStream(s, stream[s], awaiting) /\ captured' = captured /\ finals' = finals
      /\ stdout' = stdout /\ crashes' = crashes /\ active' \in {active, FALSE}
      /\ requests' = requests /\ cancelled' = cancelled /\ sessions' = sessions
  BY DEF Seek, Stop, worker
<1>2. /\ active \in BOOLEAN
      /\ Consistent(stream, awaiting, stdin, requests, sessions, stdout, finals, captured, abandoned)
  BY DEF SpeechInv
<1>3. s \in Streams /\ stream[s].opened
  BY <1>1, CurrentIs
<1> HIDE DEF s
<1>4. stream \in [Streams -> StreamFields] /\ stream[s] \in StreamFields
  BY <1>2, <1>3 DEF Consistent, Typed
<1>5. [stream EXCEPT ![s] = stream[s]] = stream
  BY <1>3, <1>4
<1>6. Consistent(stream', awaiting', stdin', requests, sessions, stdout, finals, captured, abandoned')
  BY <1>1, <1>2, <1>3, <1>4, <1>5, StreamAbortKeeps
<1> QED BY <1>1, <1>2, <1>6 DEF SpeechInv

LEMMA ChunkKeeps ==
  ASSUME SpeechAssumption, SpeechInv, HandleAudioChunk
  PROVE  SpeechInv'
<1> DEFINE s == Current
           x == stream[s]
<1>1. PICK gap \in BOOLEAN : SendAudioChunk(s, [chunk |-> captured + 1, gap |-> gap])
  BY DEF HandleAudioChunk
<1>2. /\ s # 0 /\ captured < MaxChunks /\ captured' = captured + 1 /\ active' = active /\ finals' = finals
      /\ abandoned' = abandoned /\ stdout' = stdout /\ crashes' = crashes
      /\ requests' = requests /\ cancelled' = cancelled /\ sessions' = sessions
  BY DEF HandleAudioChunk, worker
<1>3. Consistent(stream, awaiting, stdin, requests, sessions, stdout, finals, captured, abandoned)
  BY DEF SpeechInv
<1>4. s \in Streams /\ x.opened
  BY <1>2, CurrentIs
<1> HIDE DEF s
<1>5. /\ stream \in [Streams -> StreamFields] /\ x \in StreamFields /\ captured \in Nat
      /\ captured + 1 \in Nat /\ captured + 1 \in captured..MaxChunks /\ captured + 1 \in Chunks
      /\ captured \in captured..(captured + 1)
      /\ x.closed => x.aborted
      /\ Len(x.pending) <= MaxBuffered /\ (x.failures < MaxFailures \/ x.aborted)
      /\ x.closed /\ s \notin abandoned => EndOf(s, stdin, requests, sessions)
      /\ awaiting \subseteq Commands /\ IsFiniteSet(awaiting) /\ stdin \in Seq(Commands)
      /\ \A r \in awaiting : r.op # "cancel"
      /\ abandoned \subseteq Streams /\ PromisesOf(s, x, awaiting)
  BY <1>2, <1>3, <1>4
     DEF Consistent, Typed, Opened, OpenedOf, Ends, Promises, SpeechAssumption, Chunks
<1>6. /\ x.opened /\ ~x.aborted => FlowsOf(s, x, stdin, requests, sessions, stdout, finals, captured)
      /\ \A y \in StreamFields :
           FlowTyped(finals, Utterances(stdout, s), Buffer(sessions, s), Batches(requests, s),
                     Batches(stdin, s), ChunksOf(y.pending))
  BY <1>3, <1>4, FlowOf
<1>7. CASE x.aborted \/ x.startFailed
  <2>1. stream' = stream /\ awaiting' = awaiting /\ stdin' = stdin
    BY <1>1, <1>7 DEF SendAudioChunk
  <2>2. ASSUME ~x.aborted PROVE FlowsOf(s, x, stdin, requests, sessions, stdout, finals, captured + 1)
    <3>1. Flows(finals, Utterances(stdout, s), Buffer(sessions, s), Batches(requests, s),
                Batches(stdin, s), ChunksOf(x.pending), captured)
      BY <1>4, <1>6, <2>2 DEF FlowsOf
    <3>2. 1..captured \subseteq 1..(captured + 1)
      BY <1>5
    <3> QED BY <3>1, <3>2 DEF FlowsOf, Flows
  <2>3. Consistent([stream EXCEPT ![s] = x], awaiting, stdin, requests, sessions, stdout, finals,
                   captured + 1, abandoned)
    <3>1. /\ \A r \in Of(stdin) : r \in Of(stdin) \/ r.stream = s
          /\ \A r \in awaiting \union awaiting : r.stream # s => (r \in awaiting <=> r \in awaiting)
      OBVIOUS
    <3> QED BY <1>3, <1>4, <1>5, <2>2, <3>1, ChangeKeeps, ZenonT(30)
  <2>4. [stream EXCEPT ![s] = x] = stream
    BY <1>4, <1>5
  <2> QED BY <1>2, <2>1, <2>3, <2>4 DEF SpeechInv
<1>8. CASE ~(x.aborted \/ x.startFailed)
  <2> DEFINE c == captured + 1
             chunk == [chunk |-> c, gap |-> gap]
             longer == Append(x.pending, chunk)
             excess == Max({0, Len(longer) - MaxBuffered})
             kept == SubSeq(longer, 1 + excess, Len(longer))
             y == [x EXCEPT !.pending = kept]
             pend == ChunksOf(x.pending)
  <2>1. Pump(s, y, awaiting)
    BY <1>1, <1>8 DEF SendAudioChunk
  <2>2. x.pending \in Seq(Pieces) /\ Len(x.pending) \in Nat /\ chunk \in Pieces
    BY <1>5 DEF StreamFields, Pieces
  <2>3. /\ longer \in Seq(Pieces) /\ Len(longer) = Len(x.pending) + 1 /\ longer[Len(x.pending) + 1] = chunk
        /\ \A i \in 1..Len(x.pending) : longer[i] = x.pending[i]
    <3> HIDE DEF chunk
    <3> QED BY <2>2
  <2>4. pend \in Seq(Chunks) /\ Len(pend) = Len(x.pending)
    <3>1. 0 \in 0..Len(x.pending)
      BY <2>2
    <3> HIDE DEF x
    <3> QED BY <2>2, <3>1, ChunksSplit
  <2>5. ChunksOf(longer) = Append(pend, c)
    <3>1. ChunksOf(longer) \in Seq(Chunks) /\ Len(ChunksOf(longer)) = Len(longer) /\ 0 \in 0..Len(longer)
      <4> HIDE DEF longer
      <4>1. 0 \in 0..Len(longer)
        BY <2>2, <2>3
      <4> QED BY <2>3, <4>1, ChunksSplit
    <3>2. Append(pend, c) \in Seq(Chunks) /\ Len(Append(pend, c)) = Len(x.pending) + 1
      BY <1>5, <2>4, SMTT(30)
    <3>3. ASSUME NEW i \in 1..(Len(x.pending) + 1) PROVE ChunksOf(longer)[i] = Append(pend, c)[i]
      <4>1. ChunksOf(longer)[i] = longer[i].chunk
        <5> HIDE DEF longer
        <5> QED BY <2>3 DEF ChunksOf
      <4>2. CASE i \in 1..Len(x.pending)
        <5>1. Append(pend, c)[i] = pend[i] /\ pend[i] = x.pending[i].chunk
          BY <2>2, <2>4, <4>2 DEF ChunksOf
        <5> HIDE DEF longer, pend
        <5> QED BY <2>3, <4>1, <4>2, <5>1
      <4>3. CASE i = Len(x.pending) + 1
        <5>1. Append(pend, c)[i] = c /\ chunk.chunk = c
          BY <2>4, <4>3, SMTT(30)
        <5> HIDE DEF longer, pend, chunk, c
        <5> QED BY <2>3, <4>1, <4>3, <5>1
      <4>4. i \in 1..Len(x.pending) \/ i = Len(x.pending) + 1
        BY <2>2
      <4> QED BY <4>2, <4>3, <4>4
    <3> HIDE DEF longer, pend, c
    <3> QED BY <2>3, <3>1, <3>2, <3>3, SeqEqual
  <2> HIDE DEF longer, chunk
  <2>6. Len(longer) - MaxBuffered \in Int /\ MaxBuffered \in Nat /\ MaxBuffered >= 1
        /\ Len(longer) \in Nat
    <3>1. Len(longer) = Len(x.pending) + 1
      BY <2>3
    <3> HIDE DEF x
    <3> QED BY <2>2, <3>1 DEF SpeechAssumption
  <2>7. excess = IF Len(longer) - MaxBuffered >= 0 THEN Len(longer) - MaxBuffered ELSE 0
    BY <2>6, LargestOfTwo
  <2>8. excess \in 0..Len(longer) /\ Len(longer) - excess <= MaxBuffered /\ 1 + excess = excess + 1
    <3> HIDE DEF excess
    <3> QED BY <2>6, <2>7
  <2> HIDE DEF excess
  <2>9. kept \in Seq(Pieces) /\ Len(kept) = Len(longer) - excess
        /\ ChunksOf(kept) = SubSeq(ChunksOf(longer), excess + 1, Len(longer))
    BY <2>3, <2>8, ChunksSplit
  <2> HIDE DEF kept
  <2>10. /\ y \in StreamFields /\ y.opened = x.opened /\ y.closed = x.closed /\ y.aborted = x.aborted
         /\ y.failures = x.failures /\ y.inFlight = x.inFlight /\ y.starting = x.starting /\ y.pending = kept
    BY <1>5, <2>9 DEF StreamFields
  <2>11. FlowsOf(s, y, stdin, requests, sessions, stdout, finals, c)
    <3> DEFINE U == Utterances(stdout, s)
               B == Buffer(sessions, s)
               R == Batches(requests, s)
               I == Batches(stdin, s)
    <3>1. Flows(finals, U, B, R, I, pend, captured)
      BY <1>4, <1>6, <1>8 DEF FlowsOf
    <3>2. FlowTyped(finals, U, B, R, I, pend)
      BY <1>5, <1>6
    <3> HIDE DEF U, B, R, I, pend
    <3>3. Flows(finals, U, B, R, I, Append(pend, c), c)
      BY <1>5, <3>1, <3>2, FlowsCaptured
    <3>4. /\ FlowTyped(finals, U, B, R, I, Append(pend, c)) /\ Len(Append(pend, c)) = Len(longer)
      <4>1. pend \in Seq(Nat) /\ c \in Nat
        BY <1>5, <3>2 DEF FlowTyped
      <4>2. Append(pend, c) \in Seq(Nat) /\ Len(Append(pend, c)) = Len(longer)
        <5>1. Len(longer) = Len(x.pending) + 1 /\ Len(pend) = Len(x.pending)
          BY <2>3, <2>4 DEF pend
        <5> HIDE DEF c, x
        <5> QED BY <4>1, <5>1
      <4> QED BY <3>2, <4>2 DEF FlowTyped
    <3>5. Flows(finals, U, B, R, I, SubSeq(Append(pend, c), excess + 1, Len(longer)), c)
      <4>1. excess \in 0..Len(Append(pend, c)) /\ c \in Nat
        BY <1>5, <2>8, <3>4
      <4> HIDE DEF c
      <4>2. Flows(finals, U, B, R, I, SubSeq(Append(pend, c), excess + 1, Len(Append(pend, c))), c)
        BY <3>3, <3>4, <4>1, FlowsPumped
      <4> QED BY <3>4, <4>2
    <3> QED BY <2>5, <2>9, <2>10, <3>5 DEF FlowsOf, U, B, R, I
  <2> HIDE DEF y
  <2>12. Len(y.pending) <= MaxBuffered
    BY <2>8, <2>9, <2>10
  <2>13. PromisesOf(s, y, awaiting)
    BY <1>5, <2>10 DEF PromisesOf
  <2>14. Consistent([stream EXCEPT ![s] = y], awaiting, stdin, requests, sessions, stdout, finals, c, abandoned)
    <3>1. /\ \A r \in Of(stdin) : r \in Of(stdin) \/ r.stream = s
          /\ \A r \in awaiting \union awaiting : r.stream # s => (r \in awaiting <=> r \in awaiting)
      OBVIOUS
    <3>2. y.opened /\ (y.closed => y.aborted) /\ ~x.aborted
      BY <1>4, <1>5, <1>8, <2>10
    <3> QED BY <1>3, <1>4, <1>5, <2>10, <2>11, <2>12, <2>13, <3>1, <3>2, ChangeKeeps, ZenonT(30)
  <2>15. Consistent(stream', awaiting', stdin', requests, sessions, stdout, finals, c, abandoned)
    BY <1>4, <1>5, <2>1, <2>10, <2>14, PumpKeeps
  <2> QED BY <1>2, <2>15 DEF SpeechInv
<1> QED BY <1>7, <1>8

LEMMA QuietQueue ==
  ASSUME NEW q, \A i \in DOMAIN q : q[i] = <<>>
  PROVE  Sorted(q) /\ All(q) = {}
<1>1. \A i \in DOMAIN q : Increasing(q[i]) /\ Of(q[i]) = {}
  BY DEF Increasing, Of
<1> QED BY <1>1 DEF Sorted, All, Below

LEMMA NewFlows ==
  ASSUME NEW s, NEW x, x.pending = <<>>, NEW W, NEW inp, NEW req, NEW ss, NEW out, NEW fin, NEW n,
         NoTrace(s, W, inp, req, ss, out), Increasing(fin), Of(fin) \subseteq 1..n
  PROVE  FlowsOf(s, x, inp, req, ss, out, fin, n)
<1> DEFINE U == Utterances(out, s)
           R == Batches(req, s)
           I == Batches(inp, s)
<1>1. ASSUME NEW i \in DOMAIN U PROVE U[i] = <<>>
  BY DEF Utterances, NoTrace, Of
<1>2. ASSUME NEW i \in DOMAIN R PROVE R[i] = <<>>
  BY DEF Batches, NoTrace, Of
<1>3. ASSUME NEW i \in DOMAIN I PROVE I[i] = <<>>
  BY DEF Batches, NoTrace, Of
<1> HIDE DEF U, R, I
<1>4. Sorted(U) /\ All(U) = {} /\ Sorted(R) /\ All(R) = {} /\ Sorted(I) /\ All(I) = {}
  BY <1>1, <1>2, <1>3, QuietQueue
<1>5. Buffer(ss, s) = <<>> /\ ChunksOf(x.pending) = <<>>
  BY DEF Buffer, NoTrace, ChunksOf
<1>6. Line(Of(fin), All(U), Of(<<>>), All(R), All(I), Of(<<>>))
  BY <1>4, EmptyFlows DEF Line, Below
<1>7. Of(fin) \union All(U) \union Of(<<>>) \union All(R) \union All(I) \union Of(<<>>) \subseteq 1..n
  BY <1>4, EmptyFlows
<1>8. Flows(fin, U, <<>>, R, I, <<>>, n)
  BY <1>4, <1>6, <1>7, EmptyFlows DEF Flows
<1> QED BY <1>5, <1>8 DEF FlowsOf, U, R, I

LEMMA OpenStreamKeeps ==
  ASSUME SpeechAssumption, SpeechInv, OpenStream
  PROVE  SpeechInv'
<1> DEFINE last == Newest
           s == last + 1
           x == [NewStream EXCEPT !.opened = TRUE]
           str == [stream EXCEPT ![s] = x]
           r == Request(s, "start", <<>>)
<1>1. /\ Current = 0 /\ last < MaxStreams
      /\ stream' = [stream EXCEPT ![s] = Starting(x)]
      /\ awaiting' = awaiting \union {r} /\ stdin' \in {stdin, Append(stdin, r)}
      /\ captured' = captured /\ active' = active /\ finals' = finals
      /\ abandoned' = abandoned /\ stdout' = stdout /\ crashes' = crashes
      /\ requests' = requests /\ cancelled' = cancelled /\ sessions' = sessions
  BY DEF OpenStream, worker, SendRequest
<1>2. /\ Typed(stream, awaiting, stdin, requests, sessions, stdout, finals, captured, abandoned)
      /\ Opened(stream) /\ Promises(stream, awaiting)
      /\ InOrder(stream, stdin, requests, sessions, stdout, finals, captured)
      /\ Untouched(stream, awaiting, stdin, requests, sessions, stdout)
      /\ Ends(stream, stdin, requests, sessions, abandoned)
  BY DEF SpeechInv, Consistent
<1>3. last \in 0..MaxStreams /\ \A t \in Streams : OpenedOf(t, stream[t], last)
  BY NewestIs
<1>4. last = 0 \/ stream[last].closed
  BY <1>1 DEF Current
<1> HIDE DEF last
<1>5. s \in Streams /\ last \in Nat /\ last + 1 \in 0..MaxStreams /\ MaxStreams \in Nat
      /\ ~(s <= last)
  BY <1>1, <1>3 DEF Streams, SpeechAssumption
<1> HIDE DEF s
<1>6. /\ x \in StreamFields /\ x.opened /\ ~x.closed /\ ~x.aborted /\ ~x.starting /\ ~x.inFlight
      /\ x.failures = 0 /\ x.pending = <<>>
  <2>1. <<>> \in Seq(Pieces) /\ 0 \in 0..MaxFailures
    BY DEF SpeechAssumption
  <2> QED BY <2>1 DEF StreamFields, NewStream
<1>7. ~stream[s].opened /\ NoTrace(s, awaiting, stdin, requests, sessions, stdout)
  BY <1>2, <1>3, <1>5 DEF OpenedOf, Untouched
<1> HIDE DEF x
<1>8. str \in [Streams -> StreamFields] /\ str[s] = x /\ \A t \in Streams \ {s} : str[t] = stream[t]
  BY <1>2, <1>5, <1>6 DEF Typed
<1> HIDE DEF str
<1>9. Typed(str, awaiting, stdin, requests, sessions, stdout, finals, captured, abandoned)
  BY <1>2, <1>8 DEF Typed
<1>10. Opened(str)
  <2>1. OpenedOf(s, x, last + 1)
    <3>1. s = last + 1 /\ Len(<<>>) = 0 /\ 0 <= MaxBuffered /\ 0 < MaxFailures
      BY DEF s, SpeechAssumption
    <3> QED BY <1>5, <1>6, <3>1 DEF OpenedOf
  <2>2. ASSUME NEW t \in Streams \ {s} PROVE OpenedOf(t, str[t], last + 1)
    <3>1. OpenedOf(t, stream[t], last) /\ str[t] = stream[t] /\ t \in Nat /\ t # last + 1
      BY <1>3, <1>8 DEF Streams, SpeechAssumption, s
    <3>2. t < last + 1 => stream[t].closed
      <4>1. CASE t < last
        BY <3>1, <4>1 DEF OpenedOf
      <4>2. CASE t = last
        BY <1>4, <3>1, <4>2 DEF Streams, SpeechAssumption
      <4> QED BY <1>5, <3>1, <4>1, <4>2
    <3>3. stream[t].opened <=> t <= last + 1
      BY <1>5, <3>1 DEF OpenedOf
    <3> QED BY <3>1, <3>2, <3>3 DEF OpenedOf
  <2>3. \A t \in Streams : OpenedOf(t, str[t], last + 1)
    BY <1>8, <2>1, <2>2
  <2> QED BY <1>5, <2>3 DEF Opened
<1>11. Promises(str, awaiting)
  <2>1. PromisesOf(s, x, awaiting)
    BY <1>6, <1>7 DEF PromisesOf, NoTrace
  <2>2. \A t \in Streams : PromisesOf(t, str[t], awaiting)
    BY <1>2, <1>8, <2>1 DEF Promises
  <2> QED BY <1>2, <2>2 DEF Promises
<1>12. InOrder(str, stdin, requests, sessions, stdout, finals, captured)
  <2>1. FlowsOf(s, x, stdin, requests, sessions, stdout, finals, captured)
    BY <1>2, <1>6, <1>7, NewFlows DEF InOrder
  <2> QED BY <1>2, <1>8, <2>1 DEF InOrder
<1>13. Untouched(str, awaiting, stdin, requests, sessions, stdout)
  BY <1>2, <1>6, <1>8 DEF Untouched
<1>14. Ends(str, stdin, requests, sessions, abandoned)
  BY <1>2, <1>6, <1>8 DEF Ends
<1>15. Consistent(str, awaiting, stdin, requests, sessions, stdout, finals, captured, abandoned)
  BY <1>9, <1>10, <1>11, <1>12, <1>13, <1>14 DEF Consistent
<1> DEFINE y == Starting(str[s])
<1>16. stream' = [str EXCEPT ![s] = y]
  BY <1>1, <1>2, <1>5, <1>8 DEF Typed, str
<1>17. r = Request(s, "start", <<>>) /\ y = Starting(str[s]) /\ stdin' \in {stdin, Append(stdin, r)}
  BY <1>1
<1> HIDE DEF r, y
<1>18. str[s].opened /\ ~str[s].aborted /\ ~str[s].starting
  BY <1>6, <1>8
<1>19. Consistent([str EXCEPT ![s] = y], awaiting \union {r}, stdin', requests, sessions, stdout,
                  finals, captured, abandoned)
  BY <1>5, <1>15, <1>17, <1>18, StartAskedKeeps
<1> QED BY <1>1, <1>16, <1>19 DEF SpeechInv
-----------------------------------------------------------------------------
(* The actions of the worker.                                               *)

LEMMA ReadRequestKeeps ==
  ASSUME SpeechAssumption, SpeechInv, ReadRequest
  PROVE  SpeechInv'
<1> DEFINE r == Head(stdin)
           rest == Tail(stdin)
<1>1. /\ stdin # <<>> /\ stdin' = rest
      /\ \/ r.op = "cancel" /\ cancelled' = Remember(r.stream) /\ requests' = requests
         \/ requests' = Append(requests, r) /\ cancelled' = cancelled
      /\ UNCHANGED <<node, awaiting, sessions, stdout, crashes>>
  BY Zenon DEF ReadRequest
<1>2. /\ Typed(stream, awaiting, stdin, requests, sessions, stdout, finals, captured, abandoned)
      /\ Opened(stream) /\ Promises(stream, awaiting)
      /\ InOrder(stream, stdin, requests, sessions, stdout, finals, captured)
      /\ Untouched(stream, awaiting, stdin, requests, sessions, stdout)
      /\ Ends(stream, stdin, requests, sessions, abandoned)
      /\ cancelled \in Seq(Streams) /\ Len(cancelled) <= MaxCancelled
  BY DEF SpeechInv, Consistent
<1>3. /\ stdin \in Seq(Commands) /\ requests \in Seq(Commands) /\ r \in Commands /\ r \in Of(stdin)
      /\ rest \in Seq(Commands) /\ Of(rest) \subseteq Of(stdin)
      /\ Append(requests, r) \in Seq(Commands) /\ Of(Append(requests, r)) = Of(requests) \union {r}
  BY <1>1, <1>2, OfParts DEF Typed
<1> HIDE DEF r, rest
<1>4. ASSUME NEW req1 \in {requests, Append(requests, r)}, req1 = Append(requests, r) \/ r.op = "cancel"
      PROVE  Consistent(stream, awaiting, rest, req1, sessions, stdout, finals, captured, abandoned)
  <2>1. /\ req1 \in Seq(Commands) /\ Of(req1) \subseteq Of(requests) \union Of(stdin)
    <3>1. CASE req1 = requests
      BY <1>3, <3>1
    <3>2. CASE req1 = Append(requests, r)
      BY <1>3, <3>2
    <3> QED BY <1>4, <3>1, <3>2
  <2>2. Typed(stream, awaiting, rest, req1, sessions, stdout, finals, captured, abandoned)
    BY <1>2, <1>3, <2>1 DEF Typed
  <2>3. Untouched(stream, awaiting, rest, req1, sessions, stdout)
    BY <1>2, <1>3, <2>1 DEF Untouched, NoTrace
  <2>4. Ends(stream, rest, req1, sessions, abandoned)
    <3>1. ASSUME NEW s \in Streams, EndOf(s, stdin, requests, sessions)
          PROVE  EndOf(s, rest, req1, sessions)
      BY <1>1, <1>3, <1>4, <3>1, EndRead DEF r, rest
    <3> QED BY <1>2, <3>1 DEF Ends
  <2>5. ASSUME NEW s \in Streams, stream[s].opened, ~stream[s].aborted
        PROVE  FlowsOf(s, stream[s], rest, req1, sessions, stdout, finals, captured)
    <3> DEFINE U == Utterances(stdout, s)
               B == Buffer(sessions, s)
               R == Batches(requests, s)
               I == Batches(stdin, s)
               pend == ChunksOf(stream[s].pending)
    <3>1. Flows(finals, U, B, R, I, pend, captured) /\ FlowTyped(finals, U, B, R, I, pend) /\ captured \in Nat
      BY <2>5, FlowOf DEF SpeechInv, FlowsOf
    <3>2. /\ I # <<>> /\ Batches(rest, s) = Tail(I)
          /\ Head(I) = IF r.stream = s THEN r.batch ELSE <<>>
          /\ Batches(Append(requests, r), s) = Append(R, Head(I))
      <4>1. /\ I # <<>> /\ Batches(Tail(stdin), s) = Tail(I)
            /\ Head(I) = IF Head(stdin).stream = s THEN Head(stdin).batch ELSE <<>>
        BY ONLY SpeechAssumption, <1>1, <1>3, BatchesOf
      <4>2. Batches(Append(requests, r), s) = Append(R, IF r.stream = s THEN r.batch ELSE <<>>)
        BY ONLY SpeechAssumption, <1>3, BatchesOf
      <4> HIDE DEF I, R
      <4> QED BY <4>1, <4>2 DEF r, rest
    <3> HIDE DEF U, B, R, I, pend
    <3>3. Flows(finals, U, B, Append(R, Head(I)), Tail(I), pend, captured)
          /\ Flows(finals, U, B, R, Tail(I), pend, captured)
      BY <3>1, <3>2, FlowsRead
    <3>4. CASE req1 = requests
      BY <3>2, <3>3, <3>4 DEF FlowsOf, U, B, R, pend
    <3>5. CASE req1 = Append(requests, r)
      BY <3>2, <3>3, <3>5 DEF FlowsOf, U, B, pend
    <3> QED BY <3>4, <3>5
  <2>6. InOrder(stream, rest, req1, sessions, stdout, finals, captured)
    BY <1>2, <2>5 DEF InOrder
  <2> QED BY <1>2, <2>2, <2>3, <2>4, <2>6 DEF Consistent
<1>5. Consistent(stream, awaiting, stdin', requests', sessions, stdout, finals, captured, abandoned)
  BY <1>1, <1>4
<1>6. cancelled' \in Seq(Streams) /\ Len(cancelled') <= MaxCancelled
  <2>1. r.stream \in Streams
    BY <1>3 DEF Commands
  <2> QED BY <1>1, <1>2, <2>1, RememberTyped
<1>7. /\ stream' = stream /\ awaiting' = awaiting /\ sessions' = sessions /\ stdout' = stdout
      /\ finals' = finals /\ captured' = captured /\ abandoned' = abandoned
      /\ active' = active /\ crashes' = crashes
  BY <1>1 DEF node
<1> QED BY <1>5, <1>6, <1>7 DEF SpeechInv

(* What a command does to the sessions ss and to the answers out: the four  *)
(* ways in which the chunks of its stream go on.                            *)
LEMMA HandledKeeps ==
  ASSUME SpeechAssumption,
         NEW str, NEW W, NEW inp, NEW req, NEW ss, NEW out, NEW fin, NEW n, NEW ab,
         Consistent(str, W, inp, req, ss, out, fin, n, ab), req # <<>>,
         NEW r, r = Head(req), NEW a \in Answers, a.request = r,
         NEW ss1, DOMAIN ss1 \subseteq DOMAIN ss \union {r.stream},
         \A t \in DOMAIN ss1 : ss1[t] \in Seq(Chunks),
         \A t \in Streams \ {r.stream} : Buffer(ss1, t) = Buffer(ss, t),
         r.op = "start" \/ (r.stream \in DOMAIN ss1 => r.stream \in DOMAIN ss),
         r.op = "discard" => r.stream \notin DOMAIN ss1,
         \/ /\ Buffer(ss1, r.stream) \in {Buffer(ss, r.stream), <<>>} /\ a.utterance = <<>>
         \/ \E k, e \in 0..Len(Buffer(ss, r.stream) \o r.batch) :
              \/ /\ a.utterance \in {<<>>, SubSeq(Buffer(ss, r.stream) \o r.batch, 1, k)}
                 /\ Buffer(ss1, r.stream) =
                      SubSeq(Buffer(ss, r.stream) \o r.batch, k + 1, Len(Buffer(ss, r.stream) \o r.batch))
              \/ /\ a.utterance = <<>>
                 /\ Buffer(ss1, r.stream) = SubSeq(Buffer(ss, r.stream) \o r.batch, k + 1, e)
  PROVE  Consistent(str, W, inp, Tail(req), ss1, Append(out, a), fin, n, ab)
<1> DEFINE rest == Tail(req)
           more == Append(out, a)
<1>1. /\ Typed(str, W, inp, req, ss, out, fin, n, ab) /\ Opened(str) /\ Promises(str, W)
      /\ InOrder(str, inp, req, ss, out, fin, n) /\ Untouched(str, W, inp, req, ss, out)
      /\ Ends(str, inp, req, ss, ab)
  BY DEF Consistent
<1>2. /\ req \in Seq(Commands) /\ r \in Commands /\ r \in Of(req)
      /\ rest \in Seq(Commands) /\ Of(rest) \subseteq Of(req)
      /\ out \in Seq(Answers) /\ more \in Seq(Answers) /\ Of(more) = Of(out) \union {a}
  BY ONLY <1>1, req # <<>>, r = Head(req), a \in Answers, OfParts, SMTT(30) DEF Typed, rest, more
<1>3. r.stream \in Streams /\ r.batch \in Seq(Chunks)
  BY <1>2 DEF Commands
<1> HIDE DEF rest, more
<1>4. Typed(str, W, inp, rest, ss1, more, fin, n, ab)
  BY <1>1, <1>2, <1>3 DEF Typed
<1>5. Untouched(str, W, inp, rest, ss1, more)
  BY <1>1, <1>2 DEF Untouched, NoTrace
<1>6. Ends(str, inp, rest, ss1, ab)
  <2>1. ASSUME NEW s \in Streams, EndOf(s, inp, req, ss) PROVE EndOf(s, inp, rest, ss1)
    <3>1. Starts(r, s) \/ (s \in DOMAIN ss1 => s \in DOMAIN ss)
      BY DEF Starts
    <3>2. r.stream = s /\ r.op = "discard" => s \notin DOMAIN ss1
      OBVIOUS
    <3> QED BY <1>2, <2>1, <3>1, <3>2, EndHandled DEF rest
  <2> QED BY <1>1, <2>1 DEF Ends
<1>7. ASSUME NEW s \in Streams, str[s].opened, ~str[s].aborted
      PROVE  FlowsOf(s, str[s], inp, rest, ss1, more, fin, n)
  <2> DEFINE U == Utterances(out, s)
             B == Buffer(ss, s)
             R == Batches(req, s)
             I == Batches(inp, s)
             pend == ChunksOf(str[s].pending)
             B1 == Buffer(ss1, s)
  <2>1. Flows(fin, U, B, R, I, pend, n) /\ FlowTyped(fin, U, B, R, I, pend) /\ n \in Nat
    BY <1>7, FlowOf DEF FlowsOf
  <2>2. /\ R # <<>> /\ Batches(rest, s) = Tail(R)
        /\ Head(R) = IF r.stream = s THEN r.batch ELSE <<>>
    <3>1. req \in Seq(Commands)
      BY <1>2
    <3>2. /\ R # <<>> /\ Batches(Tail(req), s) = Tail(R)
          /\ Head(R) = IF Head(req).stream = s THEN Head(req).batch ELSE <<>>
      <4> HIDE DEF rest
      <4> QED BY ONLY SpeechAssumption, <3>1, req # <<>>, BatchesOf
    <3> HIDE DEF R
    <3> QED BY <3>2 DEF rest
  <2>3. Utterances(more, s) = Append(U, IF r.stream = s THEN a.utterance ELSE <<>>)
    BY ONLY SpeechAssumption, <1>2, a \in Answers, a.request = r, UtterancesOf DEF more
  <2>4. B \in Seq(Nat) /\ Head(R) \in Seq(Nat) /\ Tail(R) \in Seq(Seq(Nat)) /\ B \o Head(R) \in Seq(Nat)
    BY ONLY <2>1, <2>2 DEF FlowTyped
  <2> HIDE DEF U, B, R, I, pend, B1
  <2>5. Flows(fin, U, B \o Head(R), Tail(R), I, pend, n) /\ Flows(fin, U, B, Tail(R), I, pend, n)
    BY <2>1, <2>2, FlowsJoined
  <2>6. FlowTyped(fin, U, B \o Head(R), Tail(R), I, pend) /\ FlowTyped(fin, U, B, Tail(R), I, pend)
    BY <2>1, <2>4 DEF FlowTyped
  <2>7. /\ Flows(fin, Append(U, <<>>), B, Tail(R), I, pend, n)
        /\ Flows(fin, Append(U, <<>>), <<>>, Tail(R), I, pend, n)
    <3>1. 0 \in 0..Len(B)
      BY ONLY <2>4
    <3> QED BY <2>1, <2>5, <2>6, <3>1, FlowsCut
  <2>8. CASE r.stream # s
    <3>1. B1 = B
      BY <2>8 DEF B1, B
    <3> QED BY <2>2, <2>3, <2>7, <2>8, <3>1 DEF FlowsOf, U, B1, I, pend
  <2>9. CASE r.stream = s /\ Buffer(ss1, r.stream) \in {Buffer(ss, r.stream), <<>>} /\ a.utterance = <<>>
    <3>1. B1 \in {B, <<>>}
      BY <2>9 DEF B1, B
    <3> QED BY <2>2, <2>3, <2>7, <2>9, <3>1 DEF FlowsOf, U, B1, I, pend
  <2>10. ASSUME r.stream = s, NEW all, all = B \o r.batch,
                NEW k \in 0..Len(all), NEW e \in 0..Len(all),
                \/ a.utterance \in {<<>>, SubSeq(all, 1, k)} /\ B1 = SubSeq(all, k + 1, Len(all))
                \/ a.utterance = <<>> /\ B1 = SubSeq(all, k + 1, e)
         PROVE  Flows(fin, Append(U, a.utterance), B1, Tail(R), I, pend, n)
    <3>1. all = B \o Head(R)
      BY <2>2, <2>10
    <3>2. /\ Flows(fin, Append(U, SubSeq(all, 1, k)), SubSeq(all, k + 1, Len(all)), Tail(R), I, pend, n)
          /\ Flows(fin, Append(U, <<>>), SubSeq(all, k + 1, e), Tail(R), I, pend, n)
      BY <2>1, <2>5, <2>6, <3>1, FlowsCut
    <3>3. Flows(fin, Append(U, <<>>), SubSeq(all, k + 1, Len(all)), Tail(R), I, pend, n)
      <4>1. all \in Seq(Nat)
        BY <2>4, <3>1, Zenon
      <4>2. Len(all) \in 0..Len(all)
        BY ONLY <4>1
      <4> QED BY <2>1, <2>5, <2>6, <3>1, <4>2, FlowsCut
    <3> QED BY <2>10, <3>2, <3>3
  <2>11. CASE r.stream = s /\ \E k, e \in 0..Len(B \o r.batch) :
                \/ a.utterance \in {<<>>, SubSeq(B \o r.batch, 1, k)}
                  /\ B1 = SubSeq(B \o r.batch, k + 1, Len(B \o r.batch))
                \/ a.utterance = <<>> /\ B1 = SubSeq(B \o r.batch, k + 1, e)
    <3>1. Flows(fin, Append(U, a.utterance), B1, Tail(R), I, pend, n)
      BY <2>10, <2>11
    <3> QED BY <2>2, <2>3, <2>11, <3>1 DEF FlowsOf, U, B1, I, pend
  <2> QED BY <2>8, <2>9, <2>11 DEF B, B1
<1>8. InOrder(str, inp, rest, ss1, more, fin, n)
  BY <1>1, <1>7 DEF InOrder
<1> QED BY <1>1, <1>4, <1>5, <1>6, <1>8 DEF Consistent, rest, more

LEMMA BufferTyped ==
  ASSUME NEW ss, DOMAIN ss \subseteq Streams, \A t \in DOMAIN ss : ss[t] \in Seq(Chunks), NEW s
  PROVE  Buffer(ss, s) \in Seq(Chunks) /\ Len(Buffer(ss, s)) \in Nat
<1>1. <<>> \in Seq(Chunks)
  OBVIOUS
<1>2. Buffer(ss, s) \in Seq(Chunks)
  BY <1>1 DEF Buffer
<1> QED BY <1>2

LEMMA DiscardedIs ==
  ASSUME NEW s
  PROVE  /\ DOMAIN Discarded(s) = DOMAIN sessions \ {s}
         /\ \A t \in DOMAIN sessions \ {s} : Discarded(s)[t] = sessions[t]
         /\ Buffer(Discarded(s), s) = <<>>
         /\ \A t : t # s => Buffer(Discarded(s), t) = Buffer(sessions, t)
BY DEF Discarded, Buffer

LEMMA PutKeeps ==
  ASSUME NEW s, NEW q \in Seq(Chunks), \A t \in DOMAIN sessions : sessions[t] \in Seq(Chunks)
  PROVE  /\ DOMAIN Put(s, q) = DOMAIN sessions \union {s}
         /\ \A t \in DOMAIN Put(s, q) : Put(s, q)[t] \in Seq(Chunks)
         /\ Buffer(Put(s, q), s) = q
<1>1. /\ DOMAIN Put(s, q) = DOMAIN sessions \union {s}
      /\ \A t \in DOMAIN Put(s, q) : Put(s, q)[t] = IF t = s THEN q ELSE sessions[t]
  BY DEF Put
<1> QED BY <1>1 DEF Buffer

LEMMA PutElsewhere ==
  ASSUME NEW s, NEW q
  PROVE  \A t : t # s => Buffer(Put(s, q), t) = Buffer(sessions, t)
BY DEF Put, Buffer

(* One command of the main thread: what it leaves in the sessions, and the  *)
(* answer a that it writes.                                                 *)
LEMMA EmitIs ==
  ASSUME NEW r \in Commands, NEW kind \in {"ok", "notStarted", "error", "cancelled"},
         kind = "notStarted" => r.op = "audio", NEW u \in Seq(Chunks), Emit(r, kind, u)
  PROVE  \E a \in Answers : a.request = r /\ a.utterance = u /\ stdout' = Append(stdout, a)
<1> DEFINE a == [request |-> r, kind |-> kind, utterance |-> u]
<1>1. a \in Answers /\ a.request = r /\ a.utterance = u
  BY DEF Answers
<1>2. stdout' = Append(stdout, a)
  BY DEF Emit
<1> HIDE DEF a
<1> QED BY <1>1, <1>2

LEMMA HandleRequestKeeps ==
  ASSUME SpeechAssumption, SpeechInv, HandleRequest
  PROVE  SpeechInv'
<1> DEFINE r == Head(requests)
           s == r.stream
           buffer == Buffer(sessions, s) \o r.batch
<1>1. /\ requests # <<>> /\ requests' = Tail(requests)
      /\ SkipCancelled(r) \/ HandleStart(r) \/ HandleAudio(r) \/ HandleEnd(r)
      /\ UNCHANGED <<node, awaiting, stdin, cancelled, crashes>>
  BY Zenon DEF HandleRequest
<1>2. Consistent(stream, awaiting, stdin, requests, sessions, stdout, finals, captured, abandoned)
  BY DEF SpeechInv
<1>3. /\ requests \in Seq(Commands) /\ DOMAIN sessions \subseteq Streams
      /\ \A t \in DOMAIN sessions : sessions[t] \in Seq(Chunks)
  BY <1>2 DEF Consistent, Typed
<1>4. r \in Commands
  BY <1>1, <1>3
<1>5. r.batch \in Seq(Chunks) /\ s \in Streams /\ <<>> \in Seq(Chunks)
  BY <1>4 DEF Commands
<1>6. buffer \in Seq(Chunks) /\ Len(buffer) \in Nat
  <2>1. Buffer(sessions, s) \in Seq(Chunks)
    BY <1>3, BufferTyped
  <2> HIDE DEF s
  <2> QED BY <1>5, <2>1
<1> HIDE DEF r, s, buffer
<1>7. ASSUME NEW a \in Answers, a.request = r, stdout' = Append(stdout, a),
             DOMAIN sessions' \subseteq DOMAIN sessions \union {s},
             \A t \in DOMAIN sessions' : sessions'[t] \in Seq(Chunks),
             \A t \in Streams \ {s} : Buffer(sessions', t) = Buffer(sessions, t),
             r.op = "start" \/ (s \in DOMAIN sessions' => s \in DOMAIN sessions),
             r.op = "discard" => s \notin DOMAIN sessions',
             \/ Buffer(sessions', s) \in {Buffer(sessions, s), <<>>} /\ a.utterance = <<>>
             \/ \E k, e \in 0..Len(buffer) :
                  \/ /\ a.utterance \in {<<>>, SubSeq(buffer, 1, k)}
                     /\ Buffer(sessions', s) = SubSeq(buffer, k + 1, Len(buffer))
                  \/ a.utterance = <<>> /\ Buffer(sessions', s) = SubSeq(buffer, k + 1, e)
      PROVE  SpeechInv'
  <2>1. Consistent(stream, awaiting, stdin, requests', sessions', stdout', finals, captured, abandoned)
    <3>1. \/ Buffer(sessions', s) \in {Buffer(sessions, s), <<>>} /\ a.utterance = <<>>
          \/ \E k, e \in 0..Len(Buffer(sessions, s) \o r.batch) :
               \/ /\ a.utterance \in {<<>>, SubSeq(Buffer(sessions, s) \o r.batch, 1, k)}
                  /\ Buffer(sessions', s) =
                       SubSeq(Buffer(sessions, s) \o r.batch, k + 1, Len(Buffer(sessions, s) \o r.batch))
               \/ /\ a.utterance = <<>>
                  /\ Buffer(sessions', s) = SubSeq(Buffer(sessions, s) \o r.batch, k + 1, e)
      BY <1>7, Zenon DEF buffer
    <3>2. r = Head(requests)
      BY DEF r
    <3>3. Consistent(stream, awaiting, stdin, Tail(requests), sessions', Append(stdout, a), finals,
                     captured, abandoned)
      BY ONLY SpeechAssumption, <1>1, <1>2, <1>7, <3>1, <3>2, HandledKeeps DEF s
    <3> QED BY <1>1, <1>7, <3>3
  <2> QED BY <1>1, <2>1 DEF SpeechInv, node
<1>8. CASE SkipCancelled(r)
  <2>1. sessions' = Discarded(s) /\ Emit(r, "cancelled", <<>>)
    BY <1>8 DEF SkipCancelled, s
  <2>2. PICK a \in Answers : a.request = r /\ a.utterance = <<>> /\ stdout' = Append(stdout, a)
    BY <1>4, <1>5, <2>1, EmitIs
  <2> QED BY <1>3, <1>7, <2>1, <2>2, DiscardedIs
<1>9. CASE HandleStart(r)
  <2>1. r.op = "start" /\ sessions' = Put(s, <<>>) /\ Emit(r, "ok", <<>>)
    BY <1>9 DEF HandleStart, s
  <2>2. PICK a \in Answers : a.request = r /\ a.utterance = <<>> /\ stdout' = Append(stdout, a)
    BY <1>4, <1>5, <2>1, EmitIs, ZenonT(30)
  <2>3. /\ DOMAIN sessions' = DOMAIN sessions \union {s} /\ Buffer(sessions', s) = <<>>
        /\ \A t : t # s => Buffer(sessions', t) = Buffer(sessions, t)
        /\ \A t \in DOMAIN sessions' : sessions'[t] \in Seq(Chunks)
    <3>1. DOMAIN Put(s, <<>>) = DOMAIN sessions \union {s} /\ Buffer(Put(s, <<>>), s) = <<>>
      BY <1>3, <1>5, PutKeeps
    <3>2. \A t : t # s => Buffer(Put(s, <<>>), t) = Buffer(sessions, t)
      BY PutElsewhere
    <3>3. \A t \in DOMAIN Put(s, <<>>) : Put(s, <<>>)[t] \in Seq(Chunks)
      BY <1>3, <1>5, PutKeeps
    <3> QED BY <2>1, <3>1, <3>2, <3>3, Zenon
  <2> QED BY <1>7, <2>1, <2>2, <2>3
<1>10. CASE HandleEnd(r)
  <2>1. r.op = "discard" /\ sessions' = Discarded(s) /\ Emit(r, "ok", <<>>)
    BY <1>10 DEF HandleEnd, s
  <2>2. PICK a \in Answers : a.request = r /\ a.utterance = <<>> /\ stdout' = Append(stdout, a)
    BY <1>4, <1>5, <2>1, EmitIs, ZenonT(30)
  <2> QED BY <1>3, <1>7, <2>1, <2>2, DiscardedIs
<1>11. CASE HandleAudio(r) /\ s \notin DOMAIN sessions
  <2>1. r.op = "audio" /\ Emit(r, "notStarted", <<>>) /\ sessions' = sessions
    BY <1>11 DEF HandleAudio, s
  <2>2. PICK a \in Answers : a.request = r /\ a.utterance = <<>> /\ stdout' = Append(stdout, a)
    BY <1>4, <1>5, <2>1, EmitIs, ZenonT(30)
  <2> QED BY <1>3, <1>7, <2>1, <2>2
<1>12. CASE HandleAudio(r) /\ s \in DOMAIN sessions
  <2>1. buffer = sessions[s] \o r.batch
    BY <1>12 DEF buffer, Buffer
  <2>2. r.op = "audio" /\ \E cut \in 0..Len(buffer) :
          \/ /\ sessions' = Put(s, SubSeq(buffer, cut + 1, Len(buffer)))
             /\ \E u \in Recognised(buffer, cut) : Emit(r, "ok", u)
          \/ /\ Emit(r, "error", <<>>)
             /\ \E e \in Len(sessions[s])..Len(buffer) : sessions' = Put(s, SubSeq(buffer, cut + 1, e))
    BY <1>12, <2>1 DEF HandleAudio, s
  <2>3. PICK k \in 0..Len(buffer) :
          \/ /\ sessions' = Put(s, SubSeq(buffer, k + 1, Len(buffer)))
             /\ \E u \in Recognised(buffer, k) : Emit(r, "ok", u)
          \/ /\ Emit(r, "error", <<>>)
             /\ \E e \in Len(sessions[s])..Len(buffer) : sessions' = Put(s, SubSeq(buffer, k + 1, e))
    BY <2>2
  <2>4. /\ SubSeq(buffer, 1, k) \in Seq(Chunks)
        /\ \A e \in 0..Len(buffer) : SubSeq(buffer, k + 1, e) \in Seq(Chunks)
        /\ Len(buffer) \in 0..Len(buffer) /\ Len(sessions[s]) \in Nat
    <3>1. /\ 1 \in 1..(Len(buffer) + 1) /\ k + 1 \in 1..(Len(buffer) + 1) /\ k \in 0..Len(buffer)
          /\ Len(buffer) \in 0..Len(buffer)
      BY <1>6
    <3>2. Len(sessions[s]) \in Nat
      BY <1>3, <1>12
    <3> QED BY <1>6, <3>1, <3>2, OfPart
  <2>5. CASE /\ sessions' = Put(s, SubSeq(buffer, k + 1, Len(buffer)))
             /\ \E u \in Recognised(buffer, k) : Emit(r, "ok", u)
    <3>1. PICK u \in {<<>>, SubSeq(buffer, 1, k)} : Emit(r, "ok", u)
      BY <2>5 DEF Recognised
    <3>2. PICK a \in Answers : a.request = r /\ a.utterance = u /\ stdout' = Append(stdout, a)
      <4>1. u \in Seq(Chunks)
        BY <1>5, <2>4, <3>1
      <4> QED BY <1>4, <3>1, <4>1, EmitIs
    <3> DEFINE rest == SubSeq(buffer, k + 1, Len(buffer))
    <3>3. rest \in Seq(Chunks)
      BY <2>4
    <3>4. /\ DOMAIN sessions' = DOMAIN sessions \union {s} /\ Buffer(sessions', s) = rest
          /\ \A t \in DOMAIN sessions' : sessions'[t] \in Seq(Chunks)
          /\ \A t : t # s => Buffer(sessions', t) = Buffer(sessions, t)
      <4>1. sessions' = Put(s, rest)
        BY <2>5
      <4> HIDE DEF rest
      <4>2. DOMAIN Put(s, rest) = DOMAIN sessions \union {s} /\ Buffer(Put(s, rest), s) = rest
        BY <1>3, <3>3, PutKeeps
      <4>3. \A t \in DOMAIN Put(s, rest) : Put(s, rest)[t] \in Seq(Chunks)
        BY <1>3, <3>3, PutKeeps
      <4>4. \A t : t # s => Buffer(Put(s, rest), t) = Buffer(sessions, t)
        BY PutElsewhere
      <4> QED BY <4>1, <4>2, <4>3, <4>4, Zenon
    <3> QED BY <1>7, <1>12, <2>2, <2>4, <3>1, <3>2, <3>4
  <2>6. CASE /\ Emit(r, "error", <<>>)
             /\ \E e \in Len(sessions[s])..Len(buffer) : sessions' = Put(s, SubSeq(buffer, k + 1, e))
    <3>1. PICK a \in Answers : a.request = r /\ a.utterance = <<>> /\ stdout' = Append(stdout, a)
      BY <1>4, <1>5, <2>6, EmitIs
    <3>2. PICK e \in 0..Len(buffer) : sessions' = Put(s, SubSeq(buffer, k + 1, e))
      BY <1>6, <2>4, <2>6
    <3> DEFINE rest == SubSeq(buffer, k + 1, e)
    <3>3. rest \in Seq(Chunks)
      BY <2>4
    <3>4. /\ DOMAIN sessions' = DOMAIN sessions \union {s} /\ Buffer(sessions', s) = rest
          /\ \A t \in DOMAIN sessions' : sessions'[t] \in Seq(Chunks)
          /\ \A t : t # s => Buffer(sessions', t) = Buffer(sessions, t)
      <4>1. sessions' = Put(s, rest)
        BY <3>2
      <4> HIDE DEF rest
      <4>2. DOMAIN Put(s, rest) = DOMAIN sessions \union {s} /\ Buffer(Put(s, rest), s) = rest
        BY <1>3, <3>3, PutKeeps
      <4>3. \A t \in DOMAIN Put(s, rest) : Put(s, rest)[t] \in Seq(Chunks)
        BY <1>3, <3>3, PutKeeps
      <4>4. \A t : t # s => Buffer(Put(s, rest), t) = Buffer(sessions, t)
        BY PutElsewhere
      <4> QED BY <4>1, <4>2, <4>3, <4>4, Zenon
    <3> QED BY <1>7, <1>12, <2>2, <3>1, <3>4
  <2> QED BY <2>3, <2>5, <2>6
<1> QED BY <1>1, <1>8, <1>9, <1>10, <1>11, <1>12

LEMMA CrashKeeps ==
  ASSUME SpeechAssumption, SpeechInv, WorkerCrashes
  PROVE  SpeechInv'
<1> DEFINE N == Cardinality(awaiting)
<1>1. /\ crashes < MaxCrashes /\ crashes' = crashes + 1
      /\ stdin' = <<>> /\ requests' = <<>> /\ cancelled' = <<>>
      /\ sessions' = [s \in {} |-> <<>>]
      /\ stdout' = [i \in 1..N |->
                      [request |-> SetToSeq(awaiting)[i], kind |-> "error", utterance |-> <<>>]]
      /\ UNCHANGED <<node, awaiting>>
  BY DEF WorkerCrashes
<1>2. /\ Typed(stream, awaiting, stdin, requests, sessions, stdout, finals, captured, abandoned)
      /\ Opened(stream) /\ Promises(stream, awaiting)
      /\ InOrder(stream, stdin, requests, sessions, stdout, finals, captured)
      /\ Untouched(stream, awaiting, stdin, requests, sessions, stdout)
      /\ crashes \in 0..MaxCrashes /\ active \in BOOLEAN
  BY DEF SpeechInv, Consistent
<1>3. awaiting \subseteq Commands /\ N \in Nat /\ SetToSeq(awaiting) \in [1..N -> awaiting]
  BY <1>2, SetInSequence DEF Typed
<1> HIDE DEF N
<1>4. /\ stdout' \in Seq(Answers) /\ DOMAIN stdout' = 1..N
      /\ \A i \in 1..N : stdout'[i].request \in awaiting /\ stdout'[i].utterance = <<>>
  <2> DEFINE A(i) == [request |-> SetToSeq(awaiting)[i], kind |-> "error", utterance |-> <<>>]
  <2>1. <<>> \in Seq(Chunks)
    OBVIOUS
  <2>2. ASSUME NEW i \in 1..N PROVE A(i) \in Answers /\ A(i).request \in awaiting /\ A(i).utterance = <<>>
    BY <1>3, <2>1 DEF Answers
  <2>3. stdout' = [i \in 1..N |-> A(i)]
    BY <1>1
  <2> HIDE DEF A
  <2> QED BY <1>3, <2>2, <2>3
<1>5. \A a \in Of(stdout') : a.request \in awaiting
  BY <1>4 DEF Of
<1>6. DOMAIN sessions' = {} /\ Of(stdin') = {} /\ Of(requests') = {}
  BY <1>1 DEF Of
<1>7. Typed(stream, awaiting, stdin', requests', sessions', stdout', finals, captured, abandoned)
  <2>1. <<>> \in Seq(Commands)
    OBVIOUS
  <2> QED BY <1>1, <1>2, <1>4, <1>6, <2>1 DEF Typed
<1>8. Untouched(stream, awaiting, stdin', requests', sessions', stdout')
  BY <1>2, <1>5, <1>6 DEF Untouched, NoTrace
<1>9. Ends(stream, stdin', requests', sessions', abandoned)
  BY <1>1, <1>6 DEF Ends, EndOf, NoStart
<1>10. ASSUME NEW s \in Streams, stream[s].opened, ~stream[s].aborted
       PROVE  FlowsOf(s, stream[s], stdin', requests', sessions', stdout', finals, captured)
  <2> DEFINE U == Utterances(stdout, s)
             B == Buffer(sessions, s)
             R == Batches(requests, s)
             I == Batches(stdin, s)
             U1 == Utterances(stdout', s)
             pend == ChunksOf(stream[s].pending)
  <2>1. Flows(finals, U, B, R, I, pend, captured) /\ captured \in Nat
    BY <1>2, <1>10 DEF InOrder, FlowsOf, Typed
  <2>2. Increasing(finals) /\ Increasing(pend)
    BY <2>1 DEF Flows
  <2>3. ASSUME NEW i \in DOMAIN U1 PROVE U1[i] = <<>>
    BY <1>4 DEF Utterances
  <2> HIDE DEF U1
  <2>4. Sorted(U1) /\ All(U1) = {}
    BY <2>3, QuietQueue
  <2>5. Buffer(sessions', s) = <<>> /\ Batches(requests', s) = <<>> /\ Batches(stdin', s) = <<>>
    BY <1>1, <1>6 DEF Buffer, Batches
  <2> HIDE DEF U, B, R, I, pend
  <2>6. Flows(finals, U1, <<>>, <<>>, <<>>, pend, captured)
    BY <2>1, <2>2, <2>4, EmptyFlows, FlowsLess
  <2> QED BY <2>5, <2>6 DEF FlowsOf, U1, pend
<1>11. InOrder(stream, stdin', requests', sessions', stdout', finals, captured)
  BY <1>2, <1>10 DEF InOrder
<1>12. Consistent(stream, awaiting, stdin', requests', sessions', stdout', finals, captured, abandoned)
  BY <1>2, <1>7, <1>8, <1>9, <1>11 DEF Consistent
<1>13. cancelled' \in Seq(Streams) /\ Len(cancelled') <= MaxCancelled /\ crashes' \in 0..MaxCrashes
  BY <1>1, <1>2 DEF SpeechAssumption
<1>14. /\ stream' = stream /\ awaiting' = awaiting /\ finals' = finals /\ captured' = captured
       /\ abandoned' = abandoned /\ active' = active
  BY <1>1 DEF node
<1> QED BY <1>2, <1>12, <1>13, <1>14 DEF SpeechInv

LEMMA SpeechStarts ==
  ASSUME SpeechAssumption, SpeechInit
  PROVE  SpeechInv
<1>1. /\ active = TRUE /\ stream = [s \in Streams |-> NewStream] /\ captured = 0
      /\ awaiting = {} /\ stdin = <<>> /\ requests = <<>> /\ cancelled = <<>>
      /\ DOMAIN sessions = {} /\ stdout = <<>> /\ crashes = 0 /\ finals = <<>> /\ abandoned = {}
  BY DEF SpeechInit
<1>2. /\ NewStream \in StreamFields /\ ~NewStream.opened /\ ~NewStream.closed
      /\ ~NewStream.inFlight /\ ~NewStream.starting /\ Len(NewStream.pending) = 0
      /\ NewStream.failures = 0
  <2>1. <<>> \in Seq(Pieces) /\ 0 \in 0..MaxFailures
    BY DEF SpeechAssumption
  <2> QED BY <2>1 DEF StreamFields, NewStream
<1>3. Typed(stream, awaiting, stdin, requests, sessions, stdout, finals, captured, abandoned)
  <2>1. /\ <<>> \in Seq(Commands) /\ <<>> \in Seq(Answers) /\ <<>> \in Seq(Chunks) /\ 0 \in 0..MaxChunks
        /\ IsFiniteSet({})
    BY FS_EmptySet DEF SpeechAssumption
  <2> QED BY <1>1, <1>2, <2>1 DEF Typed
<1>4. Opened(stream)
  <2>1. 0 \in 0..MaxStreams /\ \A s \in Streams : ~(s <= 0) /\ ~(s < 0)
    BY DEF Streams, SpeechAssumption
  <2>2. \A s \in Streams : OpenedOf(s, stream[s], 0)
    BY <1>1, <1>2, <2>1 DEF OpenedOf, SpeechAssumption
  <2> QED BY <2>1, <2>2 DEF Opened
<1>5. Promises(stream, awaiting)
  BY <1>1, <1>2 DEF Promises, PromisesOf
<1>6. InOrder(stream, stdin, requests, sessions, stdout, finals, captured)
  BY <1>1, <1>2, EmptyFlows DEF InOrder
<1>7. Untouched(stream, awaiting, stdin, requests, sessions, stdout)
  BY <1>1 DEF Untouched, NoTrace, Of
<1>8. Ends(stream, stdin, requests, sessions, abandoned)
  BY <1>1, <1>2 DEF Ends
<1>9. cancelled \in Seq(Streams) /\ Len(cancelled) <= MaxCancelled /\ crashes \in 0..MaxCrashes
  BY <1>1 DEF SpeechAssumption
<1> QED BY <1>1, <1>3, <1>4, <1>5, <1>6, <1>7, <1>8, <1>9 DEF SpeechInv, Consistent

LEMMA SpeechStep ==
  ASSUME SpeechAssumption, SpeechInv, [SpeechNext]_speechVars
  PROVE  SpeechInv'
<1>1. CASE OpenStream
  BY <1>1, OpenStreamKeeps
<1>2. CASE HandleAudioChunk
  BY <1>2, ChunkKeeps
<1>3. CASE Seek \/ Stop
  BY <1>3, EndStreamKeeps
<1>4. CASE ReceiveAnswer
  BY <1>4, ReceiveAnswerKeeps
<1>5. ASSUME NEW r \in awaiting, TimesOut(r) PROVE SpeechInv'
  BY <1>5, TimesOutKeeps
<1>6. CASE ReadRequest
  BY <1>6, ReadRequestKeeps
<1>7. CASE HandleRequest
  BY <1>7, HandleRequestKeeps
<1>8. CASE WorkerCrashes
  BY <1>8, CrashKeeps
<1>9. CASE UNCHANGED speechVars
  BY <1>9 DEF SpeechInv, speechVars, node, worker
<1> QED BY <1>1, <1>2, <1>3, <1>4, <1>5, <1>6, <1>7, <1>8, <1>9 DEF SpeechNext

LEMMA SpeechTypes ==
  ASSUME SpeechAssumption, SpeechInv
  PROVE  SpeechTypeOK
<1>1. /\ Typed(stream, awaiting, stdin, requests, sessions, stdout, finals, captured, abandoned)
      /\ Opened(stream) /\ Promises(stream, awaiting)
  BY DEF SpeechInv, Consistent
<1>2. ASSUME NEW s \in Streams
      PROVE  LET x == stream[s] IN
               /\ {x.opened, x.closed, x.starting, x.started, x.startFailed, x.inFlight, x.aborted}
                    \subseteq BOOLEAN
               /\ x.failures \in 0..MaxFailures
               /\ x.pending \in Seq([chunk : Chunks, gap : BOOLEAN]) /\ Len(x.pending) <= MaxBuffered
               /\ x.inFlight <=> \E r \in awaiting : r.stream = s /\ r.op = "audio"
               /\ x.starting <=> \E r \in awaiting : r.stream = s /\ r.op = "start"
  <2> DEFINE x == stream[s]
  <2>1. x \in StreamFields /\ Len(x.pending) <= MaxBuffered /\ PromisesOf(s, x, awaiting)
    BY <1>1 DEF Typed, Opened, OpenedOf, Promises
  <2> HIDE DEF x
  <2>2. /\ {x.opened, x.closed, x.starting, x.started, x.startFailed, x.inFlight, x.aborted} \subseteq BOOLEAN
        /\ x.failures \in 0..MaxFailures /\ x.pending \in Seq([chunk : Chunks, gap : BOOLEAN])
    BY <2>1 DEF StreamFields, Pieces
  <2>3. /\ x.inFlight <=> \E r \in awaiting : r.stream = s /\ r.op = "audio"
        /\ x.starting <=> \E r \in awaiting : r.stream = s /\ r.op = "start"
    BY <2>1 DEF PromisesOf
  <2> QED BY <2>1, <2>2, <2>3 DEF x
<1>3. \A r \in awaiting : r.stream \in Streams /\ r.op \in {"start", "audio", "discard"}
  BY <1>1 DEF Typed, Commands, Promises
<1> QED BY <1>1, <1>2, <1>3 DEF SpeechInv, Typed, SpeechTypeOK

LEMMA OrderFollows ==
  ASSUME SpeechAssumption, SpeechInv
  PROVE  SpokenOnceInOrder
BY SpeechTypes DEF SpeechInv, Consistent, InOrder, Increasing, SpokenOnceInOrder

LEMMA EndsFollow ==
  ASSUME SpeechAssumption, SpeechInv
  PROVE  SessionsEnd
<1>1. stdin \in Seq(Commands) /\ requests \in Seq(Commands)
      /\ Ends(stream, stdin, requests, sessions, abandoned)
  BY DEF SpeechInv, Consistent, Typed
<1> DEFINE both == stdin \o requests
<1>2. /\ DOMAIN both = 1..(Len(stdin) + Len(requests)) /\ Len(stdin) \in Nat /\ Len(requests) \in Nat
      /\ DOMAIN stdin = 1..Len(stdin) /\ DOMAIN requests = 1..Len(requests)
      /\ \A i \in 1..Len(stdin) : both[i] = stdin[i]
      /\ \A i \in 1..Len(requests) : both[Len(stdin) + i] = requests[i]
  BY <1>1
<1> HIDE DEF both
<1>3. ASSUME NEW s \in Streams, EndsIn(stdin, s) \/ EndsIn(requests, s) PROVE EndOnItsWay(s)
  <2>1. \E i \in DOMAIN both : both[i].stream = s /\ both[i].op = "discard"
    <3>1. CASE EndsIn(stdin, s)
      <4>1. PICK i \in 1..Len(stdin) : stdin[i].stream = s /\ stdin[i].op = "discard"
        BY <1>2, <3>1 DEF EndsIn
      <4>2. i \in DOMAIN both /\ both[i] = stdin[i]
        BY <1>2
      <4> QED BY <4>1, <4>2
    <3>2. CASE EndsIn(requests, s)
      <4>1. PICK i \in 1..Len(requests) : requests[i].stream = s /\ requests[i].op = "discard"
        BY <1>2, <3>2 DEF EndsIn
      <4>2. Len(stdin) + i \in DOMAIN both /\ both[Len(stdin) + i] = requests[i]
        BY <1>2
      <4> QED BY <4>1, <4>2
    <3> QED BY <1>3, <3>1, <3>2
  <2> QED BY <2>1 DEF EndOnItsWay, both
<1>4. ASSUME NEW s \in Streams, stream[s].closed, s \notin abandoned, s \in DOMAIN sessions
      PROVE  EndOnItsWay(s)
  <2>1. EndOf(s, stdin, requests, sessions)
    BY <1>1, <1>4 DEF Ends
  <2>2. EndsIn(stdin, s) \/ EndsIn(requests, s)
    BY <1>4, <2>1 DEF EndOf
  <2> QED BY <1>3, <2>2
<1> QED BY <1>4 DEF SessionsEnd

(* Whatever the worker refuses, forgets or loses, the chunks of a stream    *)
(* that is not over move along one line, report, answers, session, commands *)
(* and adapter, in the order in which they were captured; and the command   *)
(* that ends a stream is never followed by one that starts it again.        *)
THEOREM SpeechIsConsistent ==
  SpeechSpec => []SpeechInv
<1>1. SpeechInit => SpeechInv
  BY SpeechAssumption, SpeechStarts
<1>2. SpeechInv /\ [SpeechNext]_speechVars => SpeechInv'
  BY SpeechAssumption, SpeechStep
<1> QED BY <1>1, <1>2, PTL DEF SpeechSpec

(* LocalSTTStreamSession and the worker: speech is reported in the order in *)
(* which it was spoken and never twice, for every number of streams, chunks *)
(* and crashes and every limit of the buffers.                              *)
THEOREM SpeechIsSpokenOnceInOrder ==
  SpeechSpec => []SpokenOnceInOrder
<1>1. SpeechInv => SpokenOnceInOrder
  BY SpeechAssumption, OrderFollows
<1> QED BY <1>1, SpeechIsConsistent, PTL

(* abort and the worker: no AudioSession outlives its stream, unless the    *)
(* worker was never told that the stream ended.                             *)
THEOREM SpeechSessionsEnd ==
  SpeechSpec => []SessionsEnd
<1>1. SpeechInv => SessionsEnd
  BY SpeechAssumption, EndsFollow
<1> QED BY <1>1, SpeechIsConsistent, PTL

=============================================================================
