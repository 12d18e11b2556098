---------------------------- MODULE WorkerClient ----------------------------
(***************************************************************************)
(* JsonLineWorkerClient: the requests of one adapter to a local inference   *)
(* worker, a child process that the first request starts, and the next one  *)
(* after a failure.                                                         *)
(*                                                                          *)
(* A step is a callback of Node with the promise continuations it releases. *)
(* A child that was told to stop may still write, and its "exit" comes      *)
(* later; a child that is gone but not reported yet takes requests and      *)
(* never answers.  All children the client ever had write to one            *)
(* stdoutBuffer: a line that ends one of another child is a bad line, and   *)
(* any child may write one at any time.  Partial results, which change      *)
(* nothing here, and sizes are left out.                                    *)
(***************************************************************************)
EXTENDS Integers, FiniteSets

CONSTANTS
  Requests,      \* the requests that may be made
  Bypass,        \* those with bypassQueueLimit: the cancel commands
  MaxQueueSize,  \* maxQueueSize
  MaxChildren    \* bound: children started; the next start throws

ASSUME ClientAssumption ==
  /\ IsFiniteSet(Requests) /\ Bypass \subseteq Requests
  /\ MaxQueueSize \in Nat \ {0}
  /\ MaxChildren \in Nat

Children == 1..MaxChildren

VARIABLES
  closed, state, child,   \* fields of the client; child is 0 for null
  readyPromise,           \* "none", "waiting" for the child or "resolved"
  startupTimer,           \* it is armed
  request,                \* of each request, how far it is: "reserved" while
                          \* the worker starts, "aborted" if its signal has
                          \* been aborted meanwhile, "pending" when sent
  sentTo,                 \* of each request: the child, 0: not sent
  process,                \* external: each child
  loading                 \* external: the children that have yet to say "ready"

clientVars == <<closed, state, child, readyPromise, startupTimer, request, sentTo,
                process, loading>>

ClientInit ==
  /\ closed = FALSE /\ state = "stopped" /\ child = 0
  /\ readyPromise = "none" /\ startupTimer = FALSE
  /\ request = [r \in Requests |-> "idle"]
  /\ sentTo = [r \in Requests |-> 0]
  /\ process = [c \in Children |-> "unborn"]
  /\ loading = {}

Reserved == {r \in Requests : request[r] \in {"reserved", "aborted"}}
Outstanding == Reserved \union {r \in Requests : request[r] = "pending"}

(* The stages when the requests of S get to stage s.                        *)
Mark(req, S, s) == [r \in Requests |-> IF r \in S THEN s ELSE req[r]]

(* Faulty: the child is forgotten without being told to stop.               *)
KilledNever == process

(* The processes when the client has told its child to stop.                *)
Killed == [c \in Children |-> IF c = child /\ process[c] = "running" THEN "killed" ELSE process[c]]
-----------------------------------------------------------------------------
(* start: the next child, or none when spawn throws.                        *)
Spawn ==
  \E c \in Children :
    /\ process[c] = "unborn" /\ \A d \in Children : d < c => process[d] # "unborn"
    /\ state' = "starting" /\ child' = c
    /\ readyPromise' = "waiting" /\ startupTimer' = TRUE
    /\ process' = [process EXCEPT ![c] = "running"] /\ loading' = loading \union {c}

SpawnThrows ==
  /\ state' = "error"
  /\ UNCHANGED <<child, readyPromise, startupTimer, process, loading>>

(* The end of request for the requests of S, which are written to the       *)
(* child, or refused when there is none.  req: the stages of all requests.  *)
Send(req, S) ==
  IF child # 0
  THEN /\ request' = Mark(req, S, "pending")
       /\ sentTo' = [r \in Requests |-> IF r \in S THEN child ELSE sentTo[r]]
  ELSE request' = Mark(req, S, "settled") /\ UNCHANGED sentTo

IsFull(req, r) ==
  /\ r \notin Bypass
  /\ Cardinality({q \in Requests : req[q] \in {"reserved", "aborted", "pending"}}) >= MaxQueueSize

Refused(req, r) ==
  /\ closed \/ IsFull(req, r)
  /\ request' = Mark(req, {r}, "settled")
  /\ UNCHANGED <<state, child, readyPromise, startupTimer, sentTo, process, loading>>

(* request, whose signal is not aborted yet: refused at once, made to wait  *)
(* for the start of the worker, or sent.                                    *)
Ask(req, r) ==
  /\ UNCHANGED closed
  /\ \/ Refused(req, r)
     \/ /\ ~closed /\ ~IsFull(req, r)
        /\ \/ /\ readyPromise = "none"
              /\ \/ Spawn /\ request' = Mark(req, {r}, "reserved")
                 \/ SpawnThrows /\ request' = Mark(req, {r}, "settled")
              /\ UNCHANGED sentTo
           \/ /\ readyPromise = "waiting"
              /\ request' = Mark(req, {r}, "reserved")
              /\ UNCHANGED <<state, child, readyPromise, startupTimer, sentTo, process, loading>>
           \/ /\ readyPromise = "resolved"
              /\ Send(req, {r})
              /\ UNCHANGED <<state, child, readyPromise, startupTimer, process, loading>>

(* Faulty: the signal is looked at only when the worker has started.        *)
AbortedBeforeSent(S) ==
  [r \in Requests |-> IF r \in S /\ request[r] = "reserved" THEN "aborted" ELSE request[r]]

(* The stages when the signals of the requests of S are aborted.            *)
Aborted(S) ==
  [r \in Requests |->
     CASE r \in S /\ request[r] = "reserved" -> "aborted"
       [] r \in S /\ request[r] = "pending" -> "settled"
       [] OTHER -> request[r]]

(* The timer of a request that was sent.                                    *)
RequestTimeout(r) ==
  /\ request[r] = "pending"
  /\ request' = [request EXCEPT ![r] = "settled"]
  /\ UNCHANGED <<closed, state, child, readyPromise, startupTimer, sentTo, process, loading>>
-----------------------------------------------------------------------------
(* failWorker: the first error counts, all requests are rejected and the    *)
(* child is told to stop.                                                   *)
FailWorker ==
  /\ startupTimer' = FALSE
  /\ IF state = "error"
     THEN UNCHANGED <<state, child, readyPromise, request>>
     ELSE /\ state' = IF closed THEN state ELSE "error"
          /\ request' = Mark(request, Outstanding, "settled")
          /\ child' = 0 /\ readyPromise' = "none"

Stopped == IF state = "error" THEN process ELSE Killed

StartupTimeout ==
  /\ startupTimer
  /\ FailWorker /\ process' = Stopped
  /\ UNCHANGED <<closed, sentTo, loading>>

Lives(c) == process[c] \in {"running", "killed"}

(* The "exit" event of child c, or its "error" event.                       *)
ChildExits(c) ==
  /\ Lives(c)
  /\ FailWorker /\ process' = [Stopped EXCEPT ![c] = "exited"]
  /\ loading' = loading \ {c}
  /\ UNCHANGED <<closed, sentTo>>

(* A line that is no answer, or too long.                                   *)
BadLine(c) ==
  /\ Lives(c)
  /\ FailWorker /\ process' = Stopped
  /\ UNCHANGED <<closed, sentTo, loading>>

(* {"event":"ready"}: the requests that waited are sent, but for those that *)
(* were aborted meanwhile.                                                  *)
ReadyLine(c) ==
  /\ Lives(c) /\ c \in loading
  /\ loading' = loading \ {c}
  /\ startupTimer' = FALSE
  /\ IF readyPromise = "waiting"
     THEN /\ readyPromise' = "resolved" /\ state' = "ready"
          /\ Send(Mark(request, Reserved, "settled"),
                  {r \in Requests : request[r] = "reserved"})
     ELSE UNCHANGED <<readyPromise, state, request, sentTo>>
  /\ UNCHANGED <<closed, child, process>>

(* The same with a bad line behind it in one chunk: the worker has failed   *)
(* before start goes on, which then calls it ready all the same.            *)
ReadyThenBadLine(c) ==
  /\ Lives(c) /\ c \in loading /\ readyPromise = "waiting"
  /\ loading' = loading \ {c}
  /\ startupTimer' = FALSE /\ readyPromise' = "none" /\ state' = "ready" /\ child' = 0
  /\ request' = Mark(request, Outstanding, "settled")
  /\ process' = Stopped
  /\ UNCHANGED <<closed, sentTo>>

(* The answer of child c to a request for which somebody still waits: a     *)
(* result, an error or a refusal.                                           *)
AnswerLine(c, r) ==
  /\ Lives(c) /\ c \notin loading /\ sentTo[r] = c /\ request[r] = "pending"
  /\ request' = [request EXCEPT ![r] = "settled"]
  /\ UNCHANGED <<closed, state, child, readyPromise, startupTimer, sentTo, process, loading>>

(* close; the start that was waiting fails and leaves its own mark.         *)
Close ==
  /\ ~closed
  /\ closed' = TRUE
  /\ state' = IF readyPromise = "waiting" THEN "error" ELSE "closed"
  /\ startupTimer' = FALSE /\ child' = 0 /\ readyPromise' = "none"
  /\ request' = Mark(request, Outstanding, "settled")
  /\ process' = Killed
  /\ UNCHANGED <<sentTo, loading>>

ClientStep ==
  \/ \E r \in Requests : RequestTimeout(r)
  \/ StartupTimeout
  \/ Close
  \/ \E c \in Children :
       ChildExits(c) \/ BadLine(c) \/ ReadyLine(c) \/ ReadyThenBadLine(c)
         \/ \E r \in Requests : AnswerLine(c, r)
-----------------------------------------------------------------------------
ClientTypeOK ==
  /\ closed \in BOOLEAN /\ child \in 0..MaxChildren
  /\ state \in {"stopped", "starting", "ready", "error", "closed"}
  /\ readyPromise \in {"none", "waiting", "resolved"} /\ startupTimer \in BOOLEAN
  /\ request \in [Requests -> {"idle", "reserved", "aborted", "pending", "settled"}]
  /\ sentTo \in [Requests -> 0..MaxChildren]
  /\ process \in [Children -> {"unborn", "running", "killed", "exited"}]
  /\ loading \subseteq Children

(* However workers fail, time out and are replaced, at most one is left     *)
(* running, the one the client knows; no request is left waiting for a      *)
(* worker that was given up, and none for a start that nothing will end.    *)
(* And the queue limit holds although a request waits for the start of the  *)
(* worker before it is queued: reservations count.                          *)
OneWorker ==
  /\ Cardinality(Outstanding \ Bypass) <= MaxQueueSize
  /\ \A c \in Children : process[c] = "running" => c = child
  /\ \A r \in Requests : request[r] = "pending" => sentTo[r] = child
  /\ Reserved # {} => readyPromise = "waiting" /\ startupTimer /\ child # 0

(* The comment of failWorker, line 349: the exit that follows from stopping *)
(* a worker is only a consequence of the stop.  So no worker is given up on *)
(* the exit of another one, stopped before.                                 *)
OldExitIsNoFailure ==
  [][\A c, d \in Children :
       child = d /\ process[c] = "killed" /\ process'[c] = "exited" => child' = d]_clientVars
=============================================================================
