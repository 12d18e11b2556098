------------------------------ MODULE Gateway ------------------------------
(***************************************************************************)
(* WebSocketGateway with the local provider factory behind it: which       *)
(* connection owns which session, from SESSION_START, through the check of  *)
(* the model files and the start of the workers, to SESSION_READY, and how  *)
(* a session ends with SESSION_STOP, its socket or the process.             *)
(*                                                                          *)
(* The extension opens a socket for one session; a second socket may carry  *)
(* the same session id.                                                     *)
(***************************************************************************)
EXTENDS ModelStore

CONSTANTS
  Conns,         \* sockets; a closed one stands for a new one again
  SessionIds,
  SessionOf,     \* the session id that a socket names
  Workers,       \* the worker processes the runtime waits for
  MaxSessions,   \* maxConcurrentSessions
  None

ASSUME GatewayAssumption ==
  /\ SessionOf \in [Conns -> SessionIds] /\ MaxSessions \in Nat
  /\ None \notin Conns /\ \A ws \in SUBSET Workers : ws # None

VARIABLES
  booting,    \* the constructor has not warmed the runtime up yet
  socket,     \* ws.readyState of each connection
  owned,      \* the connections whose ownedSessionId is set
  active,     \* activeSessions: the socket of each session
  running,    \* of each connection: pipelines that were started, not stopped
  starting,   \* startingSessions
  needs,      \* of each connection in startSession: the workers it awaits
  waiting,    \* the connections whose SESSION_START was not answered yet
  worker      \* the state of each worker process

sessionVars == <<booting, socket, owned, active, running, starting, needs, waiting>>
vars == <<sessionVars, worker, storeVars>>

InStart == {c \in Conns : needs[c] # None}
Held == {s \in SessionIds : active[s] # None} \union {s \in SessionIds : starting[s] # None}

TypeOK ==
  /\ booting \in BOOLEAN
  /\ socket \in [Conns -> {"open", "closing", "closed"}]
  /\ owned \subseteq Conns /\ waiting \subseteq Conns
  /\ active \in [SessionIds -> Conns \union {None}]
  /\ starting \in [SessionIds -> Conns \union {None}]
  /\ running \in [Conns -> Nat]
  /\ needs \in [Conns -> (SUBSET Workers) \union {None}]
  /\ worker \in [Workers -> {"stopped", "starting", "ready", "error"}]

Nobody(S) == [x \in S |-> None]

Init ==
  /\ booting = TRUE
  /\ socket = [c \in Conns |-> "closed"]
  /\ owned = {} /\ waiting = {}
  /\ active = Nobody(SessionIds) /\ starting = Nobody(SessionIds) /\ needs = Nobody(Conns)
  /\ running = [c \in Conns |-> 0]
  /\ worker = [w \in Workers |-> "stopped"]
  /\ StoreInit
-----------------------------------------------------------------------------
(* JsonLineWorkerClient.start, of the workers ws.                           *)
Start(ws) ==
  worker' = [w \in Workers |->
    IF w \in ws /\ worker[w] \in {"stopped", "error"} THEN "starting" ELSE worker[w]]

(* The constructor: warmup, before the server listens.                      *)
WarmAtBoot ==
  /\ booting /\ booting' = FALSE
  /\ \E ok \in BOOLEAN : CheckComponent(ok) /\ Start(IF ok THEN Workers ELSE {})
  /\ UNCHANGED <<socket, owned, active, running, starting, needs, waiting>>

Connect(c) ==
  /\ ~booting /\ socket[c] = "closed" /\ needs[c] = None
  /\ socket' = [socket EXCEPT ![c] = "open"]
  /\ UNCHANGED <<booting, owned, active, running, starting, needs, waiting, worker, storeVars>>

(* terminateSession.                                                        *)
Terminate(c) ==
  IF active[SessionOf[c]] = c
  THEN /\ running' = [running EXCEPT ![c] = @ - 1]
       /\ active' = [active EXCEPT ![SessionOf[c]] = None]
  ELSE UNCHANGED <<running, active>>

(* The runtime is warmed up for the session: the files are verified, then   *)
(* the workers are started and awaited.                                     *)
WarmUp(c) ==
  \E ok \in BOOLEAN :
    /\ CheckComponent(ok)
    /\ IF ok
       THEN /\ Start(Workers)
            /\ starting' = [starting EXCEPT ![SessionOf[c]] = c]
            /\ needs' = [needs EXCEPT ![c] = {w \in Workers : worker[w] # "ready"}]
            /\ waiting' = waiting \union {c}
       ELSE UNCHANGED <<worker, starting, needs>> /\ waiting' = waiting \ {c}

Refused(c) ==
  waiting' = waiting \ {c} /\ UNCHANGED <<starting, needs, worker, storeVars>>

(* Faulty: the sessions that are starting are not counted.                  *)
StartCountsActive(c) ==
  LET s == SessionOf[c]
      others == {active[s], starting[s]} \ {None, c}
  IN /\ socket[c] = "open"
     /\ \/ others # {} /\ Refused(c) /\ UNCHANGED <<active, running>>
        \/ /\ others = {} /\ starting[s] = None
           /\ Terminate(c)
           /\ IF Cardinality({t \in SessionIds : active'[t] # None}) >= MaxSessions
              THEN Refused(c) ELSE WarmUp(c)
     /\ UNCHANGED <<booting, socket, owned>>

(* startSession, to its await.  A second SESSION_START of the same          *)
(* connection goes unanswered while the first one is under way.             *)
StartSession(c) ==
  LET s == SessionOf[c]
      others == {active[s], starting[s]} \ {None, c}
  IN /\ socket[c] = "open"
     /\ \/ others # {} /\ Refused(c) /\ UNCHANGED <<active, running>>
        \/ /\ others = {} /\ starting[s] = None
           /\ Terminate(c)
           /\ IF Cardinality({t \in SessionIds : active'[t] # None})
                 + Cardinality({t \in SessionIds : starting[t] # None}) >= MaxSessions
              THEN Refused(c) ELSE WarmUp(c)
     /\ UNCHANGED <<booting, socket, owned>>

(* The end of startSession: its finally, and the answer that was sent.      *)
Leaves(cs) ==
  /\ needs' = [c \in Conns |-> IF c \in cs THEN None ELSE needs[c]]
  /\ starting' = [s \in SessionIds |-> IF starting[s] \in cs THEN None ELSE starting[s]]
  /\ waiting' = waiting \ cs

(* create of the provider factory: the files are verified once more.        *)
Create(ok) == CheckComponent(ok)

StillWanted(c) == socket[c] = "open" /\ starting[SessionOf[c]] = c

(* Faulty: the answer to a configuration that is missing is forgotten.      *)
ProceedInSilence(c) ==
  /\ needs[c] = {}
  /\ needs' = [needs EXCEPT ![c] = None]
  /\ starting' = [s \in SessionIds |-> IF starting[s] = c THEN None ELSE starting[s]]
  /\ \E ok \in BOOLEAN :
       /\ Create(ok)
       /\ IF ok /\ StillWanted(c)
          THEN /\ active' = [active EXCEPT ![SessionOf[c]] = c]
               /\ running' = [running EXCEPT ![c] = @ + 1]
               /\ owned' = owned \union {c} /\ waiting' = waiting \ {c}
          ELSE UNCHANGED <<active, running, owned, waiting>>
  /\ UNCHANGED <<booting, socket, worker>>

(* startSession, from its await, of a socket that is still there: the session*)
(* is active, owned and ready, unless create refuses.                       *)
Proceed(c) ==
  /\ needs[c] = {} /\ Leaves({c})
  /\ IF ~StillWanted(c)
     THEN UNCHANGED <<active, running, owned, storeVars>>
     ELSE \E ok \in BOOLEAN :
            /\ Create(ok)
            /\ IF ok
               THEN /\ active' = [active EXCEPT ![SessionOf[c]] = c]
                    /\ running' = [running EXCEPT ![c] = @ + 1]
                    /\ owned' = owned \union {c}
               ELSE UNCHANGED <<active, running, owned>>
  /\ UNCHANGED <<booting, socket, worker>>

(* waitForRuntimeReady: LOCAL_RUNTIME_WARMING.                              *)
WarmUpTimesOut(c) ==
  /\ needs[c] \notin {None, {}} /\ Leaves({c})
  /\ UNCHANGED <<booting, socket, owned, active, running, worker, storeVars>>

WorkerReady(w) ==
  /\ worker[w] = "starting" /\ worker' = [worker EXCEPT ![w] = "ready"]
  /\ needs' = [c \in Conns |-> IF needs[c] = None THEN None ELSE needs[c] \ {w}]
  /\ UNCHANGED <<booting, socket, owned, active, running, starting, waiting, storeVars>>

(* A worker that is still starting takes every warm-up that awaits it along *)
(* with it: LOCAL_RUNTIME_NOT_READY.  Of one that was ready nobody hears.   *)
WorkerFails(w) ==
  /\ worker[w] \in {"starting", "ready"} /\ worker' = [worker EXCEPT ![w] = "error"]
  /\ Leaves({c \in InStart : w \in needs[c]})
  /\ UNCHANGED <<booting, socket, owned, active, running, storeVars>>

(* The other messages reach a pipeline only over the socket that owns its   *)
(* session.                                                                 *)
Reaches(c) ==
  socket[c] # "closed" /\ c \in owned /\ active[SessionOf[c]] = c

(* The pipeline asks a worker, which is started if it has to.               *)
Request(c, w) ==
  /\ Reaches(c) /\ worker[w] \in {"stopped", "error"} /\ Start({w})
  /\ UNCHANGED <<sessionVars, storeVars>>

(* SESSION_STOP.  The connection keeps its ownedSessionId.                  *)
StopSession(c) ==
  /\ Reaches(c) /\ Terminate(c)
  /\ UNCHANGED <<booting, socket, owned, starting, needs, waiting, worker, storeVars>>

Closing(c) ==
  /\ socket[c] = "open" /\ socket' = [socket EXCEPT ![c] = "closing"]
  /\ waiting' = waiting \ {c}
  /\ UNCHANGED <<booting, owned, active, running, starting, needs, worker, storeVars>>

(* releaseConnection.  A start that is under way goes on without effect.    *)
Close(c) ==
  /\ socket[c] = "closing" /\ socket' = [socket EXCEPT ![c] = "closed"]
  /\ IF c \in owned THEN Terminate(c) ELSE UNCHANGED <<running, active>>
  /\ owned' = owned \ {c}
  /\ starting' = [s \in SessionIds |-> IF starting[s] = c THEN None ELSE starting[s]]
  /\ UNCHANGED <<booting, needs, waiting, worker, storeVars>>

(* The backend process dies and is started again.                           *)
Restart ==
  /\ ~booting /\ booting' = TRUE
  /\ socket' = [c \in Conns |-> "closed"]
  /\ owned' = {} /\ waiting' = {}
  /\ active' = Nobody(SessionIds) /\ starting' = Nobody(SessionIds) /\ needs' = Nobody(Conns)
  /\ running' = [c \in Conns |-> 0]
  /\ worker' = [w \in Workers |-> "stopped"]
  /\ OpenStore /\ UNCHANGED disk

GatewayStep ==
  \/ WarmAtBoot \/ Restart
  \/ \E c \in Conns :
       \/ Connect(c) \/ StartSession(c) \/ Proceed(c) \/ WarmUpTimesOut(c)
       \/ StopSession(c) \/ Closing(c) \/ Close(c)
       \/ \E w \in Workers : Request(c, w)
  \/ \E w \in Workers : WorkerReady(w) \/ WorkerFails(w)

Next == GatewayStep \/ (StoreStep /\ UNCHANGED <<sessionVars, worker>>)

(* The timer of a warm-up fires, and a promise that is settled is taken up. *)
Spec == Init /\ [][Next]_vars
        /\ \A c \in Conns : WF_vars(Proceed(c)) /\ WF_vars(WarmUpTimesOut(c))
-----------------------------------------------------------------------------
(* Whatever closes, fails or stops in whatever order: the sessions that are *)
(* active or starting stay within the limit, each of them belongs to one    *)
(* connection that is not closed, every pipeline that runs is that of an    *)
(* active session, so none is orphaned and no slot is lost; and the cached  *)
(* hashes tell the truth (HashesTellTruth).                                 *)
SessionsOwned ==
  /\ TypeOK /\ HashesTellTruth
  /\ Cardinality(Held) <= MaxSessions
  /\ \A c \in Conns : running[c] = IF active[SessionOf[c]] = c THEN 1 ELSE 0
  /\ \A s \in SessionIds :
       /\ active[s] # None => socket[active[s]] # "closed" /\ active[s] \in owned
       /\ starting[s] # None => socket[starting[s]] # "closed" /\ starting[s] \in InStart
       /\ active[s] = None \/ starting[s] = None

(* SESSION_READY is said only with the pinned model file in its place, even *)
(* if a session of an earlier process saw another one there.                *)
ReadyIsGenuine ==
  [][\A s \in SessionIds : active'[s] \notin {None, active[s]} => file'.content = "genuine"]_vars

(* A SESSION_START is answered, by SESSION_READY or by an error, unless its *)
(* socket closes first.                                                     *)
StartsAnswered == \A c \in Conns : c \in waiting ~> c \notin waiting
=============================================================================
