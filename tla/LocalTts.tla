------------------------------ MODULE LocalTts ------------------------------
(***************************************************************************)
(* LocalVietnameseTTSProvider, the voice engine of a session, with its      *)
(* worker client: synthesize (and synthesizeStream, which differs in its    *)
(* results only) waits for one of maxConcurrentRequests slots, asks the     *)
(* worker and gives the slot to the next in line; cancelGeneration aborts   *)
(* everything of a generation, wherever it is, and tells the worker.        *)
(*                                                                          *)
(* The request of a synthesis has its number.  A continuation of the        *)
(* adapter is a step of its own, later than Node may allow.  A call is made *)
(* and cancelled in the present generation, as the pipeline does, whose     *)
(* setGeneration after a cancelGeneration changes nothing more: the set     *)
(* cancelledGenerations is what lies below activeGeneration.                *)
(***************************************************************************)
EXTENDS WorkerClient

CONSTANTS
  Syntheses,               \* the calls of synthesize
  maxConcurrentRequests,
  CancelRequest            \* the cancel command of each generation that ends

ASSUME LocalTtsAssumption ==
  /\ maxConcurrentRequests \in Nat \ {0}
  /\ \A g \in DOMAIN CancelRequest : CancelRequest[g] \in Bypass
  /\ Requests = Syntheses \union Bypass /\ Syntheses \intersect Bypass = {}

VARIABLES
  activeGeneration, inFlight,  \* fields of the adapter
  waiters,     \* the line: the place of each synthesis in it, 0: it is not in line
  call,        \* how far each synthesis is: "waiting" in line, "granted" a
               \* slot, "asking" the worker, "done" or "cancelled"
  generation   \* of each synthesis

adapterVars == <<activeGeneration, inFlight, waiters, call, generation>>
vars == <<clientVars, adapterVars>>

Init ==
  /\ ClientInit
  /\ activeGeneration = 1 /\ inFlight = 0
  /\ waiters = [s \in Syntheses |-> 0]
  /\ call = [s \in Syntheses |-> "unborn"]
  /\ generation = [s \in Syntheses |-> 0]

InLine == {s \in Syntheses : waiters[s] # 0}

IsCancelled(s) == generation[s] < activeGeneration

(* Faulty: the answer is not looked at again.                               *)
OutcomeUnchecked(s) == "done"

(* How a call ends: with a voice or an error, unless it is cancelled.       *)
Outcome(s) == IF IsCancelled(s) THEN "cancelled" ELSE "done"
-----------------------------------------------------------------------------
(* synthesize up to its first await: a slot, or a place at the end of the   *)
(* line, the number of the call.                                            *)
Synthesize(s) ==
  /\ call[s] = "unborn"
  /\ generation' = [generation EXCEPT ![s] = activeGeneration]
  /\ \/ /\ inFlight < maxConcurrentRequests
        /\ inFlight' = inFlight + 1
        /\ call' = [call EXCEPT ![s] = "granted"]
        /\ UNCHANGED waiters
     \/ /\ inFlight >= maxConcurrentRequests
        /\ waiters' = [waiters EXCEPT ![s] =
                         Cardinality({t \in Syntheses : call[t] # "unborn"}) + 1]
        /\ call' = [call EXCEPT ![s] = "waiting"]
        /\ UNCHANGED inFlight
  /\ UNCHANGED <<clientVars, activeGeneration>>

(* Faulty: the slot is given back and nobody is told.                       *)
ReleaseOnly(s) ==
  /\ inFlight' = inFlight - 1
  /\ call' = [call EXCEPT ![s] = Outcome(s)]
  /\ UNCHANGED waiters

(* The end of a call that has a slot, which goes to the next in line.       *)
Release(s) ==
  \/ /\ InLine = {}
     /\ inFlight' = inFlight - 1
     /\ call' = [call EXCEPT ![s] = Outcome(s)]
     /\ UNCHANGED waiters
  \/ \E next \in InLine :
       /\ \A w \in InLine : waiters[next] <= waiters[w]
       /\ waiters' = [waiters EXCEPT ![next] = 0]
       /\ call' = [call EXCEPT ![s] = Outcome(s), ![next] = "granted"]
       /\ UNCHANGED inFlight

(* It is the turn of s: it asks the worker, or is cancelled.                *)
AskWorker(s) ==
  /\ call[s] = "granted"
  /\ \/ IsCancelled(s) /\ Release(s) /\ UNCHANGED clientVars
     \/ /\ ~IsCancelled(s)
        /\ Ask(request, s)
        /\ call' = [call EXCEPT ![s] = "asking"]
        /\ UNCHANGED <<inFlight, waiters>>
  /\ UNCHANGED <<activeGeneration, generation>>

(* The worker's answer, or the failure of the request, reaches s.           *)
WorkerSettles(s) ==
  /\ call[s] = "asking" /\ request[s] = "settled"
  /\ Release(s)
  /\ UNCHANGED <<clientVars, activeGeneration, generation>>

(* The abort of the calls of S: those in line leave it, those that ask have *)
(* their requests aborted.                                                  *)
Abort(S) ==
  LET inLine == {s \in S : call[s] = "waiting"}
  IN  /\ waiters' = [s \in Syntheses |-> IF s \in inLine THEN 0 ELSE waiters[s]]
      /\ call' = [s \in Syntheses |->
                    IF s \notin inLine THEN call[s]
                    ELSE IF generation[s] < activeGeneration' THEN "cancelled" ELSE "done"]
      /\ UNCHANGED <<inFlight, generation>>

(* The timer of the call, which has run since before the wait for a slot.   *)
SynthesisTimeout(s) ==
  /\ call[s] \in {"waiting", "asking"}
  /\ UNCHANGED activeGeneration
  /\ Abort({s})
  /\ request' = Aborted({s})
  /\ UNCHANGED <<closed, state, child, readyPromise, startupTimer, sentTo, process, loading>>

(* cancelGeneration of the present generation, when the user seeks.         *)
CancelGeneration ==
  LET S == {s \in Syntheses : generation[s] = activeGeneration}
  IN  /\ activeGeneration \in DOMAIN CancelRequest
      /\ activeGeneration' = activeGeneration + 1
      /\ Abort(S)
      /\ Ask(Aborted(S), CancelRequest[activeGeneration])

Continues(s) == AskWorker(s) \/ WorkerSettles(s)

Next ==
  \/ \E s \in Syntheses : Synthesize(s) \/ Continues(s) \/ SynthesisTimeout(s)
  \/ CancelGeneration
  \/ ClientStep /\ UNCHANGED adapterVars

Spec == Init /\ [][Next]_vars

(* Continuations run and armed timers fire: that of a call and that of the  *)
(* start of a worker.  The worker owes nothing.                             *)
Fairness ==
  /\ \A s \in Syntheses : WF_vars(Continues(s)) /\ WF_vars(SynthesisTimeout(s))
  /\ WF_vars(StartupTimeout /\ UNCHANGED adapterVars)

FairSpec == Spec /\ Fairness
-----------------------------------------------------------------------------
TypeOK ==
  /\ ClientTypeOK
  /\ activeGeneration \in Nat \ {0}
  /\ inFlight \in 0..maxConcurrentRequests /\ waiters \in [Syntheses -> Nat]
  /\ call \in [Syntheses ->
       {"unborn", "waiting", "granted", "asking", "done", "cancelled"}]
  /\ generation \in [Syntheses -> 0..activeGeneration]

(* Besides the types: no slot is lost or used twice, whoever times out or   *)
(* is cancelled while it waits, and nobody waits while a slot is free.      *)
SlotsConserved ==
  /\ TypeOK
  /\ inFlight = Cardinality({s \in Syntheses : call[s] \in {"granted", "asking"}})
  /\ InLine = {s \in Syntheses : call[s] = "waiting"}
  /\ InLine # {} => inFlight = maxConcurrentRequests

(* A call returns "cancelled" if and only if its generation is cancelled at *)
(* that moment: no voice of before a seek comes back, whatever the worker   *)
(* made of the cancel command, and the pipeline is never told "cancelled"   *)
(* of a sentence it still wants, whose subtitle would be lost.              *)
CancelledWhenStale ==
  [][\A s \in Syntheses : call'[s] # call[s] /\ call'[s] \in {"done", "cancelled"} =>
       (call'[s] = "cancelled" <=> generation[s] < activeGeneration')]_vars

(* Every call returns or throws, whatever the worker does: one waits for a  *)
(* slot, for the start of a worker or for an answer only so long.           *)
SynthesesSettle ==
  \A s \in Syntheses :
    (call[s] \in {"waiting", "granted", "asking"}) ~> (call[s] \in {"done", "cancelled"})
=============================================================================
