-------------------------- MODULE TranslationStage --------------------------
(***************************************************************************)
(* The text half of the backend's RealtimePipeline: from a final transcript *)
(* of the speech recogniser to publishTranslation.                          *)
(*                                                                          *)
(* Finals wait in the bounded finalQueue; a single-flight loop              *)
(* (drainFinalQueue) hands them to the TranslationEngine one at a time.     *)
(* The engine may hold an incomplete sentence in its pendingBuffer to join  *)
(* it to the next final; a timer (pendingFlushTimer) puts a flush item into *)
(* the same queue so that a held fragment is translated when no speech      *)
(* follows.  A seek or a stop empties everything but cannot recall the item *)
(* that is being translated.                                                *)
(*                                                                          *)
(* A final is its arrival number; a text is the set of the finals joined    *)
(* into it.  Whether a text is complete, too long, tiny or too far from the *)
(* held one depends on its words and is a choice.  reset() of the engine is *)
(* called exactly where the generation changes, so the generation captured  *)
(* with a request stands for its resetVersion as well.                      *)
(***************************************************************************)
EXTENDS Integers, Sequences, FiniteSets

CONSTANTS
  Keys,              \* the segment identifiers the recogniser may use
  MaxPendingFinals,  \* MAX_PENDING_FINALS: capacity of the final queue
  MaxFinals,         \* bound: finals accepted in a session
  MaxGeneration      \* bound: value of the generation counter

ASSUME TranslationAssumption ==
  /\ MaxPendingFinals \in Nat \ {0}
  /\ MaxFinals \in Nat
  /\ MaxGeneration \in Nat

Finals == 1..MaxFinals

VARIABLES
  isActive, generation, sttStreamToken,  \* fields of the pipeline
  finalQueue,          \* items: a final, or a request to flush the fragment
  processedFinalKeys,  \* identifiers accepted in this generation (fewer than 500)
  pendingFlushTimer,   \* {} or one armed timer, with what it captured
  segmentCounter,
  drain,               \* the item drainFinalQueue is awaiting, {} if none
  pendingBuffer,       \* engine: the finals of the held fragment
  pendingTiny,         \* engine: the held fragment is too short to translate
  arrivals,            \* history: finals accepted so far
  heard,               \* history: the stream a final was heard on
  publishedIn          \* history: the segment a final was published in, 0: none

clock == <<isActive, generation, sttStreamToken>>
engine == <<pendingBuffer, pendingTiny>>
history == <<arrivals, heard, publishedIn>>
textVars == <<finalQueue, processedFinalKeys, pendingFlushTimer, segmentCounter,
              drain, engine, history>>
vars == <<clock, textVars>>

FinalItem(n, t) == [kind |-> "final", n |-> n, token |-> t, generation |-> 0]
FlushItem(t, g) == [kind |-> "flush", n |-> 0, token |-> t, generation |-> g]

Items == [kind : {"final"}, n : Finals, token : Nat, generation : {0}]
           \union [kind : {"flush"}, n : {0}, token : Nat, generation : Nat]
Timers == [token : Nat, generation : Nat]
Awaited == [phase : {"held", "skipped", "translating"}, sources : SUBSET Finals,
            segment : Nat, token : Nat, generation : Nat]

Init ==
  /\ isActive = TRUE /\ generation = 1 /\ sttStreamToken = 1
  /\ finalQueue = <<>> /\ processedFinalKeys = {} /\ pendingFlushTimer = {}
  /\ segmentCounter = 0 /\ drain = {}
  /\ pendingBuffer = {} /\ pendingTiny = FALSE
  /\ arrivals = 0
  /\ heard = [n \in Finals |-> 0]
  /\ publishedIn = [n \in Finals |-> 0]

HasFlushablePending == pendingBuffer # {} /\ ~pendingTiny

Await(phase, sources, item) ==
  drain' = {[phase |-> phase, sources |-> sources, segment |-> segmentCounter',
             token |-> item.token, generation |-> generation]}
-----------------------------------------------------------------------------
(* joinFragments: the words of both, in order; a fragment is named by the   *)
(* finals it is made of.                                                    *)
JoinFragments(fragment, n) == fragment \union {n}

(* handleFinalTranscript up to its await: the engine forgets the held       *)
(* fragment when the new final comes too late for it, joins the two         *)
(* otherwise, and then holds the text, refuses it as too long, or asks the  *)
(* provider.                                                                *)
HandleFinal(item) ==
  /\ segmentCounter' = segmentCounter + 1
  /\ \E held \in {pendingBuffer, {}} :
       LET text == JoinFragments(held, item.n)
       IN  \/ /\ pendingBuffer' = text
              /\ pendingTiny' \in BOOLEAN
              /\ Await("held", {}, item)
           \/ /\ pendingBuffer' = {} /\ pendingTiny' = FALSE
              /\ Await("skipped", {}, item)
           \/ /\ pendingBuffer' = {} /\ pendingTiny' = FALSE
              /\ Await("translating", text, item)

(* handlePendingFlush up to its await.                                      *)
HandleFlush(item) ==
  IF item.token = sttStreamToken /\ item.generation = generation /\ HasFlushablePending
  THEN /\ segmentCounter' = segmentCounter + 1
       /\ pendingBuffer' = {} /\ pendingTiny' = FALSE
       /\ Await("translating", pendingBuffer, item)
  ELSE /\ UNCHANGED <<segmentCounter, engine>>
       /\ Await("skipped", {}, item)

(* Faulty: the newest item is taken first.                                  *)
TakeNewest(q) ==
  IF q = <<>>
  THEN /\ finalQueue' = q /\ drain' = {}
       /\ UNCHANGED <<segmentCounter, engine>>
  ELSE /\ finalQueue' = SubSeq(q, 1, Len(q) - 1)
       /\ LET item == q[Len(q)]
          IN  IF item.kind = "final" THEN HandleFinal(item) ELSE HandleFlush(item)

(* drainFinalQueue takes the next item of queue q, if any.                  *)
TakeNext(q) ==
  IF q = <<>>
  THEN /\ finalQueue' = q /\ drain' = {}
       /\ UNCHANGED <<segmentCounter, engine>>
  ELSE /\ finalQueue' = Tail(q)
       /\ IF Head(q).kind = "final" THEN HandleFinal(Head(q)) ELSE HandleFlush(Head(q))

(* push, then drainFinalQueue: nothing more if the loop is awaiting an item *)
PushAndDrain(q) ==
  IF drain = {} THEN TakeNext(q)
  ELSE finalQueue' = q /\ UNCHANGED <<segmentCounter, drain, engine>>

(* Faulty: a final does not cancel the waiting flush timer.                 *)
OnFinalKeepsTimer(k, t) ==
  /\ isActive /\ t = sttStreamToken
  /\ k \notin processedFinalKeys
  /\ arrivals < MaxFinals
  /\ arrivals' = arrivals + 1
  /\ heard' = [heard EXCEPT ![arrivals + 1] = t]
  /\ processedFinalKeys' = processedFinalKeys \union {k}
  /\ PushAndDrain(Append(IF Len(finalQueue) >= MaxPendingFinals THEN Tail(finalQueue)
                         ELSE finalQueue, FinalItem(arrivals + 1, t)))
  /\ UNCHANGED <<clock, publishedIn, pendingFlushTimer>>

(* onFinal of STT stream t, then enqueueFinalTranscript: a callback of a    *)
(* closed stream and a repeated identifier are ignored; a full queue loses  *)
(* its oldest item; a waiting flush timer is cancelled because the fragment *)
(* will be joined to this final.                                            *)
OnFinal(k, t) ==
  /\ isActive /\ t = sttStreamToken
  /\ k \notin processedFinalKeys
  /\ arrivals < MaxFinals
  /\ arrivals' = arrivals + 1
  /\ heard' = [heard EXCEPT ![arrivals + 1] = t]
  /\ processedFinalKeys' = processedFinalKeys \union {k}
  /\ pendingFlushTimer' = {}
  /\ PushAndDrain(Append(IF Len(finalQueue) >= MaxPendingFinals THEN Tail(finalQueue)
                         ELSE finalQueue, FinalItem(arrivals + 1, t)))
  /\ UNCHANGED <<clock, publishedIn>>

(* The callback of the timer set by schedulePendingFlush.                   *)
FlushTimerFires ==
  \E timer \in pendingFlushTimer :
    /\ pendingFlushTimer' = {}
    /\ IF isActive /\ timer.token = sttStreamToken /\ timer.generation = generation
       THEN PushAndDrain(Append(finalQueue, FlushItem(timer.token, timer.generation)))
       ELSE UNCHANGED <<finalQueue, segmentCounter, drain, engine>>
    /\ UNCHANGED <<clock, processedFinalKeys, history>>

(* Faulty: the loop stops after one item.                                   *)
DrainStops == drain' = {} /\ UNCHANGED <<finalQueue, segmentCounter, engine>>

(* The loop goes on after the awaited item, unless the session was stopped  *)
DrainContinues ==
  IF isActive THEN TakeNext(finalQueue)
  ELSE drain' = {} /\ UNCHANGED <<finalQueue, segmentCounter, engine>>

(* Faulty: no timer is started for a held fragment.                         *)
TranslationHeldUntimed ==
  \E d \in drain :
    /\ d.phase = "held"
    /\ DrainContinues
    /\ UNCHANGED <<clock, processedFinalKeys, pendingFlushTimer, history>>

(* The text of item d was held: start the timer, if the fragment is long    *)
(* enough to be translated alone and no seek has happened since.            *)
TranslationHeld ==
  \E d \in drain :
    /\ d.phase = "held"
    /\ pendingFlushTimer' =
         IF HasFlushablePending /\ d.generation = generation /\ d.token = sttStreamToken
         THEN {[token |-> d.token, generation |-> d.generation]}
         ELSE pendingFlushTimer
    /\ DrainContinues
    /\ UNCHANGED <<clock, processedFinalKeys, history>>

(* Faulty: a seek during the translation is not noticed.                    *)
IsAnyGeneration(d) == isActive

IsCurrent(d) == isActive /\ d.generation = generation /\ d.token = sttStreamToken

(* The provider answered and nothing happened to the session meanwhile:     *)
(* segment s, made of the awaited sources, is published.                    *)
TranslationPublished(s) ==
  \E d \in drain :
    /\ d.phase = "translating" /\ d.segment = s
    /\ IsCurrent(d)
    /\ publishedIn' = [n \in Finals |-> IF n \in d.sources THEN s ELSE publishedIn[n]]
    /\ DrainContinues
    /\ UNCHANGED <<clock, processedFinalKeys, pendingFlushTimer, arrivals, heard>>

(* The provider failed, its answer was refused, or it answered for a        *)
(* session that has been sought or stopped; or there was nothing to await.  *)
TranslationDropped ==
  \E d \in drain :
    /\ d.phase \in {"skipped", "translating"}
    /\ DrainContinues
    /\ UNCHANGED <<clock, processedFinalKeys, pendingFlushTimer, history>>

(* Faulty: the engine is not reset.                                         *)
HandleSeekKeepsFragment ==
  /\ isActive
  /\ generation < MaxGeneration
  /\ generation' = generation + 1
  /\ sttStreamToken' = sttStreamToken + 2
  /\ processedFinalKeys' = {} /\ pendingFlushTimer' = {} /\ finalQueue' = <<>>
  /\ UNCHANGED <<isActive, segmentCounter, drain, engine, history>>

(* Faulty: closing the old stream takes its token back.                     *)
HandleSeekReusesToken ==
  /\ isActive
  /\ generation < MaxGeneration
  /\ generation' = generation + 1
  /\ sttStreamToken' = sttStreamToken - 1
  /\ processedFinalKeys' = {} /\ pendingFlushTimer' = {} /\ finalQueue' = <<>>
  /\ pendingBuffer' = {} /\ pendingTiny' = FALSE
  /\ UNCHANGED <<isActive, segmentCounter, drain, history>>

(* handleSeek                                                               *)
HandleSeek ==
  /\ isActive
  /\ generation < MaxGeneration
  /\ generation' = generation + 1
  /\ sttStreamToken' = sttStreamToken + 2
  /\ processedFinalKeys' = {} /\ pendingFlushTimer' = {} /\ finalQueue' = <<>>
  /\ pendingBuffer' = {} /\ pendingTiny' = FALSE
  /\ UNCHANGED <<isActive, segmentCounter, drain, history>>

(* stop *)
Stop ==
  /\ isActive
  /\ isActive' = FALSE
  /\ generation' = generation + 1
  /\ sttStreamToken' = sttStreamToken + 1
  /\ processedFinalKeys' = {} /\ pendingFlushTimer' = {} /\ finalQueue' = <<>>
  /\ pendingBuffer' = {} /\ pendingTiny' = FALSE
  /\ UNCHANGED <<segmentCounter, drain, history>>

DrainStep ==
  \/ TranslationHeld
  \/ \E d \in drain : TranslationPublished(d.segment)
  \/ TranslationDropped

Next ==
  \/ \E k \in Keys, t \in 1..sttStreamToken : OnFinal(k, t)
  \/ FlushTimerFires
  \/ DrainStep
  \/ HandleSeek
  \/ Stop

Spec == Init /\ [][Next]_vars

(* A provider answers or times out and an armed timer fires; the recogniser *)
(* need not speak and the user need not act.                                *)
Fairness == WF_vars(DrainStep) /\ WF_vars(FlushTimerFires)

FairSpec == Spec /\ Fairness
-----------------------------------------------------------------------------
(* What a callback or a continuation captured is not ahead of the counters. *)
IsPast(c) == c.token <= sttStreamToken /\ c.generation <= generation

(* Every variable has its type, and nothing that a timer, a queued item or  *)
(* the awaited translation has captured is ahead of the counters, wherever  *)
(* handleSeek and the new stream's token fall between their steps.          *)
TypeOK ==
  /\ isActive \in BOOLEAN /\ generation \in Nat /\ sttStreamToken \in Nat
  /\ finalQueue \in Seq(Items)
  /\ processedFinalKeys \subseteq Keys
  /\ \A timer \in pendingFlushTimer : IsPast(timer)
  /\ pendingFlushTimer \subseteq Timers
  /\ segmentCounter \in Nat
  /\ drain \subseteq Awaited /\ \A d \in drain : IsPast(d)
  /\ pendingBuffer \subseteq Finals /\ pendingTiny \in BOOLEAN
  /\ arrivals \in 0..MaxFinals
  /\ heard \in [Finals -> Nat]
  /\ publishedIn \in [Finals -> Nat]

(* A held fragment that could be translated alone never hangs: a timer is   *)
(* armed, or the loop still has an item to handle, which joins or flushes   *)
(* it or arms the timer.                                                    *)
HeldFragmentScheduled ==
  isActive /\ HasFlushablePending =>
    pendingFlushTimer # {} \/ finalQueue # <<>> \/ drain # {}

(* The queue never exceeds its capacity, although the timer's callback      *)
(* pushes a flush item without looking at it.                               *)
FinalQueueBounded == Len(finalQueue) <= MaxPendingFinals

(* What is published was heard on the stream that is open now, however long *)
(* the provider took; so no sentence is glued together from speech before   *)
(* and after a seek.                                                        *)
OnlyCurrentSpeechPublished ==
  [][\A n \in Finals : publishedIn'[n] # publishedIn[n] =>
       isActive /\ heard[n] = sttStreamToken]_vars

(* A final is translated into one sentence only, the flush of a fragment    *)
(* and the join with the next final never both using it, and the published  *)
(* sentences keep the order of speech.                                      *)
PublishedOnceInOrder ==
  [][/\ \A n \in Finals : publishedIn[n] # 0 => publishedIn'[n] = publishedIn[n]
     /\ \A m, n \in Finals :
          m < n /\ publishedIn'[m] # 0 /\ publishedIn'[n] # 0
          => publishedIn'[m] <= publishedIn'[n]]_vars

(* A held fragment is not held for ever, even when nobody speaks any more,  *)
(* and the single-flight loop always gets to the end of its queue.          *)
NothingWaitsForEver ==
  /\ (isActive /\ HasFlushablePending) ~> ~HasFlushablePending
  /\ (finalQueue # <<>>) ~> (finalQueue = <<>>)
=============================================================================
