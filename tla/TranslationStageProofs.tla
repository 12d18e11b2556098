----------------------- MODULE TranslationStageProofs -----------------------
(***************************************************************************)
(* Proofs about TranslationStage, for every value of its constants: the     *)
(* type invariant, the bound of the queue and the promise that a held       *)
(* fragment is never forgotten.  They follow from one inductive invariant,  *)
(* CoreInv, the conjunction of the named parts below.                       *)
(***************************************************************************)
EXTENDS TranslationStage, SequenceTheorems, TLAPS

Queued == DOMAIN finalQueue

(* What was captured by the armed timer and by the queued items is current: *)
(* a seek empties the queue and disarms the timer.                          *)
CapturedIsCurrent ==
  /\ \A timer \in pendingFlushTimer :
       timer.token = sttStreamToken /\ timer.generation = generation
  /\ \A i \in Queued :
       /\ finalQueue[i].token = sttStreamToken
       /\ finalQueue[i].kind = "flush" => finalQueue[i].generation = generation

(* A slot is reserved for the flush item that an armed timer will push.     *)
QueueHasRoom ==
  Len(finalQueue) + (IF pendingFlushTimer = {} THEN 0 ELSE 1) <= MaxPendingFinals

StoppedIsEmpty ==
  ~isActive => finalQueue = <<>> /\ pendingFlushTimer = {} /\ pendingBuffer = {}

(* The awaited item is of the current generation, or of a past one, and     *)
(* then the engine has been reset and nobody has refilled it.  A translation *)
(* is awaited with an empty engine.                                         *)
AwaitedExplains ==
  \A d \in drain :
    /\ \/ d.token = sttStreamToken /\ d.generation = generation
       \/ d.token < sttStreamToken /\ d.generation < generation /\ pendingBuffer = {}
    /\ d.phase # "held" => ~HasFlushablePending
    /\ d.phase = "translating" => pendingBuffer = {} /\ d.segment = segmentCounter
    /\ d.phase # "translating" => d.sources = {}

-----------------------------------------------------------------------------
(* What Tail and Head of a non-empty queue are, in one fact for the prover. *)
LEMMA TailFacts ==
  ASSUME NEW S, NEW q \in Seq(S), q # <<>>
  PROVE  /\ Tail(q) \in Seq(S) /\ Head(q) \in S /\ Head(q) = q[1] /\ 1 \in DOMAIN q
         /\ Len(q) \in Nat \ {0} /\ Len(Tail(q)) = Len(q) - 1
         /\ \A i \in DOMAIN Tail(q) : i + 1 \in DOMAIN q /\ i \in Nat /\ Tail(q)[i] = q[i + 1]
<1>1. /\ Tail(q) \in Seq(S) /\ Head(q) \in S /\ Len(Tail(q)) = Len(q) - 1
      /\ \A i \in 1..Len(Tail(q)) : Tail(q)[i] = q[i + 1]
  BY HeadTailProperties
<1>2. Len(q) \in Nat \ {0} /\ DOMAIN q = 1..Len(q)
  BY LenProperties, EmptySeq
<1>3. DOMAIN Tail(q) = 1..(Len(q) - 1)
  BY <1>1, LenProperties
<1>4. Head(q) = q[1]
  OBVIOUS
<1> QED
  BY <1>1, <1>2, <1>3, <1>4

(* What Append to a queue is.                                               *)
LEMMA AppendFacts ==
  ASSUME NEW S, NEW q \in Seq(S), NEW e \in S
  PROVE  /\ Append(q, e) \in Seq(S) /\ Len(Append(q, e)) = Len(q) + 1
         /\ DOMAIN q = 1..Len(q) /\ Len(q) \in Nat
         /\ DOMAIN Append(q, e) = 1..(Len(q) + 1)
         /\ \A i \in DOMAIN q : Append(q, e)[i] = q[i]
         /\ Append(q, e)[Len(q) + 1] = e
BY AppendProperties, LenProperties

-----------------------------------------------------------------------------
(* The part of the invariant that does not speak of individual finals.      *)
CoreInv ==
  /\ TypeOK /\ CapturedIsCurrent /\ QueueHasRoom /\ StoppedIsEmpty /\ AwaitedExplains
  /\ HeldFragmentScheduled

(* The items of q were captured in the present stream and generation.       *)
CurrentItems(q) ==
  \A i \in DOMAIN q :
    /\ q[i].token = sttStreamToken
    /\ q[i].kind = "flush" => q[i].generation = generation

EngineOK ==
  /\ segmentCounter \in Nat
  /\ drain \subseteq Awaited /\ \A d \in drain : IsPast(d)
  /\ pendingBuffer \subseteq Finals /\ pendingTiny \in BOOLEAN
  /\ AwaitedExplains

(* What Await starts to wait for, in the terms of EngineOK. *)
LEMMA AwaitEngine ==
  ASSUME NEW phase \in {"held", "skipped", "translating"}, NEW sources \in SUBSET Finals,
         NEW item, item.token = sttStreamToken,
         segmentCounter' \in Nat, generation \in Nat, sttStreamToken \in Nat,
         UNCHANGED clock, Await(phase, sources, item)
  PROVE  \E d \in Awaited :
           /\ drain' = {d} /\ d.phase = phase /\ d.sources = sources
           /\ d.token = sttStreamToken' /\ d.generation = generation'
           /\ d.segment = segmentCounter'
<1> DEFINE d == [phase |-> phase, sources |-> sources, segment |-> segmentCounter',
                 token |-> item.token, generation |-> generation]
<1>1. drain' = {d}
  BY DEF Await
<1>2. sttStreamToken' = sttStreamToken /\ generation' = generation
  BY DEF clock
<1>3. item.token \in Nat
  OBVIOUS
<1>4. d \in Awaited
  BY <1>3 DEF Awaited
<1>5. /\ d.phase = phase /\ d.sources = sources /\ d.token = sttStreamToken
      /\ d.generation = generation /\ d.segment = segmentCounter'
  OBVIOUS
<1> QED
  BY <1>1, <1>2, <1>4, <1>5

(* A newly awaited item keeps EngineOK.                                     *)
LEMMA FreshAwaited ==
  ASSUME NEW d \in Awaited, drain' = {d},
         d.token = sttStreamToken', d.generation = generation',
         d.phase # "translating" => d.sources = {},
         d.phase = "translating" => pendingBuffer' = {} /\ d.segment = segmentCounter',
         d.phase # "held" => ~HasFlushablePending',
         segmentCounter' \in Nat, sttStreamToken' \in Nat, generation' \in Nat,
         pendingBuffer' \subseteq Finals, pendingTiny' \in BOOLEAN
  PROVE  EngineOK' /\ drain' # {}
<1>1. AwaitedExplains'
  BY DEF AwaitedExplains
<1>2. drain' \subseteq Awaited
      /\ \A e \in drain' : e.token <= sttStreamToken' /\ e.generation <= generation'
  OBVIOUS
<1> QED
  BY <1>1, <1>2 DEF EngineOK, IsPast

(* Handling a final leaves the engine in a state the invariant explains.    *)
LEMMA HandleFinalEngine ==
  ASSUME NEW item, item.n \in Finals, item.token = sttStreamToken,
         segmentCounter \in Nat, generation \in Nat, sttStreamToken \in Nat,
         pendingBuffer \subseteq Finals,
         UNCHANGED clock, HandleFinal(item)
  PROVE  EngineOK' /\ drain' # {}
<1>1. PICK held \in {pendingBuffer, {}} :
        \/ /\ pendingBuffer' = held \union {item.n}
           /\ pendingTiny' \in BOOLEAN
           /\ Await("held", {}, item)
        \/ /\ pendingBuffer' = {} /\ pendingTiny' = FALSE
           /\ Await("skipped", {}, item)
        \/ /\ pendingBuffer' = {} /\ pendingTiny' = FALSE
           /\ Await("translating", held \union {item.n}, item)
  BY DEF HandleFinal, JoinFragments
<1>2. segmentCounter' \in Nat
  BY DEF HandleFinal, JoinFragments
<1>3. held \union {item.n} \in SUBSET Finals /\ {} \in SUBSET Finals
  OBVIOUS
<1>4. CASE pendingBuffer' = held \union {item.n} /\ pendingTiny' \in BOOLEAN
           /\ Await("held", {}, item)
  <2>1. PICK d \in Awaited :
          /\ drain' = {d} /\ d.phase = "held" /\ d.sources = {}
          /\ d.token = sttStreamToken' /\ d.generation = generation'
    BY <1>2, <1>3, <1>4, AwaitEngine
  <2> QED
    BY <1>2, <1>3, <1>4, <2>1, FreshAwaited DEF clock
<1>5. CASE pendingBuffer' = {} /\ pendingTiny' = FALSE /\ Await("skipped", {}, item)
  <2>1. PICK d \in Awaited :
          /\ drain' = {d} /\ d.phase = "skipped" /\ d.sources = {}
          /\ d.token = sttStreamToken' /\ d.generation = generation'
    BY <1>2, <1>3, <1>5, AwaitEngine
  <2> QED
    BY <1>2, <1>5, <2>1, FreshAwaited DEF clock, HasFlushablePending
<1>6. CASE pendingBuffer' = {} /\ pendingTiny' = FALSE
           /\ Await("translating", held \union {item.n}, item)
  <2>1. PICK d \in Awaited :
          /\ drain' = {d} /\ d.phase = "translating" /\ d.segment = segmentCounter'
          /\ d.token = sttStreamToken' /\ d.generation = generation'
    BY <1>2, <1>3, <1>6, AwaitEngine
  <2> QED
    BY <1>2, <1>6, <2>1, FreshAwaited DEF clock, HasFlushablePending
<1> QED
  BY <1>1, <1>4, <1>5, <1>6

(* So does handling a flush item, whether it is current or not.             *)
LEMMA HandleFlushEngine ==
  ASSUME NEW item, item.token = sttStreamToken, item.generation = generation,
         segmentCounter \in Nat, generation \in Nat, sttStreamToken \in Nat,
         pendingBuffer \subseteq Finals, pendingTiny \in BOOLEAN,
         UNCHANGED clock, HandleFlush(item)
  PROVE  EngineOK' /\ drain' # {}
<1>1. CASE HasFlushablePending
  <2>1. /\ segmentCounter' = segmentCounter + 1
        /\ pendingBuffer' = {} /\ pendingTiny' = FALSE
        /\ Await("translating", pendingBuffer, item)
    BY <1>1 DEF HandleFlush
  <2>2. PICK d \in Awaited :
          /\ drain' = {d} /\ d.phase = "translating" /\ d.segment = segmentCounter'
          /\ d.token = sttStreamToken' /\ d.generation = generation'
    BY <2>1, AwaitEngine
  <2>3. pendingBuffer' \subseteq Finals /\ ~HasFlushablePending' /\ segmentCounter' \in Nat
    BY <2>1 DEF HasFlushablePending
  <2> QED
    BY <2>1, <2>2, <2>3, FreshAwaited DEF clock
<1>2. CASE ~HasFlushablePending
  <2>1. UNCHANGED <<segmentCounter, engine>> /\ Await("skipped", {}, item)
    BY <1>2 DEF HandleFlush
  <2>2. {} \in SUBSET Finals /\ segmentCounter' \in Nat
    BY <2>1
  <2>3. PICK d \in Awaited :
          /\ drain' = {d} /\ d.phase = "skipped" /\ d.sources = {}
          /\ d.token = sttStreamToken' /\ d.generation = generation'
    BY <2>1, <2>2, AwaitEngine
  <2> QED
    BY <1>2, <2>1, <2>3, FreshAwaited DEF clock, engine,
                            HasFlushablePending
<1> QED
  BY <1>1, <1>2

(* The loop takes the head of q, or stops at an empty q.                    *)
LEMMA TakeNextEngine ==
  ASSUME NEW q \in Seq(Items), CurrentItems(q),
         segmentCounter \in Nat, generation \in Nat, sttStreamToken \in Nat,
         pendingBuffer \subseteq Finals, pendingTiny \in BOOLEAN,
         UNCHANGED clock, TakeNext(q)
  PROVE  /\ EngineOK' /\ finalQueue' \in Seq(Items) /\ CurrentItems(finalQueue')
         /\ \/ q = <<>> /\ finalQueue' = <<>> /\ drain' = {} /\ UNCHANGED engine
            \/ /\ finalQueue' = Tail(q) /\ Len(finalQueue') = Len(q) - 1
               /\ drain' # {} /\ Len(q) \in Nat \ {0}
<1>1. CASE q = <<>>
  <2>1. finalQueue' = q /\ drain' = {} /\ UNCHANGED <<segmentCounter, engine>>
    BY <1>1 DEF TakeNext
  <2>2. EngineOK'
    BY <2>1 DEF EngineOK, engine, AwaitedExplains, IsPast
  <2> QED
    BY <1>1, <2>1, <2>2
<1>2. CASE q # <<>>
  <2>1. /\ finalQueue' = Tail(q)
        /\ IF Head(q).kind = "final" THEN HandleFinal(Head(q)) ELSE HandleFlush(Head(q))
    BY <1>2 DEF TakeNext
  <2>2. /\ Head(q) \in Items /\ Tail(q) \in Seq(Items) /\ Len(Tail(q)) = Len(q) - 1
        /\ Len(q) \in Nat \ {0}
        /\ \A i \in DOMAIN Tail(q) : i + 1 \in DOMAIN q /\ Tail(q)[i] = q[i + 1]
    BY <1>2, TailFacts
  <2>3. Head(q).token = sttStreamToken
        /\ (Head(q).kind = "flush" => Head(q).generation = generation)
    BY <1>2, TailFacts DEF CurrentItems
  <2>4. \/ Head(q).kind = "final" /\ Head(q).n \in Finals
        \/ Head(q).kind = "flush"
    BY <2>2 DEF Items
  <2>5. EngineOK' /\ drain' # {}
    BY <2>1, <2>3, <2>4, HandleFinalEngine, HandleFlushEngine
  <2>6. CurrentItems(Tail(q))
    BY <2>2 DEF CurrentItems
  <2> QED
    BY <2>1, <2>2, <2>5, <2>6
<1> QED
  BY <1>1, <1>2

-----------------------------------------------------------------------------
(* One lemma per action.                                                    *)
LEMMA CoreInit == Init => CoreInv
<1> SUFFICES ASSUME Init PROVE CoreInv
  OBVIOUS
<1> USE DEF Init
<1>1. finalQueue \in Seq(Items) /\ Len(finalQueue) = 0 /\ Queued = {}
  BY EmptySeq, LenProperties DEF Queued
<1>2. heard \in [Finals -> Nat] /\ publishedIn \in [Finals -> Nat]
  OBVIOUS
<1>3. /\ drain \subseteq Awaited /\ pendingFlushTimer \subseteq Timers
      /\ pendingBuffer \subseteq Finals /\ processedFinalKeys \subseteq Keys
      /\ \A timer \in pendingFlushTimer : IsPast(timer)
      /\ \A d \in drain : IsPast(d)
  OBVIOUS
<1>4. isActive \in BOOLEAN /\ pendingTiny \in BOOLEAN
  OBVIOUS
<1>0. arrivals \in 0..MaxFinals
  BY TranslationAssumption
<1>5. TypeOK
  BY <1>0, <1>1, <1>2, <1>3, <1>4 DEF TypeOK
<1>6. QueueHasRoom
  BY <1>1, TranslationAssumption DEF QueueHasRoom
<1> QED
  BY <1>1, <1>5, <1>6
  DEF CoreInv, CapturedIsCurrent, StoppedIsEmpty, AwaitedExplains,
      HeldFragmentScheduled, HasFlushablePending

(* A push to the queue, when a place is free for it.                        *)
LEMMA PushKeepsCore ==
  ASSUME CoreInv, isActive, NEW q \in Seq(Items), CurrentItems(q), q # <<>>,
         Len(q) <= MaxPendingFinals, pendingFlushTimer' = {},
         UNCHANGED clock, PushAndDrain(q), processedFinalKeys' \subseteq Keys,
         arrivals' \in 0..MaxFinals, heard' \in [Finals -> Nat],
         UNCHANGED publishedIn
  PROVE  CoreInv'
<1> USE DEF CoreInv
<1>1. CASE drain = {}
  <2>1. TakeNext(q)
    BY <1>1 DEF PushAndDrain
  <2>2. /\ EngineOK' /\ finalQueue' \in Seq(Items) /\ CurrentItems(finalQueue')
        /\ Len(finalQueue') = Len(q) - 1 /\ Len(q) \in Nat \ {0}
        /\ drain' # {}
    BY <2>1, TakeNextEngine DEF TypeOK
  <2>3. CapturedIsCurrent'
    BY <2>2 DEF CapturedIsCurrent, Queued, CurrentItems, clock
  <2>4. QueueHasRoom'
    BY <2>2, TranslationAssumption DEF QueueHasRoom
  <2> QED
    BY <2>2, <2>3, <2>4 DEF TypeOK, EngineOK, clock, StoppedIsEmpty, HeldFragmentScheduled
<1>2. CASE drain # {}
  <2>1. finalQueue' = q /\ UNCHANGED <<segmentCounter, drain, engine>>
    BY <1>2 DEF PushAndDrain
  <2>2. CapturedIsCurrent'
    BY <2>1 DEF CapturedIsCurrent, Queued, CurrentItems, clock
  <2>3. QueueHasRoom'
    BY <2>1, LenProperties, TranslationAssumption DEF QueueHasRoom
  <2>4. TypeOK'
    BY <2>1 DEF TypeOK, clock, engine, IsPast
  <2>5. AwaitedExplains'
    BY <2>1 DEF AwaitedExplains, clock, engine, HasFlushablePending
  <2> QED
    BY <1>2, <2>1, <2>2, <2>3, <2>4, <2>5 DEF clock, StoppedIsEmpty, HeldFragmentScheduled
<1> QED
  BY <1>1, <1>2

(* One lemma per action: a new final, which makes room for itself.          *)
LEMMA OnFinalKeepsCore ==
  ASSUME CoreInv, NEW k \in Keys, NEW t \in Nat, OnFinal(k, t)
  PROVE  CoreInv'
<1> DEFINE kept == IF Len(finalQueue) >= MaxPendingFinals THEN Tail(finalQueue)
                   ELSE finalQueue
           item == FinalItem(arrivals + 1, t)
<1> USE DEF CoreInv
<1>1. item \in Items /\ item.token = sttStreamToken /\ item.kind = "final"
  <2>1. arrivals + 1 \in Finals /\ t = sttStreamToken
    BY TranslationAssumption DEF TypeOK, OnFinal, Finals
  <2>2. item.kind = "final" /\ item.n = arrivals + 1 /\ item.token = t
    BY DEF FinalItem
  <2>3. item \in [kind : {"final"}, n : Finals, token : Nat, generation : {0}]
    BY <2>1 DEF FinalItem
  <2> QED
    BY <2>1, <2>2, <2>3 DEF Items
<1>2. /\ kept \in Seq(Items) /\ CurrentItems(kept) /\ Len(kept) + 1 <= MaxPendingFinals
      /\ Len(kept) \in Nat
  <2>1. CASE Len(finalQueue) >= MaxPendingFinals
    <3>1. finalQueue # <<>>
      BY <2>1, EmptySeq, TranslationAssumption
    <3>2. /\ Tail(finalQueue) \in Seq(Items) /\ Len(Tail(finalQueue)) = Len(finalQueue) - 1
          /\ \A i \in DOMAIN Tail(finalQueue) :
               i + 1 \in DOMAIN finalQueue /\ Tail(finalQueue)[i] = finalQueue[i + 1]
          /\ Len(finalQueue) \in Nat \ {0}
      BY <3>1, TailFacts DEF TypeOK
    <3>3. CurrentItems(Tail(finalQueue))
      BY <3>2 DEF CurrentItems, CapturedIsCurrent, Queued
    <3> QED
      BY <2>1, <3>2, <3>3, TranslationAssumption DEF QueueHasRoom
  <2>2. CASE ~(Len(finalQueue) >= MaxPendingFinals)
    <3>1. Len(finalQueue) \in Nat
      BY LenProperties DEF TypeOK
    <3> QED
      BY <2>2, <3>1, TranslationAssumption
      DEF TypeOK, CurrentItems, CapturedIsCurrent, Queued
  <2> QED
    BY <2>1, <2>2
<1>3. /\ Append(kept, item) \in Seq(Items) /\ CurrentItems(Append(kept, item))
      /\ Len(Append(kept, item)) = Len(kept) + 1
  <2> HIDE DEF kept, item
  <2>1. /\ Append(kept, item) \in Seq(Items) /\ Len(Append(kept, item)) = Len(kept) + 1
        /\ DOMAIN kept = 1..Len(kept) /\ DOMAIN Append(kept, item) = 1..(Len(kept) + 1)
        /\ \A i \in DOMAIN kept : Append(kept, item)[i] = kept[i]
        /\ Append(kept, item)[Len(kept) + 1] = item
    BY <1>1, <1>2, AppendFacts
  <2> QED
    BY <1>1, <1>2, <2>1 DEF CurrentItems
<1>4. Append(kept, item) # <<>>
  BY <1>2, <1>3, EmptySeq
<1>5. /\ isActive /\ pendingFlushTimer' = {} /\ UNCHANGED clock
      /\ PushAndDrain(Append(kept, item)) /\ UNCHANGED publishedIn
      /\ processedFinalKeys' \subseteq Keys
      /\ arrivals' \in 0..MaxFinals /\ heard' \in [Finals -> Nat]
  BY TranslationAssumption DEF OnFinal, TypeOK, Finals
<1> QED
  BY <1>2, <1>3, <1>4, <1>5, PushKeepsCore

(* The timer, whose item takes the place reserved for it.                   *)
LEMMA FlushTimerKeepsCore == CoreInv /\ FlushTimerFires => CoreInv'
<1> SUFFICES ASSUME CoreInv, NEW timer \in pendingFlushTimer,
                    pendingFlushTimer' = {}, UNCHANGED <<clock, processedFinalKeys, history>>,
                    IF isActive /\ timer.token = sttStreamToken /\ timer.generation = generation
                    THEN PushAndDrain(Append(finalQueue, FlushItem(timer.token, timer.generation)))
                    ELSE UNCHANGED <<finalQueue, segmentCounter, drain, engine>>
             PROVE  CoreInv'
  BY DEF FlushTimerFires
<1> DEFINE item == FlushItem(timer.token, timer.generation)
<1> USE DEF CoreInv
<1>1. timer.token = sttStreamToken /\ timer.generation = generation
  BY DEF CapturedIsCurrent
<1>2. isActive
  BY DEF StoppedIsEmpty, TypeOK
<1>3. PushAndDrain(Append(finalQueue, item))
  BY <1>1, <1>2
<1>4. /\ item \in Items /\ item.token = sttStreamToken /\ item.kind = "flush"
      /\ item.generation = generation
  <2>1. /\ item.kind = "flush" /\ item.token = timer.token
        /\ item.generation = timer.generation
    BY DEF FlushItem
  <2>2. item \in [kind : {"flush"}, n : {0}, token : Nat, generation : Nat]
    BY <1>1 DEF FlushItem, TypeOK
  <2> QED
    BY <1>1, <2>1, <2>2 DEF Items
<1>5. Len(finalQueue) + 1 <= MaxPendingFinals
  BY DEF QueueHasRoom
<1>6. /\ Append(finalQueue, item) \in Seq(Items) /\ CurrentItems(Append(finalQueue, item))
      /\ Len(Append(finalQueue, item)) = Len(finalQueue) + 1 /\ Len(finalQueue) \in Nat
  <2> HIDE DEF item
  <2>1. /\ Append(finalQueue, item) \in Seq(Items)
        /\ Len(Append(finalQueue, item)) = Len(finalQueue) + 1
        /\ DOMAIN finalQueue = 1..Len(finalQueue) /\ Len(finalQueue) \in Nat
        /\ DOMAIN Append(finalQueue, item) = 1..(Len(finalQueue) + 1)
        /\ \A i \in DOMAIN finalQueue : Append(finalQueue, item)[i] = finalQueue[i]
        /\ Append(finalQueue, item)[Len(finalQueue) + 1] = item
    BY <1>4, AppendFacts DEF TypeOK
  <2> QED
    BY <1>4, <2>1 DEF CurrentItems, CapturedIsCurrent, Queued
<1>7. Append(finalQueue, item) # <<>>
  BY <1>6, EmptySeq
<1>8. /\ processedFinalKeys' \subseteq Keys /\ UNCHANGED publishedIn
      /\ arrivals' \in 0..MaxFinals /\ heard' \in [Finals -> Nat]
  BY DEF TypeOK, history
<1> QED
  BY <1>2, <1>3, <1>5, <1>6, <1>7, <1>8, PushKeepsCore

(* The loop goes on after item d.  When the queue is empty it stops, and    *)
(* then the engine holds nothing, or a timer has been armed for it.         *)
LEMMA ContinueKeepsCore ==
  ASSUME CoreInv, drain # {}, DrainContinues, UNCHANGED <<clock, processedFinalKeys>>,
         arrivals' \in 0..MaxFinals, heard' \in [Finals -> Nat],
         publishedIn' \in [Finals -> Nat],
         pendingFlushTimer' \subseteq Timers,
         \A timer \in pendingFlushTimer' :
           timer.token = sttStreamToken /\ timer.generation = generation,
         isActive /\ HasFlushablePending => pendingFlushTimer' # {},
         ~isActive => pendingFlushTimer' = {}
  PROVE  CoreInv'
<1> USE DEF CoreInv
<1>1. CASE isActive
  <2>1. TakeNext(finalQueue)
    BY <1>1 DEF DrainContinues
  <2>2. CurrentItems(finalQueue)
    BY DEF CurrentItems, CapturedIsCurrent, Queued
  <2>3. /\ EngineOK' /\ finalQueue' \in Seq(Items) /\ CurrentItems(finalQueue')
        /\ \/ /\ finalQueue = <<>> /\ finalQueue' = <<>> /\ drain' = {}
              /\ UNCHANGED engine
           \/ /\ Len(finalQueue') = Len(finalQueue) - 1
              /\ drain' # {} /\ Len(finalQueue) \in Nat \ {0}
    BY <2>1, <2>2, TakeNextEngine DEF TypeOK
  <2>4. CapturedIsCurrent'
    BY <2>3 DEF CapturedIsCurrent, Queued, CurrentItems, clock
  <2>5. Len(finalQueue') + 1 <= MaxPendingFinals
    <3>1. CASE finalQueue' = <<>>
      BY <3>1, EmptySeq, TranslationAssumption
    <3>2. CASE finalQueue' # <<>>
      BY <3>2, <2>3, TranslationAssumption DEF QueueHasRoom
    <3> QED
      BY <3>1, <3>2
  <2>6. QueueHasRoom'
    BY <2>3, <2>5, LenProperties, TranslationAssumption DEF QueueHasRoom
  <2>7. HeldFragmentScheduled'
    BY <1>1, <2>3 DEF HeldFragmentScheduled, HasFlushablePending, engine
  <2>8. TypeOK'
    BY <2>3 DEF TypeOK, EngineOK, clock, IsPast
  <2> QED
    BY <1>1, <2>3, <2>4, <2>6, <2>7, <2>8 DEF EngineOK, clock, StoppedIsEmpty
<1>2. CASE ~isActive
  <2>1. drain' = {} /\ UNCHANGED <<finalQueue, segmentCounter, engine>>
    BY <1>2 DEF DrainContinues
  <2>2. finalQueue = <<>> /\ pendingFlushTimer' = {} /\ pendingBuffer = {}
    BY <1>2 DEF StoppedIsEmpty
  <2>3. TypeOK'
    BY <2>1, <2>2 DEF TypeOK, clock, engine, IsPast
  <2>4. CapturedIsCurrent' /\ QueueHasRoom'
    BY <2>1, <2>2, EmptySeq, TranslationAssumption
    DEF CapturedIsCurrent, Queued, QueueHasRoom
  <2> QED
    BY <1>2, <2>1, <2>2, <2>3, <2>4
    DEF clock, engine, StoppedIsEmpty, AwaitedExplains, HeldFragmentScheduled
<1> QED
  BY <1>1, <1>2 DEF TypeOK

(* A held text, which may arm the timer.                                    *)
LEMMA TranslationHeldKeepsCore == CoreInv /\ TranslationHeld => CoreInv'
<1> SUFFICES ASSUME CoreInv, NEW d \in drain, d.phase = "held",
                    pendingFlushTimer' =
                      IF HasFlushablePending /\ d.generation = generation
                                             /\ d.token = sttStreamToken
                      THEN {[token |-> d.token, generation |-> d.generation]}
                      ELSE pendingFlushTimer,
                    DrainContinues, UNCHANGED <<clock, processedFinalKeys, history>>
             PROVE  CoreInv'
  BY DEF TranslationHeld
<1> USE DEF CoreInv
<1>1. CASE HasFlushablePending /\ d.generation = generation /\ d.token = sttStreamToken
  <2>1. pendingFlushTimer' = {[token |-> sttStreamToken, generation |-> generation]}
    BY <1>1
  <2>2. pendingFlushTimer' \subseteq Timers
    BY <2>1 DEF Timers, TypeOK
  <2>3. isActive
    BY <1>1 DEF StoppedIsEmpty, HasFlushablePending, TypeOK
  <2>4. /\ UNCHANGED <<clock, processedFinalKeys>> /\ arrivals' \in 0..MaxFinals
        /\ heard' \in [Finals -> Nat] /\ publishedIn' \in [Finals -> Nat]
    BY DEF TypeOK, history
  <2>5. \A timer \in pendingFlushTimer' :
          timer.token = sttStreamToken /\ timer.generation = generation
    <3> TAKE timer \in pendingFlushTimer'
    <3>1. timer = [token |-> sttStreamToken, generation |-> generation]
      BY <2>1
    <3> QED
      BY ONLY <3>1
  <2>6. pendingFlushTimer' # {}
    BY ONLY <2>1
  <2> QED
    BY <2>2, <2>3, <2>4, <2>5, <2>6, ContinueKeepsCore
<1>2. CASE ~(HasFlushablePending /\ d.generation = generation /\ d.token = sttStreamToken)
  <2>1. pendingFlushTimer' = pendingFlushTimer
    BY <1>2
  <2>2. ~HasFlushablePending
    BY <1>2 DEF AwaitedExplains, HasFlushablePending
  <2> QED
    BY <2>1, <2>2, ContinueKeepsCore DEF TypeOK, history, CapturedIsCurrent, StoppedIsEmpty
<1> QED
  BY <1>1, <1>2

(* A translation that ended, whatever became of its text.                   *)
LEMMA AnsweredKeepsCore ==
  ASSUME CoreInv, NEW d \in drain, d.phase # "held", DrainContinues,
         UNCHANGED <<clock, processedFinalKeys, pendingFlushTimer, arrivals, heard>>,
         publishedIn' \in [Finals -> Nat]
  PROVE  CoreInv'
BY ContinueKeepsCore
DEF CoreInv, TypeOK, CapturedIsCurrent, StoppedIsEmpty, AwaitedExplains

(* A translation that is published.                                         *)
LEMMA TranslationPublishedKeepsCore ==
  ASSUME CoreInv, NEW s \in Nat, TranslationPublished(s)
  PROVE  CoreInv'
<1>1. PICK d \in drain :
        /\ d.phase = "translating" /\ DrainContinues
        /\ publishedIn' = [n \in Finals |-> IF n \in d.sources THEN s ELSE publishedIn[n]]
        /\ UNCHANGED <<clock, processedFinalKeys, pendingFlushTimer, arrivals, heard>>
  BY DEF TranslationPublished
<1>2. publishedIn' \in [Finals -> Nat]
  BY <1>1 DEF CoreInv, TypeOK
<1> QED
  BY <1>1, <1>2, AnsweredKeepsCore

(* A translation that is dropped, or an item there was nothing to await for. *)
LEMMA TranslationDroppedKeepsCore == CoreInv /\ TranslationDropped => CoreInv'
<1> SUFFICES ASSUME CoreInv, TranslationDropped PROVE CoreInv'
  OBVIOUS
<1>1. PICK d \in drain :
        /\ d.phase # "held" /\ DrainContinues
        /\ UNCHANGED <<clock, processedFinalKeys, pendingFlushTimer, history>>
  BY DEF TranslationDropped
<1>2. publishedIn' \in [Finals -> Nat] /\ UNCHANGED <<arrivals, heard>>
  BY <1>1 DEF CoreInv, TypeOK, history
<1> QED
  BY <1>1, <1>2, AnsweredKeepsCore

(* A seek and a stop empty the queue, the timer and the engine, and leave   *)
(* the awaited item behind.                                                 *)
LEMMA ResetKeepsCore ==
  ASSUME CoreInv, isActive' \in BOOLEAN, generation' = generation + 1,
         sttStreamToken' \in Nat, sttStreamToken' > sttStreamToken,
         processedFinalKeys' = {}, pendingFlushTimer' = {}, finalQueue' = <<>>,
         pendingBuffer' = {}, pendingTiny' = FALSE,
         UNCHANGED <<segmentCounter, drain, history>>
  PROVE  CoreInv'
<1> USE DEF CoreInv
<1>1. finalQueue' \in Seq(Items) /\ Len(finalQueue') = 0 /\ Queued' = {}
  BY EmptySeq, LenProperties DEF Queued
<1>2. \A d \in drain : d.token \in Nat /\ d.generation \in Nat
  BY DEF TypeOK, Awaited
<1>3. \A d \in drain : d.token < sttStreamToken' /\ d.generation < generation'
  BY <1>2 DEF TypeOK, IsPast
<1>4. TypeOK'
  <2>1. generation' \in Nat
    BY DEF TypeOK
  <2>3. pendingTiny' \in BOOLEAN /\ processedFinalKeys' \subseteq Keys
    OBVIOUS
  <2>2. \A d \in drain' : d.token <= sttStreamToken' /\ d.generation <= generation'
    BY <1>2, <1>3 DEF TypeOK
  <2> QED
    BY <1>1, <2>1, <2>2, <2>3 DEF TypeOK, IsPast, history
<1>5. QueueHasRoom'
  BY <1>1, TranslationAssumption DEF QueueHasRoom
<1>6. AwaitedExplains'
  BY <1>3 DEF AwaitedExplains, HasFlushablePending
<1> QED
  BY <1>1, <1>4, <1>5, <1>6
  DEF CapturedIsCurrent, StoppedIsEmpty, HeldFragmentScheduled, HasFlushablePending

(* A seek.                                                                  *)
LEMMA HandleSeekKeepsCore == CoreInv /\ HandleSeek => CoreInv'
<1> SUFFICES ASSUME CoreInv, HandleSeek PROVE CoreInv'
  OBVIOUS
<1>1. sttStreamToken' \in Nat /\ sttStreamToken' > sttStreamToken
  BY DEF CoreInv, TypeOK, HandleSeek
<1>2. isActive' \in BOOLEAN
  BY DEF CoreInv, TypeOK, HandleSeek
<1> QED
  BY <1>1, <1>2, ResetKeepsCore DEF HandleSeek

(* The end of the session.                                                  *)
LEMMA StopKeepsCore == CoreInv /\ Stop => CoreInv'
<1> SUFFICES ASSUME CoreInv, Stop PROVE CoreInv'
  OBVIOUS
<1>1. sttStreamToken' \in Nat /\ sttStreamToken' > sttStreamToken
  BY DEF CoreInv, TypeOK, Stop
<1>2. isActive' \in BOOLEAN
  BY DEF CoreInv, TypeOK, Stop
<1> QED
  BY <1>1, <1>2, ResetKeepsCore DEF Stop

(* Every step of the text half preserves the invariant.                     *)
LEMMA CoreStep == CoreInv /\ [Next]_vars => CoreInv'
<1> SUFFICES ASSUME CoreInv, [Next]_vars PROVE CoreInv'
  OBVIOUS
<1>1. CASE \E k \in Keys, t \in 1..sttStreamToken : OnFinal(k, t)
  BY <1>1, OnFinalKeepsCore
<1>2. CASE FlushTimerFires
  BY <1>2, FlushTimerKeepsCore
<1>3. CASE DrainStep
  <2>1. \A d \in drain : d.segment \in Nat
    BY DEF CoreInv, TypeOK, Awaited
  <2> QED
    BY <1>3, <2>1, TranslationHeldKeepsCore, TranslationPublishedKeepsCore,
       TranslationDroppedKeepsCore DEF DrainStep
<1>4. CASE HandleSeek
  BY <1>4, HandleSeekKeepsCore
<1>5. CASE Stop
  BY <1>5, StopKeepsCore
<1>6. CASE UNCHANGED vars
  BY <1>6 DEF CoreInv, TypeOK, CapturedIsCurrent, QueueHasRoom, StoppedIsEmpty,
              AwaitedExplains, HeldFragmentScheduled, HasFlushablePending, Queued,
              vars, clock, textVars, engine, history, IsPast
<1> QED
  BY <1>1, <1>2, <1>3, <1>4, <1>5, <1>6 DEF Next

(* The invariant holds throughout a session.                                *)
LEMMA CoreAlways == Spec => []CoreInv
BY CoreInit, CoreStep, PTL DEF Spec

(* Every variable keeps its type, and nothing captured by a callback is     *)
(* ahead of the counters of the pipeline.                                   *)
THEOREM TypeCorrect == Spec => []TypeOK
<1>1. CoreInv => TypeOK
  BY DEF CoreInv
<1> QED
  BY <1>1, CoreAlways, PTL

(* The timer's callback pushes onto finalQueue without looking at its       *)
(* length, yet the queue never exceeds MAX_PENDING_FINALS: a timer is only  *)
(* armed after an item has left the queue, and a new final disarms it.      *)
THEOREM QueueBounded == Spec => []FinalQueueBounded
<1>1. CoreInv => FinalQueueBounded
  BY LenProperties, TranslationAssumption
  DEF CoreInv, QueueHasRoom, FinalQueueBounded, TypeOK
<1> QED
  BY <1>1, CoreAlways, PTL

(* A held fragment that is long enough to be translated alone always has an *)
(* armed timer or an item of the loop that will deal with it, however       *)
(* seeks, late answers and the timer interleave.                            *)
THEOREM FragmentScheduled == Spec => []HeldFragmentScheduled
<1>1. CoreInv => HeldFragmentScheduled
  BY DEF CoreInv
<1> QED
  BY <1>1, CoreAlways, PTL
-----------------------------------------------------------------------------
(* The part of the invariant that follows each final from its arrival to    *)
(* the segment it is published in: what is published was spoken before what *)
(* is being translated, that before the held fragment's finals, and these   *)
(* before what is queued; and all but the published was heard on the stream *)
(* its item names.                                                          *)
Speech(q) == {i \in DOMAIN q : q[i].kind = "final"}
Done(pub) == {n \in Finals : pub[n] # 0}

QueueSpoken(q, arr, hd, tok) ==
  \A i \in Speech(q) :
    /\ q[i].n \in Finals /\ q[i].n <= arr /\ hd[q[i].n] = tok
    /\ \A j \in Speech(q) : i < j => q[i].n < q[j].n

Ahead(S, q, arr) == \A m \in S : m <= arr /\ \A i \in Speech(q) : m < q[i].n

TextFits(q, frag, dr, pub, seg, arr, hd, tok) ==
  /\ QueueSpoken(q, arr, hd, tok)
  /\ Ahead(frag, q, arr) /\ \A m \in frag : hd[m] = tok
  /\ \A d \in dr : Ahead(d.sources, q, arr) /\ \A m \in d.sources : hd[m] = d.token
  /\ Ahead(Done(pub), q, arr)
  /\ \A n \in Done(pub) :
       /\ pub[n] <= seg
       /\ \A m \in frag : n < m
       /\ \A d \in dr : \A m \in d.sources : n < m
       /\ \A m \in Done(pub) : n < m => pub[n] <= pub[m]

OrderInv ==
  TextFits(finalQueue, pendingBuffer, drain, publishedIn, segmentCounter, arrivals, heard,
           sttStreamToken)

(* The finals that an item of the queue can bring to the engine.            *)
Spoken(item) == IF item.kind = "final" THEN {item.n} ELSE {}

(* The head of the queue is taken, and its final with the held ones is held *)
(* or translated, in whole or in part.                                      *)
LEMMA HeadTaken ==
  ASSUME NEW q \in Seq(Items), q # <<>>, NEW frag \in SUBSET Finals,
         NEW pub \in [Finals -> Nat], NEW seg \in Nat, NEW arr \in Nat, NEW hd, NEW tok,
         TextFits(q, frag, {}, pub, seg, arr, hd, tok),
         NEW more, more \subseteq frag \union Spoken(Head(q)),
         NEW dr, \A d \in dr : d.sources \subseteq frag \union Spoken(Head(q)) /\ d.token = tok,
         NEW seg2 \in Nat, seg2 >= seg
  PROVE  TextFits(Tail(q), more, dr, pub, seg2, arr, hd, tok)
<1> DEFINE S == frag \union Spoken(Head(q))
<1>1. /\ Head(q) = q[1] /\ 1 \in DOMAIN q /\ DOMAIN q = 1..Len(q) /\ Len(q) \in Nat
      /\ \A i \in DOMAIN Tail(q) : i + 1 \in DOMAIN q /\ i \in Nat \ {0} /\ Tail(q)[i] = q[i + 1]
  BY TailFacts, LenProperties
<1>2. \A i \in Speech(Tail(q)) : i + 1 \in Speech(q) /\ i \in Nat \ {0} /\ Tail(q)[i] = q[i + 1]
  BY <1>1 DEF Speech
<1>3. QueueSpoken(Tail(q), arr, hd, tok)
  <2> SUFFICES ASSUME NEW i \in Speech(Tail(q))
               PROVE  /\ q[i + 1].n \in Finals /\ q[i + 1].n <= arr /\ hd[q[i + 1].n] = tok
                      /\ \A j \in Speech(Tail(q)) : i < j => q[i + 1].n < q[j + 1].n
    BY <1>2 DEF QueueSpoken
  <2>1. \A j \in Speech(Tail(q)) : i < j => i + 1 < j + 1
    BY <1>2
  <2> QED
    BY <1>2, <2>1 DEF TextFits, QueueSpoken
<1>4. ASSUME NEW m \in Spoken(Head(q))
      PROVE  /\ m \in Finals /\ m <= arr /\ hd[m] = tok
             /\ \A i \in Speech(Tail(q)) : m < q[i + 1].n
             /\ \A n \in Done(pub) : n < m
  <2>1. 1 \in Speech(q) /\ m = q[1].n
    BY <1>1, <1>4 DEF Spoken, Speech
  <2>2. \A i \in Speech(Tail(q)) : 1 < i + 1
    BY <1>2
  <2> QED
    BY <1>2, <2>1, <2>2 DEF TextFits, QueueSpoken, Ahead
<1>5. ASSUME NEW m \in frag
      PROVE  /\ m <= arr /\ hd[m] = tok
             /\ \A i \in Speech(Tail(q)) : m < q[i + 1].n
             /\ \A n \in Done(pub) : n < m
  BY <1>2 DEF TextFits, Ahead
<1>6. /\ Ahead(S, Tail(q), arr) /\ \A m \in S : hd[m] = tok
      /\ \A n \in Done(pub) : \A m \in S : n < m
  BY <1>2, <1>4, <1>5 DEF Ahead
<1>7. Ahead(Done(pub), Tail(q), arr)
  BY <1>2 DEF TextFits, Ahead
<1>8. \A n \in Done(pub) : pub[n] <= seg2 /\ \A m \in Done(pub) : n < m => pub[n] <= pub[m]
  BY DEF TextFits, Done
<1>9. \A d \in dr : Ahead(d.sources, Tail(q), arr)
  BY <1>6 DEF Ahead
<1>10. Ahead(more, Tail(q), arr)
  BY <1>6 DEF Ahead
<1> HIDE DEF S
<1>11. more \subseteq S /\ \A d \in dr : d.sources \subseteq S /\ d.token = tok
  BY DEF S
<1> QED
  BY <1>3, <1>6, <1>7, <1>8, <1>9, <1>10, <1>11 DEF TextFits

(* drainFinalQueue takes the next item, with nothing else under way.        *)
LEMMA TakeNextOrder ==
  ASSUME NEW q \in Seq(Items), CurrentItems(q), pendingBuffer \in SUBSET Finals,
         segmentCounter \in Nat, NEW pub \in [Finals -> Nat], NEW arr \in Nat, NEW hd,
         TextFits(q, pendingBuffer, {}, pub, segmentCounter, arr, hd, sttStreamToken),
         TakeNext(q)
  PROVE  TextFits(finalQueue', pendingBuffer', drain', pub, segmentCounter', arr, hd,
                  sttStreamToken)
<1>1. CASE q = <<>>
  <2>1. finalQueue' = q /\ drain' = {} /\ UNCHANGED <<segmentCounter, pendingBuffer>>
    BY <1>1 DEF TakeNext, engine
  <2> QED
    BY <2>1
<1>2. CASE q # <<>>
  <2> DEFINE item == Head(q)
             S == pendingBuffer \union Spoken(item)
  <2>1. /\ finalQueue' = Tail(q)
        /\ IF item.kind = "final" THEN HandleFinal(item) ELSE HandleFlush(item)
    BY <1>2 DEF TakeNext
  <2>2. item.token = sttStreamToken
    BY <1>2, TailFacts DEF CurrentItems
  <2>3. ASSUME NEW phase, NEW sources, sources \subseteq S, Await(phase, sources, item)
        PROVE  \A d \in drain' : d.sources \subseteq S /\ d.token = sttStreamToken
    BY <2>2, <2>3 DEF Await
  <2>4. /\ segmentCounter' \in {segmentCounter, segmentCounter + 1}
        /\ pendingBuffer' \subseteq S
        /\ \E phase : \E sources \in SUBSET S : Await(phase, sources, item)
    <3>1. CASE item.kind = "final"
      <4>1. Spoken(item) = {item.n}
        BY <3>1 DEF Spoken
      <4> QED
        BY <2>1, <3>1, <4>1 DEF HandleFinal, JoinFragments
    <3>2. CASE item.kind # "final"
      BY <2>1, <3>2 DEF HandleFlush, engine
    <3> QED
      BY <3>1, <3>2
  <2>5. segmentCounter' \in Nat /\ segmentCounter' >= segmentCounter
    BY <2>4
  <2>6. \A d \in drain' : d.sources \subseteq S /\ d.token = sttStreamToken
    BY <2>3, <2>4
  <2> QED
    BY <1>2, <2>1, <2>4, <2>5, <2>6, HeadTaken
<1> QED
  BY <1>1, <1>2

(* What is appended to the queue is newer than all there is.                *)
LEMMA AppendOrder ==
  ASSUME NEW q \in Seq(Items), NEW item \in Items, NEW frag, NEW dr,
         NEW pub \in [Finals -> Nat], NEW seg \in Nat, NEW arr \in Nat, NEW hd, NEW tok,
         TextFits(q, frag, dr, pub, seg, arr, hd, tok),
         frag \subseteq Finals, \A d \in dr : d.sources \subseteq Finals,
         NEW arr2 \in Nat, NEW hd2, \A n \in Finals : n <= arr => hd2[n] = hd[n],
         \/ item.kind = "flush" /\ arr2 = arr
         \/ item.kind = "final" /\ arr2 = arr + 1 /\ item.n = arr2 /\ hd2[arr2] = tok
  PROVE  TextFits(Append(q, item), frag, dr, pub, seg, arr2, hd2, tok)
<1> DEFINE r == Append(q, item)
<1>1. /\ r \in Seq(Items) /\ DOMAIN q = 1..Len(q) /\ Len(q) \in Nat /\ DOMAIN r = 1..(Len(q) + 1)
      /\ \A i \in DOMAIN q : r[i] = q[i]
      /\ r[Len(q) + 1] = item
  BY AppendFacts
<1> HIDE DEF r
<1>2. ASSUME NEW i \in Speech(r)
      PROVE  \/ i \in Speech(q) /\ r[i] = q[i] /\ i <= Len(q)
             \/ i = Len(q) + 1 /\ r[i] = item /\ item.kind = "final"
  BY <1>1 DEF Speech
<1>3. \A i \in Speech(q) : q[i].n \in Finals /\ q[i].n <= arr /\ hd2[q[i].n] = tok
  BY DEF TextFits, QueueSpoken
<1>4. Finals \subseteq Nat /\ (item.kind = "final" => item.n \in Finals)
  BY DEF Finals, Items
<1>0. arr <= arr2
  <2>1. arr2 = arr \/ arr2 = arr + 1
    OBVIOUS
  <2> QED
    BY <2>1
<1>01. item.kind = "final" => item.n = arr + 1 /\ item.n = arr2 /\ hd2[item.n] = tok
  OBVIOUS
<1>5. \A i \in Speech(r) : r[i].n \in Finals /\ r[i].n <= arr2 /\ hd2[r[i].n] = tok
  <2> TAKE i \in Speech(r)
  <2>1. CASE i \in Speech(q) /\ r[i] = q[i]
    <3>1. q[i].n \in Nat /\ q[i].n <= arr /\ arr <= arr2
      BY <1>0, <1>3, <1>4, <2>1
    <3>2. q[i].n <= arr2
      BY <3>1
    <3> QED
      BY <1>3, <2>1, <3>2
  <2>2. CASE r[i] = item /\ item.kind = "final"
    <3>1. item.n \in Finals /\ item.n <= arr2 /\ hd2[item.n] = tok
      BY <1>01, <1>4, <2>2
    <3> QED
      BY <2>2, <3>1
  <2> QED
    BY <1>2, <2>1, <2>2
<1>6. \A i, j \in Speech(r) : i < j => r[i].n < r[j].n
  <2> TAKE i, j \in Speech(r)
  <2>1. CASE j = Len(q) + 1
    <3>1. r[j] = item /\ item.kind = "final" /\ item.n = arr + 1
      BY <1>01, <1>1, <1>2, <2>1 DEF Speech
    <3>2. i < j => i \in Speech(q) /\ r[i] = q[i]
      <4>1. i < j => i # Len(q) + 1
        BY <1>1, <2>1
      <4> QED
        BY <1>2, <4>1
    <3>3. i \in Speech(q) => q[i].n \in Nat /\ q[i].n < arr + 1
      <4>1. i \in Speech(q) => q[i].n \in Nat /\ q[i].n <= arr
        BY <1>3, <1>4
      <4> QED
        BY <4>1
    <3> QED
      BY <3>1, <3>2, <3>3
  <2>2. CASE j # Len(q) + 1
    <3>1. j \in Speech(q) /\ r[j] = q[j] /\ j <= Len(q) /\ j \in Nat /\ i \in Nat
      BY <1>1, <1>2, <2>2 DEF Speech
    <3>2. i < j => i \in Speech(q) /\ r[i] = q[i]
      BY <1>1, <1>2, <3>1
    <3> QED
      BY <3>1, <3>2 DEF TextFits, QueueSpoken
  <2> QED
    BY <2>1, <2>2
<1>7. ASSUME NEW S \in SUBSET Finals, Ahead(S, q, arr) PROVE Ahead(S, r, arr2)
  <2> SUFFICES ASSUME NEW m \in S
               PROVE  m <= arr2 /\ \A i \in Speech(r) : m < r[i].n
    BY DEF Ahead
  <2>1. m \in Nat /\ m <= arr /\ \A i \in Speech(q) : m < q[i].n
    BY <1>4, <1>7 DEF Ahead
  <2> QED
    BY <1>2, <2>1
<1>8. QueueSpoken(r, arr2, hd2, tok)
  BY <1>5, <1>6 DEF QueueSpoken
<1>9. Ahead(frag, r, arr2) /\ \A m \in frag : hd2[m] = tok
  BY <1>7 DEF TextFits, Ahead
<1>10. \A d \in dr : Ahead(d.sources, r, arr2) /\ \A m \in d.sources : hd2[m] = d.token
  BY <1>7 DEF TextFits, Ahead
<1>11. Ahead(Done(pub), r, arr2)
  BY <1>7 DEF TextFits, Done
<1> QED
  BY <1>8, <1>9, <1>10, <1>11 DEF TextFits, r

(* A full queue loses its oldest item.                                      *)
LEMMA DropOrder ==
  ASSUME NEW q \in Seq(Items), q # <<>>, NEW frag, NEW dr, NEW pub, NEW seg, NEW arr, NEW hd,
         NEW tok, TextFits(q, frag, dr, pub, seg, arr, hd, tok)
  PROVE  TextFits(Tail(q), frag, dr, pub, seg, arr, hd, tok)
<1>1. \A i \in Speech(Tail(q)) : i + 1 \in Speech(q) /\ i \in Nat /\ Tail(q)[i] = q[i + 1]
  BY TailFacts DEF Speech
<1>2. QueueSpoken(Tail(q), arr, hd, tok)
  <2> SUFFICES ASSUME NEW i \in Speech(Tail(q))
               PROVE  /\ q[i + 1].n \in Finals /\ q[i + 1].n <= arr /\ hd[q[i + 1].n] = tok
                      /\ \A j \in Speech(Tail(q)) : i < j => q[i + 1].n < q[j + 1].n
    BY <1>1 DEF QueueSpoken
  <2>1. \A j \in Speech(Tail(q)) : i < j => i + 1 < j + 1
    BY <1>1
  <2> QED
    BY <1>1, <2>1 DEF TextFits, QueueSpoken
<1>3. \A S : Ahead(S, q, arr) => Ahead(S, Tail(q), arr)
  BY <1>1 DEF Ahead
<1> QED
  BY <1>2, <1>3 DEF TextFits

(* A push, be the loop at work or not.                                      *)
LEMMA PushOrder ==
  ASSUME CoreInv, NEW q \in Seq(Items), CurrentItems(q), PushAndDrain(q),
         arrivals' \in Nat, UNCHANGED <<publishedIn, sttStreamToken>>,
         TextFits(q, pendingBuffer, drain, publishedIn, segmentCounter, arrivals', heard',
                  sttStreamToken)
  PROVE  OrderInv'
<1>1. CASE drain = {}
  <2>1. TakeNext(q)
    BY <1>1 DEF PushAndDrain
  <2>2. pendingBuffer \in SUBSET Finals /\ segmentCounter \in Nat /\ publishedIn \in [Finals -> Nat]
    BY DEF CoreInv, TypeOK
  <2> QED
    BY <1>1, <2>1, <2>2, TakeNextOrder DEF OrderInv
<1>2. CASE drain # {}
  BY <1>2 DEF PushAndDrain, OrderInv, engine
<1> QED
  BY <1>1, <1>2

LEMMA OnFinalOrder ==
  ASSUME CoreInv, OrderInv, NEW k \in Keys, NEW t \in Nat, OnFinal(k, t)
  PROVE  OrderInv'
<1> DEFINE kept == IF Len(finalQueue) >= MaxPendingFinals THEN Tail(finalQueue)
                   ELSE finalQueue
           item == FinalItem(arrivals + 1, t)
<1>1. /\ t = sttStreamToken /\ arrivals' = arrivals + 1
      /\ heard' = [heard EXCEPT ![arrivals + 1] = t]
      /\ PushAndDrain(Append(kept, item)) /\ UNCHANGED <<publishedIn, sttStreamToken>>
      /\ arrivals < MaxFinals
  BY DEF OnFinal, clock
<1>2. /\ arrivals \in Nat /\ arrivals + 1 \in Finals /\ arrivals' \in Nat
      /\ heard \in [Finals -> Nat]
  BY <1>1, TranslationAssumption DEF CoreInv, TypeOK, Finals
<1>3. /\ item \in Items /\ item.kind = "final" /\ item.n = arrivals + 1
      /\ item.token = sttStreamToken
  <2>1. item \in [kind : {"final"}, n : Finals, token : Nat, generation : {0}]
    BY <1>2 DEF FinalItem
  <2>2. item.kind = "final" /\ item.n = arrivals + 1 /\ item.token = sttStreamToken
    BY <1>1 DEF FinalItem
  <2> QED
    BY <2>1, <2>2 DEF Items
<1> HIDE DEF item
<1>4. /\ finalQueue \in Seq(Items) /\ CurrentItems(finalQueue)
      /\ finalQueue # <<>> => Tail(finalQueue) \in Seq(Items) /\ CurrentItems(Tail(finalQueue))
      /\ Len(finalQueue) >= MaxPendingFinals => finalQueue # <<>>
  <2>1. finalQueue \in Seq(Items) /\ CurrentItems(finalQueue)
    BY DEF CoreInv, TypeOK, CapturedIsCurrent, Queued, CurrentItems
  <2>2. Len(finalQueue) >= MaxPendingFinals => finalQueue # <<>>
    BY EmptySeq, TranslationAssumption
  <2>3. finalQueue # <<>> => Tail(finalQueue) \in Seq(Items) /\ CurrentItems(Tail(finalQueue))
    BY <2>1, TailFacts DEF CurrentItems
  <2> QED
    BY <2>1, <2>2, <2>3
<1>5. /\ kept \in Seq(Items) /\ CurrentItems(kept)
      /\ TextFits(kept, pendingBuffer, drain, publishedIn, segmentCounter, arrivals, heard,
                  sttStreamToken)
  BY <1>4, DropOrder DEF OrderInv
<1> HIDE DEF kept
<1>6. /\ Append(kept, item) \in Seq(Items) /\ CurrentItems(Append(kept, item))
  BY <1>3, <1>5, AppendFacts DEF CurrentItems
<1>7. /\ heard'[arrivals'] = sttStreamToken
      /\ \A n \in Finals : n <= arrivals => heard'[n] = heard[n]
  BY <1>1, <1>2 DEF Finals
<1>8. /\ pendingBuffer \subseteq Finals /\ publishedIn \in [Finals -> Nat] /\ segmentCounter \in Nat
      /\ \A d \in drain : d.sources \subseteq Finals
  BY DEF CoreInv, TypeOK, Awaited
<1>9. TextFits(Append(kept, item), pendingBuffer, drain, publishedIn, segmentCounter,
               arrivals', heard', sttStreamToken)
  BY <1>1, <1>2, <1>3, <1>5, <1>7, <1>8, AppendOrder
<1> QED
  BY <1>1, <1>2, <1>6, <1>9, PushOrder

LEMMA FlushTimerOrder ==
  ASSUME CoreInv, OrderInv, FlushTimerFires
  PROVE  OrderInv'
<1>1. PICK timer \in pendingFlushTimer :
        /\ UNCHANGED <<clock, history>>
        /\ IF isActive /\ timer.token = sttStreamToken /\ timer.generation = generation
           THEN PushAndDrain(Append(finalQueue, FlushItem(timer.token, timer.generation)))
           ELSE UNCHANGED <<finalQueue, segmentCounter, drain, engine>>
  BY DEF FlushTimerFires
<1> DEFINE item == FlushItem(timer.token, timer.generation)
<1>2. CASE isActive /\ timer.token = sttStreamToken /\ timer.generation = generation
  <2>1. PushAndDrain(Append(finalQueue, item))
    BY <1>1, <1>2
  <2>2. /\ item \in Items /\ item.kind = "flush" /\ item.token = sttStreamToken
        /\ item.generation = generation
    <3>1. item \in [kind : {"flush"}, n : {0}, token : Nat, generation : Nat]
      BY <1>2 DEF FlushItem, CoreInv, TypeOK
    <3>2. item.kind = "flush" /\ item.token = sttStreamToken /\ item.generation = generation
      BY <1>2 DEF FlushItem
    <3> QED
      BY <3>1, <3>2 DEF Items
  <2> HIDE DEF item
  <2>3. finalQueue \in Seq(Items) /\ CurrentItems(finalQueue)
    BY DEF CoreInv, TypeOK, CapturedIsCurrent, Queued, CurrentItems
  <2>4. Append(finalQueue, item) \in Seq(Items) /\ CurrentItems(Append(finalQueue, item))
    BY <2>2, <2>3, AppendFacts DEF CurrentItems
  <2>5. /\ pendingBuffer \subseteq Finals /\ publishedIn \in [Finals -> Nat] /\ segmentCounter \in Nat
        /\ \A d \in drain : d.sources \subseteq Finals
        /\ arrivals \in Nat
    BY DEF CoreInv, TypeOK, Awaited
  <2>6. TextFits(Append(finalQueue, item), pendingBuffer, drain, publishedIn, segmentCounter,
                 arrivals, heard, sttStreamToken)
    BY <2>2, <2>3, <2>5, AppendOrder DEF OrderInv
  <2>7. arrivals' = arrivals /\ heard' = heard /\ UNCHANGED <<publishedIn, sttStreamToken>>
    BY <1>1 DEF history, clock
  <2> QED
    BY <2>1, <2>4, <2>5, <2>6, <2>7, PushOrder
<1>3. CASE ~(isActive /\ timer.token = sttStreamToken /\ timer.generation = generation)
  BY <1>1, <1>3 DEF OrderInv, history, clock, engine
<1> QED
  BY <1>2, <1>3

(* The loop goes on, once what it awaited is published or not.              *)
LEMMA ContinueOrder ==
  ASSUME CoreInv, DrainContinues, publishedIn' \in [Finals -> Nat],
         UNCHANGED <<sttStreamToken, arrivals, heard>>,
         TextFits(finalQueue, pendingBuffer, {}, publishedIn', segmentCounter, arrivals, heard,
                  sttStreamToken)
  PROVE  OrderInv'
<1>1. CASE isActive
  <2>1. TakeNext(finalQueue)
    BY <1>1 DEF DrainContinues
  <2>2. /\ finalQueue \in Seq(Items) /\ CurrentItems(finalQueue)
        /\ pendingBuffer \in SUBSET Finals /\ segmentCounter \in Nat /\ arrivals \in Nat
    BY DEF CoreInv, TypeOK, CapturedIsCurrent, Queued, CurrentItems
  <2> QED
    BY <2>1, <2>2, TakeNextOrder DEF OrderInv
<1>2. CASE ~isActive
  BY <1>2 DEF DrainContinues, OrderInv, engine
<1> QED
  BY <1>1, <1>2

(* What publication may do.                                                 *)
Publishes ==
  /\ \A n \in Finals : publishedIn'[n] # publishedIn[n] =>
       isActive /\ heard[n] = sttStreamToken
  /\ \A n \in Finals : publishedIn[n] # 0 => publishedIn'[n] = publishedIn[n]

LEMMA PublishedOrder ==
  ASSUME CoreInv, OrderInv, NEW s \in Nat, TranslationPublished(s)
  PROVE  OrderInv' /\ Publishes
<1>1. PICK d \in drain :
        /\ d.phase = "translating" /\ d.segment = s /\ IsCurrent(d) /\ DrainContinues
        /\ publishedIn' = [n \in Finals |-> IF n \in d.sources THEN s ELSE publishedIn[n]]
        /\ UNCHANGED <<clock, processedFinalKeys, pendingFlushTimer, arrivals, heard>>
  BY DEF TranslationPublished
<1>2. s = segmentCounter /\ pendingBuffer = {}
  BY <1>1 DEF CoreInv, AwaitedExplains
<1>3. /\ publishedIn \in [Finals -> Nat] /\ publishedIn' \in [Finals -> Nat]
      /\ segmentCounter \in Nat
  BY <1>1 DEF CoreInv, TypeOK
<1>4. /\ \A n \in Done(publishedIn) : \A m \in d.sources : n < m
      /\ \A m \in d.sources : heard[m] = d.token
      /\ Ahead(d.sources, finalQueue, arrivals)
      /\ Ahead(Done(publishedIn), finalQueue, arrivals)
      /\ \A n \in Done(publishedIn) : publishedIn[n] <= segmentCounter
      /\ \A m, n \in Done(publishedIn) : n < m => publishedIn[n] <= publishedIn[m]
  BY DEF OrderInv, TextFits
<1>5. \A n \in Done(publishedIn) : n \notin d.sources
  BY <1>4 DEF Done, Finals
<1>6. \A n \in Done(publishedIn') :
        \/ n \in d.sources /\ publishedIn'[n] = s
        \/ n \in Done(publishedIn) /\ n \notin d.sources /\ publishedIn'[n] = publishedIn[n]
  BY <1>1 DEF Done
<1>7. Ahead(Done(publishedIn'), finalQueue, arrivals)
  BY <1>4, <1>6 DEF Ahead
<1>8. \A n \in Done(publishedIn') : publishedIn'[n] <= segmentCounter
  BY <1>2, <1>3, <1>4, <1>6
<1>9. \A n, m \in Done(publishedIn') : n < m => publishedIn'[n] <= publishedIn'[m]
  <2> TAKE n, m \in Done(publishedIn')
  <2>1. CASE m \in d.sources
    BY <1>2, <1>3, <1>6, <1>8, <2>1
  <2>2. CASE m \in Done(publishedIn) /\ n \in d.sources
    BY <1>4, <2>2 DEF Done, Finals
  <2>3. CASE m \in Done(publishedIn) /\ n \in Done(publishedIn) /\ n \notin d.sources /\ m \notin d.sources
    BY <1>4, <1>6, <2>3
  <2> QED
    BY <1>6, <2>1, <2>2, <2>3
<1>10. TextFits(finalQueue, {}, {}, publishedIn', segmentCounter, arrivals, heard, sttStreamToken)
  <2>1. QueueSpoken(finalQueue, arrivals, heard, sttStreamToken)
    BY DEF OrderInv, TextFits
  <2>2. Ahead({}, finalQueue, arrivals)
    BY DEF Ahead
  <2> QED
    BY <1>7, <1>8, <1>9, <2>1, <2>2 DEF TextFits
<1>11. OrderInv'
  BY <1>1, <1>2, <1>3, <1>10, ContinueOrder DEF clock
<1>12. Publishes
  <2>1. \A n \in Finals : n \notin d.sources => publishedIn'[n] = publishedIn[n]
    BY <1>1
  <2>2. isActive /\ d.token = sttStreamToken
    BY <1>1 DEF IsCurrent
  <2> QED
    BY <1>4, <1>5, <2>1, <2>2 DEF Publishes, Done
<1> QED
  BY <1>11, <1>12

(* Every other end of the awaited item.                                     *)
LEMMA NotPublishedOrder ==
  ASSUME CoreInv, OrderInv, DrainContinues, UNCHANGED <<clock, history>>
  PROVE  OrderInv' /\ Publishes
<1>1. publishedIn' = publishedIn /\ UNCHANGED <<sttStreamToken, arrivals, heard>>
  BY DEF clock, history
<1>2. TextFits(finalQueue, pendingBuffer, {}, publishedIn', segmentCounter, arrivals, heard,
               sttStreamToken)
  BY <1>1 DEF OrderInv, TextFits
<1>3. publishedIn' \in [Finals -> Nat]
  BY <1>1 DEF CoreInv, TypeOK
<1> QED
  BY <1>1, <1>2, <1>3, ContinueOrder DEF Publishes

(* Speech is forgotten with a seek or a stop, but for what is awaited and   *)
(* what is published.                                                       *)
LEMMA ResetOrder ==
  ASSUME OrderInv, finalQueue' = <<>>, pendingBuffer' = {},
         UNCHANGED <<segmentCounter, drain, history>>
  PROVE  OrderInv'
<1>1. Speech(<<>>) = {}
  BY EmptySeq DEF Speech
<1>2. \A S : Ahead(S, finalQueue, arrivals) => Ahead(S, <<>>, arrivals)
  BY <1>1 DEF Ahead
<1>3. QueueSpoken(<<>>, arrivals, heard, sttStreamToken') /\ Ahead({}, <<>>, arrivals)
  BY <1>1 DEF QueueSpoken, Ahead
<1> QED
  BY <1>2, <1>3 DEF OrderInv, TextFits, history

LEMMA OrderInit == Init => OrderInv
<1> SUFFICES ASSUME Init PROVE OrderInv
  OBVIOUS
<1>1. Speech(<<>>) = {} /\ Done(publishedIn) = {}
  BY EmptySeq DEF Speech, Done, Init
<1> QED
  BY <1>1 DEF Init, OrderInv, TextFits, QueueSpoken, Ahead

LEMMA OrderStep == CoreInv /\ OrderInv /\ [Next]_vars => OrderInv' /\ [Publishes]_vars
<1> SUFFICES ASSUME CoreInv, OrderInv, [Next]_vars PROVE OrderInv' /\ [Publishes]_vars
  OBVIOUS
<1>0. publishedIn' = publishedIn => Publishes
  BY DEF Publishes
<1>1. CASE \E k \in Keys, t \in 1..sttStreamToken : OnFinal(k, t)
  <2>1. PICK k \in Keys, t \in Nat : OnFinal(k, t)
    BY <1>1
  <2>2. publishedIn' = publishedIn
    BY <2>1 DEF OnFinal
  <2> QED
    BY <1>0, <2>1, <2>2, OnFinalOrder
<1>2. CASE FlushTimerFires
  BY <1>0, <1>2, FlushTimerOrder DEF FlushTimerFires, history
<1>3. CASE DrainStep
  <2>1. \A d \in drain : d.segment \in Nat
    BY DEF CoreInv, TypeOK, Awaited
  <2>2. CASE TranslationHeld \/ TranslationDropped
    BY <2>2, NotPublishedOrder DEF TranslationHeld, TranslationDropped
  <2> QED
    BY <1>3, <2>1, <2>2, PublishedOrder DEF DrainStep
<1>4. CASE HandleSeek \/ Stop
  BY <1>0, <1>4, ResetOrder DEF HandleSeek, Stop, history
<1>5. CASE UNCHANGED vars
  BY <1>5 DEF vars, clock, textVars, engine, history, OrderInv
<1> QED
  BY <1>1, <1>2, <1>3, <1>4, <1>5 DEF Next

LEMMA OrderAlways == Spec => [](CoreInv /\ OrderInv)
<1>1. Init => CoreInv /\ OrderInv
  BY CoreInit, OrderInit
<1>2. CoreInv /\ OrderInv /\ [Next]_vars => CoreInv' /\ OrderInv'
  BY CoreStep, OrderStep
<1> QED
  BY <1>1, <1>2, PTL DEF Spec

(* However long the provider takes, what is published was heard on the      *)
(* stream that is open now: nothing spoken before a seek is.                *)
THEOREM OnlyCurrentPublished == Spec => OnlyCurrentSpeechPublished
<1> DEFINE A == \A n \in Finals : publishedIn'[n] # publishedIn[n] =>
                  isActive /\ heard[n] = sttStreamToken
<1>1. CoreInv /\ OrderInv /\ [Next]_vars => [A]_vars
  BY OrderStep DEF Publishes
<1> QED
  BY <1>1, OrderAlways, PTL DEF Spec, OnlyCurrentSpeechPublished

(* A final is published in one sentence only, whether a flush or a join     *)
(* used it, and the sentences keep the order of speech.                     *)
THEOREM PublishedOnceAndInOrder == Spec => PublishedOnceInOrder
<1> DEFINE A == /\ \A n \in Finals : publishedIn[n] # 0 => publishedIn'[n] = publishedIn[n]
                /\ \A m, n \in Finals :
                     m < n /\ publishedIn'[m] # 0 /\ publishedIn'[n] # 0
                     => publishedIn'[m] <= publishedIn'[n]
<1>1. OrderInv' => \A m, n \in Finals :
                     m < n /\ publishedIn'[m] # 0 /\ publishedIn'[n] # 0
                     => publishedIn'[m] <= publishedIn'[n]
  BY DEF OrderInv, TextFits, Done
<1>2. CoreInv /\ OrderInv /\ [Next]_vars => [A]_vars
  BY <1>1, OrderStep DEF Publishes
<1> QED
  BY <1>2, OrderAlways, PTL DEF Spec, PublishedOnceInOrder
=============================================================================
