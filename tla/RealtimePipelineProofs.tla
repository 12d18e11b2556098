----------------------- MODULE RealtimePipelineProofs -----------------------
(***************************************************************************)
(* Proofs about RealtimePipeline: the composition implements both halves    *)
(* and neither blocks the other, and nothing that is sent is made of speech *)
(* heard before the last seek.                                              *)
(*                                                                          *)
(* The invariant follows the stream token of a final through the text half, *)
(* over the segment number that joins the halves, to the job's token; and   *)
(* it counts segments: a final can make one when it is handled and one when *)
(* its fragment is flushed.                                                 *)
(***************************************************************************)
EXTENDS RealtimePipeline, SequenceTheorems, FiniteSetTheorems, TLAPS

Finals == Text!Finals
Segments == Voice!Segments

(* The finals of S have arrived and were heard on stream t.                 *)
HeardOn(S, t, arr, hd) == \A m \in S : m \in 1..arr /\ hd[m] = t

Speech(q) == {i \in DOMAIN q : q[i].kind = "final"}

QueueFits(q, t, arr, hd) ==
  /\ q \in Seq(Text!Items)
  /\ \A i \in DOMAIN q : q[i].token = t
  /\ \A i \in Speech(q) : HeardOn({q[i].n}, t, arr, hd)

(* Queue q and the held fragment b are of the stream t, and their finals can *)
(* still make so many segments.                                             *)
TextFits(q, b, seg, t, arr, hd) ==
  /\ QueueFits(q, t, arr, hd) /\ HeardOn(b, t, arr, hd)
  /\ seg \in Nat /\ seg + 2 * Cardinality(Speech(q)) + (IF b = {} THEN 0 ELSE 1) <= 2 * arr

DrainFits(dr, seg, arr, hd) ==
  \A d \in dr : /\ d.segment = seg /\ HeardOn(d.sources, d.token, arr, hd)
                /\ d.phase = "translating" => seg # 0

TextInv ==
  /\ arrivals \in 0..MaxFinals /\ generation \in Nat /\ sttStreamToken \in Nat
  /\ heard \in [Finals -> Nat] /\ publishedIn \in [Finals -> Nat]
  /\ TextFits(finalQueue, pendingBuffer, segmentCounter, sttStreamToken, arrivals, heard)
  /\ DrainFits(drain, segmentCounter, arrivals, heard)

QueueBorn(q, st) == q \in Seq(Segments) /\ \A i \in DOMAIN q : st[q[i]] # "unborn"

VoiceInv ==
  /\ stage \in [Segments -> Voice!Stages] /\ jobToken \in [Segments -> Nat]
  /\ {subtitles, chunks, partFinals, heldParts} \subseteq [Segments -> Nat]
  /\ QueueBorn(ttsQueue, stage)

(* A final is published in a segment whose job is of the final's stream.    *)
FinalFits(n) ==
  publishedIn[n] # 0 =>
    /\ n <= arrivals
    /\ publishedIn[n] \in Segments /\ stage[publishedIn[n]] # "unborn"
    /\ heard[n] = jobToken[publishedIn[n]]

JointInv ==
  /\ \A s \in Segments : s > segmentCounter => stage[s] = "unborn"
  /\ \A d \in drain : d.phase = "translating" /\ segmentCounter \in Segments =>
       stage[segmentCounter] = "unborn"
  /\ \A n \in Finals : FinalFits(n)

PipelineInv == TextInv /\ VoiceInv /\ JointInv
-----------------------------------------------------------------------------
(* The text half.                                                           *)
LEMMA SpeechFinite ==
  ASSUME NEW q \in Seq(Text!Items)
  PROVE  IsFiniteSet(Speech(q)) /\ Cardinality(Speech(q)) \in Nat
<1>1. IsFiniteSet(1..Len(q))
  BY FS_Interval, LenProperties
<1>2. Speech(q) \subseteq 1..Len(q)
  BY LenProperties DEF Speech
<1> QED
  BY <1>1, <1>2, FS_Subset, FS_CardinalityType

LEMMA SpeechAppended ==
  ASSUME NEW q \in Seq(Text!Items), NEW m \in Text!Items
  PROVE  Cardinality(Speech(Append(q, m)))
           = Cardinality(Speech(q)) + (IF m.kind = "final" THEN 1 ELSE 0)
<1>1. IsFiniteSet(Speech(q)) /\ Cardinality(Speech(q)) \in Nat
  BY SpeechFinite
<1>2. /\ Append(q, m) \in Seq(Text!Items) /\ Len(Append(q, m)) = Len(q) + 1
      /\ Append(q, m)[Len(q) + 1] = m
      /\ \A i \in 1..Len(q) : Append(q, m)[i] = q[i]
  OBVIOUS
<1>3. CASE m.kind = "final"
  <2>1. Speech(Append(q, m)) = Speech(q) \cup {Len(q) + 1}
    BY <1>2, <1>3 DEF Speech
  <2>2. Len(q) + 1 \notin Speech(q)
    BY DEF Speech
  <2> QED BY <1>1, <1>3, <2>1, <2>2, FS_AddElement
<1>4. CASE m.kind # "final"
  <2>1. Speech(Append(q, m)) = Speech(q)
    BY <1>2, <1>4 DEF Speech
  <2> QED BY <1>1, <1>4, <2>1
<1> QED BY <1>3, <1>4

LEMMA SpeechTaken ==
  ASSUME NEW q \in Seq(Text!Items), q # <<>>
  PROVE  Cardinality(Speech(q))
           = Cardinality(Speech(Tail(q))) + (IF Head(q).kind = "final" THEN 1 ELSE 0)
<1> DEFINE T == Speech(Tail(q))
           U == Speech(q) \ {1}
           f == [i \in T |-> i + 1]
<1>1. /\ Tail(q) \in Seq(Text!Items) /\ Len(q) \in Nat \ {0} /\ Len(Tail(q)) = Len(q) - 1
      /\ Head(q) = q[1] /\ \A i \in 1..(Len(q) - 1) : Tail(q)[i] = q[i + 1]
  OBVIOUS
<1>2. T \subseteq 1..(Len(q) - 1) /\ U \subseteq 2..Len(q)
  BY <1>1 DEF Speech
<1>3. \A i \in T : f[i] \in U
  BY <1>1 DEF Speech
<1>4. \A j \in U : j - 1 \in T /\ f[j - 1] = j
  BY <1>1 DEF Speech
<1>5. \A i, j \in T : f[i] = f[j] => i = j
  BY <1>2
<1>6. f \in [T -> U]
  BY <1>3
<1>7. f \in Bijection(T, U)
  BY <1>4, <1>5, <1>6 DEF Bijection, Injection, Surjection, IsInjective
<1>8. IsFiniteSet(T) /\ Cardinality(T) \in Nat
  BY <1>1, SpeechFinite
<1>9. Cardinality(U) = Cardinality(T) /\ IsFiniteSet(U)
  BY <1>7, <1>8, FS_Bijection DEF ExistsBijection
<1>10. CASE Head(q).kind = "final"
  <2>1. Speech(q) = U \cup {1} /\ 1 \notin U
    BY <1>1, <1>10 DEF Speech
  <2> QED BY <1>8, <1>9, <1>10, <2>1, FS_AddElement
<1>11. CASE Head(q).kind # "final"
  <2>1. Speech(q) = U
    BY <1>1, <1>11 DEF Speech
  <2>2. Cardinality(Speech(q)) = Cardinality(Speech(Tail(q)))
    BY <1>9, <2>1
  <2> QED BY <1>8, <1>11, <2>2
<1> QED BY <1>10, <1>11

(* What holds of a queue holds of what is left of it and of a longer one.   *)
LEMMA TailFits ==
  ASSUME NEW q, NEW t, NEW arr, NEW hd, QueueFits(q, t, arr, hd), q # <<>>
  PROVE  QueueFits(Tail(q), t, arr, hd)
<1>1. /\ q \in Seq(Text!Items) /\ Tail(q) \in Seq(Text!Items) /\ Len(Tail(q)) = Len(q) - 1
      /\ \A i \in 1..(Len(q) - 1) : Tail(q)[i] = q[i + 1]
  BY DEF QueueFits
<1>2. \A i \in DOMAIN Tail(q) : i + 1 \in DOMAIN q /\ Tail(q)[i] = q[i + 1]
  BY <1>1
<1> QED
  BY <1>1, <1>2 DEF QueueFits, Speech

LEMMA LongerFits ==
  ASSUME NEW q, NEW t, NEW arr, NEW hd, QueueFits(q, t, arr, hd), NEW m \in Text!Items,
         m.token = t, m.kind = "final" => HeardOn({m.n}, t, arr, hd)
  PROVE  QueueFits(Append(q, m), t, arr, hd)
<1>1. /\ q \in Seq(Text!Items) /\ Append(q, m) \in Seq(Text!Items)
      /\ \A i \in DOMAIN Append(q, m) :
           (i \in DOMAIN q /\ Append(q, m)[i] = q[i]) \/ Append(q, m)[i] = m
  BY DEF QueueFits
<1> QED
  BY <1>1 DEF QueueFits, Speech

(* Segments are new when they are awaited.                                  *)
Numbered ==
  /\ segmentCounter' \in {segmentCounter, segmentCounter + 1}
  /\ \A d \in drain' : d.phase = "translating" => segmentCounter' = segmentCounter + 1

(* The next item is taken and held, given up or translated.                 *)
LEMMA TakeNextKeeps ==
  ASSUME NEW q, NEW arr \in Nat, NEW hd,
         TextFits(q, pendingBuffer, segmentCounter, sttStreamToken, arr, hd), Text!TakeNext(q)
  PROVE  /\ TextFits(finalQueue', pendingBuffer', segmentCounter', sttStreamToken, arr, hd)
         /\ DrainFits(drain', segmentCounter', arr, hd)
         /\ Numbered
<1>1. CASE q = <<>>
  BY <1>1 DEF Text!TakeNext, TextFits, DrainFits, Numbered, Text!engine
<1>2. CASE q # <<>>
  <2> DEFINE item == Head(q)
  <2>1. q \in Seq(Text!Items) /\ finalQueue' = Tail(q)
    BY <1>2 DEF TextFits, QueueFits, Text!TakeNext
  <2>2. /\ item \in Text!Items /\ item = q[1] /\ 1 \in DOMAIN q /\ item.token = sttStreamToken
        /\ Tail(q) \in Seq(Text!Items) /\ QueueFits(Tail(q), sttStreamToken, arr, hd)
    <3>1. item \in Text!Items /\ item = q[1] /\ 1 \in DOMAIN q /\ Tail(q) \in Seq(Text!Items)
      BY <1>2, <2>1
    <3> QED
      BY <1>2, <3>1, TailFits DEF TextFits, QueueFits
  <2>3. /\ Cardinality(Speech(q)) \in Nat /\ Cardinality(Speech(Tail(q))) \in Nat
        /\ Cardinality(Speech(q)) = Cardinality(Speech(Tail(q))) + (IF item.kind = "final" THEN 1 ELSE 0)
    BY <1>2, <2>1, <2>2, SpeechFinite, SpeechTaken
  <2>4. IF item.kind = "final" THEN Text!HandleFinal(item) ELSE Text!HandleFlush(item)
    BY <1>2 DEF Text!TakeNext, item
  <2> HIDE DEF item
  <2>5. CASE item.kind = "final"
    <3>1. HeardOn({item.n}, sttStreamToken, arr, hd)
      BY <2>2, <2>5 DEF TextFits, QueueFits, Speech
    <3>2. Text!HandleFinal(item)
      BY <2>4, <2>5
    <3>3. PICK held \in {pendingBuffer, {}} :
            LET text == Text!JoinFragments(held, item.n)
            IN  \/ /\ pendingBuffer' = text /\ pendingTiny' \in BOOLEAN
                   /\ Text!Await("held", {}, item)
                \/ /\ pendingBuffer' = {} /\ pendingTiny' = FALSE
                   /\ Text!Await("skipped", {}, item)
                \/ /\ pendingBuffer' = {} /\ pendingTiny' = FALSE
                   /\ Text!Await("translating", text, item)
      BY <3>2 DEF Text!HandleFinal
    <3>4. HeardOn(held \union {item.n}, sttStreamToken, arr, hd)
      BY <3>1, <3>3 DEF HeardOn, TextFits
    <3>5. segmentCounter' = segmentCounter + 1 /\ segmentCounter' \in Nat \ {0}
      BY <3>2 DEF Text!HandleFinal, TextFits
    <3>6. HeardOn(pendingBuffer', sttStreamToken, arr, hd)
      BY <3>3, <3>4 DEF HeardOn, Text!JoinFragments
    <3>7. DrainFits(drain', segmentCounter', arr, hd)
      <4>1. ASSUME NEW S, HeardOn(S, sttStreamToken, arr, hd), NEW phase, Text!Await(phase, S, item)
            PROVE  DrainFits(drain', segmentCounter', arr, hd)
        BY <2>2, <3>5, <4>1 DEF Text!Await, DrainFits
      <4>2. HeardOn({}, sttStreamToken, arr, hd)
        BY DEF HeardOn
      <4> QED
        BY <3>3, <3>4, <4>1, <4>2 DEF Text!JoinFragments
    <3>8. segmentCounter' + 2 * Cardinality(Speech(finalQueue'))
            + (IF pendingBuffer' = {} THEN 0 ELSE 1) <= 2 * arr
      BY <2>1, <2>3, <2>5, <3>5 DEF TextFits
    <3> QED
      BY <2>1, <2>2, <3>5, <3>6, <3>7, <3>8 DEF TextFits, Numbered
  <2>6. CASE item.kind # "final"
    <3>1. Text!HandleFlush(item)
      BY <2>4, <2>6
    <3>2. CASE item.token = sttStreamToken /\ item.generation = generation /\ Text!HasFlushablePending
      <4>1. /\ segmentCounter' = segmentCounter + 1 /\ pendingBuffer' = {} /\ pendingBuffer # {}
            /\ Text!Await("translating", pendingBuffer, item)
        BY <3>1, <3>2 DEF Text!HandleFlush, Text!HasFlushablePending
      <4>2. segmentCounter' \in Nat \ {0}
        BY <4>1 DEF TextFits
      <4>3. DrainFits(drain', segmentCounter', arr, hd)
        BY <2>2, <4>1, <4>2 DEF Text!Await, DrainFits, TextFits
      <4>4. HeardOn(pendingBuffer', sttStreamToken, arr, hd)
        BY <4>1 DEF HeardOn
      <4>5. segmentCounter' + 2 * Cardinality(Speech(finalQueue'))
              + (IF pendingBuffer' = {} THEN 0 ELSE 1) <= 2 * arr
        BY <2>1, <2>3, <2>6, <4>1 DEF TextFits
      <4> QED
        BY <2>1, <2>2, <4>1, <4>2, <4>3, <4>4, <4>5 DEF TextFits, Numbered
    <3>3. CASE ~(item.token = sttStreamToken /\ item.generation = generation /\ Text!HasFlushablePending)
      <4>1. /\ UNCHANGED <<segmentCounter, pendingBuffer>>
            /\ Text!Await("skipped", {}, item)
        BY <3>1, <3>3 DEF Text!HandleFlush, Text!engine
      <4>2. DrainFits(drain', segmentCounter', arr, hd)
        BY <4>1 DEF Text!Await, DrainFits, HeardOn
      <4>3. \A d \in drain' : d.phase = "skipped"
        BY <4>1 DEF Text!Await
      <4> QED
        BY <2>1, <2>2, <2>3, <2>6, <4>1, <4>2, <4>3 DEF TextFits, Numbered
    <3> QED
      BY <3>2, <3>3
  <2> QED
    BY <2>5, <2>6
<1> QED
  BY <1>1, <1>2

Numbering == Numbered \/ UNCHANGED <<segmentCounter, drain>>

LEMMA PushKeeps ==
  ASSUME NEW q, NEW arr \in Nat, NEW hd,
         TextFits(q, pendingBuffer, segmentCounter, sttStreamToken, arr, hd),
         DrainFits(drain, segmentCounter, arr, hd), Text!PushAndDrain(q)
  PROVE  /\ TextFits(finalQueue', pendingBuffer', segmentCounter', sttStreamToken, arr, hd)
         /\ DrainFits(drain', segmentCounter', arr, hd)
         /\ Numbering
<1>1. CASE drain = {}
  BY <1>1, TakeNextKeeps DEF Text!PushAndDrain, Numbering
<1>2. CASE drain # {}
  BY <1>2 DEF Text!PushAndDrain, Numbering, Text!engine
<1> QED
  BY <1>1, <1>2

LEMMA ContinueKeeps ==
  ASSUME TextInv, Text!DrainContinues
  PROVE  /\ TextFits(finalQueue', pendingBuffer', segmentCounter', sttStreamToken, arrivals, heard)
         /\ DrainFits(drain', segmentCounter', arrivals, heard)
         /\ Numbered
<1>0. arrivals \in Nat
  BY DEF TextInv
<1>1. CASE isActive
  BY <1>0, <1>1, TakeNextKeeps DEF Text!DrainContinues, TextInv
<1>2. CASE ~isActive
  BY <1>2 DEF Text!DrainContinues, TextInv, DrainFits, Numbered, Text!engine
<1> QED
  BY <1>1, <1>2

(* A step of the text half without a publication, a seek or a stop.         *)
TextFrame ==
  /\ TextInv' /\ Numbering /\ UNCHANGED <<isActive, generation, sttStreamToken, publishedIn>>
  /\ arrivals' >= arrivals /\ \A n \in 1..arrivals : heard'[n] = heard[n]

LEMMA OnFinalFrame ==
  ASSUME TextInv, NEW k, NEW t, Text!OnFinal(k, t)
  PROVE  TextFrame
<1> DEFINE shorter == IF Len(finalQueue) >= MaxPendingFinals THEN Tail(finalQueue) ELSE finalQueue
           item == Text!FinalItem(arrivals + 1, t)
           hd == [heard EXCEPT ![arrivals + 1] = t]
           arr == arrivals + 1
<1>1. /\ t = sttStreamToken /\ arr \in Finals /\ arrivals' = arr /\ heard' = hd
      /\ Text!PushAndDrain(Append(shorter, item))
      /\ UNCHANGED <<isActive, generation, sttStreamToken, publishedIn>>
  BY PipelineAssumption DEF Text!OnFinal, TextInv, Finals, Text!Finals, Text!clock
<1>2. /\ arrivals \in Nat /\ arr \in Nat /\ hd \in [Finals -> Nat] /\ hd[arr] = t /\ arr \in 1..arr
      /\ \A n \in 1..arrivals : hd[n] = heard[n]
  BY <1>1 DEF TextInv, Finals, Text!Finals
<1>3. \A S : HeardOn(S, t, arrivals, heard) => HeardOn(S, t, arr, hd)
  BY <1>2 DEF HeardOn
<1>4. item \in Text!Items /\ item.token = t /\ item.kind = "final" /\ item.n = arr
  BY <1>1 DEF Text!Items, Text!FinalItem, Finals, TextInv
<1>5. /\ shorter \in Seq(Text!Items)
      /\ QueueFits(shorter, t, arrivals, heard)
      /\ Cardinality(Speech(shorter)) \in Nat /\ Cardinality(Speech(finalQueue)) \in Nat
      /\ Cardinality(Speech(shorter)) <= Cardinality(Speech(finalQueue))
  <2>1. finalQueue \in Seq(Text!Items) /\ QueueFits(finalQueue, t, arrivals, heard)
    BY <1>1 DEF TextInv, TextFits, QueueFits
  <2>2. CASE Len(finalQueue) >= MaxPendingFinals
    <3>1. finalQueue # <<>> /\ shorter = Tail(finalQueue) /\ Tail(finalQueue) \in Seq(Text!Items)
      BY <2>1, <2>2, PipelineAssumption
    <3>2. QueueFits(Tail(finalQueue), t, arrivals, heard)
      BY <2>1, <3>1, TailFits
    <3>3. /\ Cardinality(Speech(finalQueue)) \in Nat /\ Cardinality(Speech(Tail(finalQueue))) \in Nat
          /\ Cardinality(Speech(Tail(finalQueue))) <= Cardinality(Speech(finalQueue))
      <4>1. /\ Cardinality(Speech(finalQueue)) \in Nat
            /\ Cardinality(Speech(Tail(finalQueue))) \in Nat
        BY <2>1, <3>1, SpeechFinite
      <4>2. Cardinality(Speech(finalQueue)) = Cardinality(Speech(Tail(finalQueue)))
              + (IF Head(finalQueue).kind = "final" THEN 1 ELSE 0)
        BY <2>1, <3>1, SpeechTaken
      <4> QED
        BY <4>1, <4>2
    <3> HIDE DEF shorter
    <3> QED
      BY <2>1, <3>1, <3>2, <3>3
  <2>3. CASE ~(Len(finalQueue) >= MaxPendingFinals)
    BY <2>1, <2>3, SpeechFinite
  <2> QED
    BY <2>2, <2>3
<1> HIDE DEF shorter, item, hd, arr
<1>6. QueueFits(Append(shorter, item), t, arr, hd)
  <2>1. QueueFits(shorter, t, arr, hd)
    BY <1>3, <1>5 DEF QueueFits
  <2>2. HeardOn({item.n}, t, arr, hd)
    BY <1>2, <1>4 DEF HeardOn
  <2> QED
    BY <1>4, <2>1, <2>2, LongerFits
<1>7. Cardinality(Speech(Append(shorter, item))) = Cardinality(Speech(shorter)) + 1
  BY <1>4, <1>5, SpeechAppended
<1>8. TextFits(Append(shorter, item), pendingBuffer, segmentCounter, sttStreamToken, arr, hd)
  <2>1. HeardOn(pendingBuffer, t, arr, hd) /\ segmentCounter \in Nat
    BY <1>1, <1>3 DEF TextInv, TextFits
  <2>2. segmentCounter + 2 * Cardinality(Speech(finalQueue))
          + (IF pendingBuffer = {} THEN 0 ELSE 1) <= 2 * arrivals
    BY DEF TextInv, TextFits
  <2>3. segmentCounter + 2 * Cardinality(Speech(Append(shorter, item)))
          + (IF pendingBuffer = {} THEN 0 ELSE 1) <= 2 * arr
    <3> DEFINE before == Cardinality(Speech(finalQueue))
               dropped == Cardinality(Speech(shorter))
               after == Cardinality(Speech(Append(shorter, item)))
               text == IF pendingBuffer = {} THEN 0 ELSE 1
    <3>1. before \in Nat /\ dropped \in Nat /\ dropped <= before /\ after = dropped + 1
      BY <1>5, <1>7, <2>1
    <3>2. text \in Nat /\ segmentCounter + 2 * before + text <= 2 * arrivals
      BY <2>2
    <3>3. arrivals \in Nat /\ arr = arrivals + 1
      BY <1>2 DEF arr
    <3> HIDE DEF before, dropped, after, text
    <3>4. segmentCounter + 2 * after + text <= 2 * arr
      BY <2>1, <3>1, <3>2, <3>3
    <3> QED
      BY <3>4 DEF after, text
  <2> QED
    BY <1>1, <1>6, <2>1, <2>3 DEF TextFits
<1>9. DrainFits(drain, segmentCounter, arr, hd)
  <2>1. \A S, tok : HeardOn(S, tok, arrivals, heard) => HeardOn(S, tok, arr, hd)
    BY <1>2 DEF HeardOn, arr
  <2> QED
    BY <2>1 DEF TextInv, DrainFits
<1>10. TextInv' /\ Numbering
  BY <1>1, <1>2, <1>8, <1>9, PushKeeps DEF TextInv, Finals, Text!Finals
<1> QED
  BY <1>1, <1>2, <1>10 DEF TextFrame, arr

LEMMA TimerFrame ==
  ASSUME TextInv, Text!FlushTimerFires
  PROVE  TextFrame
<1>1. PICK timer \in pendingFlushTimer :
        /\ IF isActive /\ timer.token = sttStreamToken /\ timer.generation = generation
           THEN Text!PushAndDrain(Append(finalQueue, Text!FlushItem(timer.token, timer.generation)))
           ELSE UNCHANGED <<finalQueue, segmentCounter, drain, Text!engine>>
        /\ UNCHANGED <<Text!clock, processedFinalKeys, Text!history>>
  BY DEF Text!FlushTimerFires
<1>2. UNCHANGED <<isActive, generation, sttStreamToken, arrivals, heard, publishedIn>>
  BY <1>1 DEF Text!clock, Text!history
<1>3. CASE isActive /\ timer.token = sttStreamToken /\ timer.generation = generation
  <2> DEFINE item == Text!FlushItem(sttStreamToken, generation)
  <2>1. Text!PushAndDrain(Append(finalQueue, item))
    BY <1>1, <1>3
  <2>2. item \in Text!Items /\ item.token = sttStreamToken /\ item.kind # "final"
    BY DEF Text!Items, Text!FlushItem, TextInv
  <2> HIDE DEF item
  <2>3. /\ finalQueue \in Seq(Text!Items) /\ arrivals \in Nat
        /\ QueueFits(finalQueue, sttStreamToken, arrivals, heard)
    <3>1. arrivals \in Nat
      BY PipelineAssumption DEF TextInv
    <3> QED
      BY <3>1 DEF TextInv, TextFits, QueueFits
  <2>4. QueueFits(Append(finalQueue, item), sttStreamToken, arrivals, heard)
    BY <2>2, <2>3, LongerFits
  <2>5. Cardinality(Speech(Append(finalQueue, item))) = Cardinality(Speech(finalQueue))
    BY <2>2, <2>3, SpeechFinite, SpeechAppended
  <2>6. /\ TextFits(Append(finalQueue, item), pendingBuffer, segmentCounter,
                    sttStreamToken, arrivals, heard)
        /\ DrainFits(drain, segmentCounter, arrivals, heard)
    BY <2>4, <2>5 DEF TextInv, TextFits
  <2>7. /\ TextFits(finalQueue', pendingBuffer', segmentCounter', sttStreamToken, arrivals, heard)
        /\ DrainFits(drain', segmentCounter', arrivals, heard)
        /\ Numbering
    BY <2>1, <2>3, <2>6, PushKeeps
  <2> QED
    BY <1>2, <2>3, <2>7 DEF TextFrame, TextInv
<1>4. CASE ~(isActive /\ timer.token = sttStreamToken /\ timer.generation = generation)
  <2>1. UNCHANGED <<finalQueue, segmentCounter, drain, pendingBuffer>>
    BY <1>1, <1>4 DEF Text!engine
  <2> QED
    BY <1>2, <2>1 DEF TextFrame, TextInv, Numbering
<1> QED
  BY <1>3, <1>4

LEMMA HeldFrame ==
  ASSUME TextInv, Text!TranslationHeld \/ Text!TranslationDropped
  PROVE  TextFrame
<1>1. /\ Text!DrainContinues
      /\ UNCHANGED <<isActive, generation, sttStreamToken, arrivals, heard, publishedIn>>
  BY DEF Text!TranslationHeld, Text!TranslationDropped, Text!clock, Text!history
<1>2. arrivals \in Nat
  BY DEF TextInv
<1> QED
  BY <1>1, <1>2, ContinueKeeps DEF TextFrame, TextInv, Numbering
-----------------------------------------------------------------------------
(* The voice half.                                                          *)
BornAsBefore(st) == \A s \in Segments : stage'[s] = "unborn" <=> st[s] = "unborn"

StagesFit == stage' \in [Segments -> Voice!Stages] /\ QueueBorn(ttsQueue', stage')

(* A job is started from the queue, if a slot is free.                      *)
LEMMA PumpKeeps ==
  ASSUME NEW q, NEW st \in [Segments -> Voice!Stages], QueueBorn(q, st),
         NEW n, NEW current, Voice!PumpTtsQueue(q, n, st, current)
  PROVE  StagesFit /\ BornAsBefore(st)
<1>1. CASE isActive /\ n < Concurrency /\ q # <<>>
  <2>1. PICK first \in Voice!FirstStages(Head(q), current) : stage' = [st EXCEPT ![Head(q)] = first]
    BY <1>1 DEF Voice!PumpTtsQueue
  <2>2. first \in Voice!Stages /\ first # "unborn"
    BY DEF Voice!FirstStages, Voice!Stages, Voice!Running
  <2>3. ttsQueue' = Tail(q)
    BY <1>1 DEF Voice!PumpTtsQueue
  <2>4. /\ q \in Seq(Segments) /\ Head(q) = q[1] /\ 1 \in DOMAIN q /\ Head(q) \in Segments
        /\ Tail(q) \in Seq(Segments)
        /\ \A i \in DOMAIN Tail(q) : i + 1 \in DOMAIN q /\ Tail(q)[i] = q[i + 1]
    BY <1>1 DEF QueueBorn
  <2>5. st[Head(q)] # "unborn"
    BY <2>4 DEF QueueBorn
  <2>6. BornAsBefore(st)
    BY <2>1, <2>2, <2>4, <2>5 DEF BornAsBefore
  <2>7. \A i \in DOMAIN Tail(q) : Tail(q)[i] \in Segments /\ st[Tail(q)[i]] # "unborn"
    BY <2>4 DEF QueueBorn
  <2> QED
    BY <2>1, <2>2, <2>3, <2>4, <2>6, <2>7 DEF StagesFit, QueueBorn, BornAsBefore
<1>2. CASE ~(isActive /\ n < Concurrency /\ q # <<>>)
  BY <1>2 DEF Voice!PumpTtsQueue, StagesFit, BornAsBefore
<1> QED
  BY <1>1, <1>2

LEMMA SettleKeeps ==
  ASSUME VoiceInv, NEW s \in Segments, stage[s] # "unborn", Voice!Settle(s)
  PROVE  StagesFit /\ BornAsBefore(stage)
<1> DEFINE settled == [stage EXCEPT ![s] = "done"]
<1>1. settled \in [Segments -> Voice!Stages]
  BY DEF VoiceInv, Voice!Stages, Voice!Running
<1>2. \A r \in Segments : settled[r] = "unborn" <=> stage[r] = "unborn"
  BY DEF VoiceInv
<1>3. QueueBorn(ttsQueue, settled)
  <2>1. \A i \in DOMAIN ttsQueue : ttsQueue[i] \in Segments
    BY DEF VoiceInv, QueueBorn
  <2> QED
    BY <1>2, <2>1 DEF VoiceInv, QueueBorn
<1>4. Voice!PumpTtsQueue(ttsQueue, activeTtsJobs - 1, settled, Voice!CurrentJobs)
  BY DEF Voice!Settle
<1> HIDE DEF settled
<1>5. StagesFit /\ BornAsBefore(settled)
  BY <1>1, <1>3, <1>4, PumpKeeps
<1> QED
  BY <1>2, <1>5 DEF BornAsBefore

(* What is sent is sent for a job of the stream that is open.               *)
SentForStream ==
  \A s \in Segments :
    subtitles'[s] # subtitles[s] \/ chunks'[s] # chunks[s] \/ partFinals'[s] # partFinals[s]
    => jobToken'[s] = sttStreamToken

MessagesFit ==
  /\ {subtitles', chunks', partFinals', heldParts'} \subseteq [Segments -> Nat]
  /\ SentForStream

TextsFit ==
  /\ subtitles' \in [Segments -> Nat]
  /\ \A s \in Segments : subtitles'[s] # subtitles[s] => jobToken[s] = sttStreamToken

LEMMA EmitKeeps ==
  ASSUME VoiceInv, NEW S, NEW m, Voice!EmitSubtitle(S, m)
  PROVE  TextsFit
  BY DEF VoiceInv, Voice!EmitSubtitle, Voice!IsJobCurrent, Segments, TextsFit

LEMMA SendKeeps ==
  ASSUME VoiceInv, NEW s \in Segments, NEW n \in Nat, Voice!SendParts(s, n)
  PROVE  /\ TextsFit /\ chunks' \in [Segments -> Nat]
         /\ \A r \in Segments : chunks'[r] # chunks[r] => jobToken[r] = sttStreamToken
<1>1. CASE n > 0 /\ Voice!IsJobCurrent(s)
  <2>1. TextsFit
    BY <1>1, EmitKeeps DEF Voice!SendParts
  <2> QED
    BY <1>1, <2>1 DEF Voice!SendParts, VoiceInv, Voice!IsJobCurrent
<1>2. CASE ~(n > 0 /\ Voice!IsJobCurrent(s))
  BY <1>2 DEF Voice!SendParts, Voice!texts, VoiceInv, TextsFit
<1> QED
  BY <1>1, <1>2

(* A step of the voice half without a publication, a seek or a stop.        *)
VoiceFrame ==
  /\ VoiceInv' /\ BornAsBefore(stage) /\ SentForStream
  /\ UNCHANGED <<isActive, generation, sttStreamToken, jobToken>>

LEMMA FrameOfParts ==
  ASSUME VoiceInv, StagesFit, BornAsBefore(stage), MessagesFit,
         UNCHANGED <<isActive, generation, sttStreamToken, jobToken>>
  PROVE  VoiceFrame
  BY DEF VoiceInv, StagesFit, MessagesFit, VoiceFrame

(* A job goes from one stage to another without the queue.                  *)
LEMMA StageKeeps ==
  ASSUME VoiceInv, NEW s \in Segments, stage[s] # "unborn",
         NEW next \in Voice!Stages \ {"unborn"}, stage' = [stage EXCEPT ![s] = next],
         ttsQueue' = ttsQueue
  PROVE  StagesFit /\ BornAsBefore(stage)
<1>1. BornAsBefore(stage) /\ stage' \in [Segments -> Voice!Stages]
  BY DEF VoiceInv, BornAsBefore
<1>2. \A i \in DOMAIN ttsQueue : ttsQueue[i] \in Segments
  BY DEF VoiceInv, QueueBorn
<1> QED
  BY <1>1, <1>2 DEF VoiceInv, StagesFit, QueueBorn, BornAsBefore

LEMMA JobFrame ==
  ASSUME VoiceInv, NEW s \in Segments, Voice!JobStep(s)
  PROVE  VoiceFrame
<1>0. UNCHANGED stage /\ UNCHANGED ttsQueue => StagesFit /\ BornAsBefore(stage)
  BY DEF VoiceInv, StagesFit, BornAsBefore
<1>1. CASE Voice!SynthesisReturns(s)
  <2>1. StagesFit /\ BornAsBefore(stage)
    BY <1>1, StageKeeps DEF Voice!SynthesisReturns, Voice!Stages, Voice!Running
  <2>2. MessagesFit /\ UNCHANGED <<isActive, generation, sttStreamToken, jobToken>>
    BY <1>1 DEF Voice!SynthesisReturns, Voice!clock, Voice!jobs, Voice!texts, Voice!voice,
                Voice!streams, VoiceInv, MessagesFit, SentForStream
  <2> QED
    BY <2>1, <2>2, FrameOfParts
<1>2. CASE Voice!EmitAudio(s)
  <2>0. stage[s] = "audio" /\ UNCHANGED <<isActive, generation, sttStreamToken, jobToken, heldParts, partFinals>>
    BY <1>2 DEF Voice!EmitAudio, Voice!clock, Voice!jobs, Voice!streams
  <2>1. CASE ~Voice!IsJobCurrent(s)
    <3>1. StagesFit /\ BornAsBefore(stage)
      BY <1>2, <2>0, <2>1, SettleKeeps DEF Voice!EmitAudio
    <3>2. MessagesFit
      BY <1>2, <2>0, <2>1 DEF Voice!EmitAudio, Voice!texts, VoiceInv, MessagesFit, SentForStream
    <3> QED
      BY <2>0, <3>1, <3>2, FrameOfParts
  <2>2. CASE Voice!IsJobCurrent(s)
    <3>1. TextsFit
      BY <1>2, <2>2, EmitKeeps DEF Voice!EmitAudio
    <3>2. chunks' = [chunks EXCEPT ![s] = @ + 1]
      BY <1>2, <2>2 DEF Voice!EmitAudio
    <3>3. MessagesFit
      BY <2>0, <2>2, <3>1, <3>2
      DEF VoiceInv, MessagesFit, SentForStream, TextsFit, Voice!IsJobCurrent
    <3>4. StagesFit /\ BornAsBefore(stage)
      <4>1. Voice!Settle(s) \/ (stage' = [stage EXCEPT ![s] = "synth"] /\ ttsQueue' = ttsQueue)
        BY <1>2, <2>2 DEF Voice!EmitAudio
      <4> QED
        BY <2>0, <4>1, SettleKeeps, StageKeeps DEF Voice!Stages, Voice!Running
    <3> QED
      BY <2>0, <3>3, <3>4, FrameOfParts
  <2> QED
    BY <2>1, <2>2
<1>3. CASE Voice!EmitSilent(s)
  <2>0. /\ stage[s] # "unborn"
        /\ UNCHANGED <<isActive, generation, sttStreamToken, jobToken, heldParts, chunks, partFinals>>
    BY <1>3 DEF Voice!EmitSilent, Voice!clock, Voice!jobs, Voice!streams, Voice!voice
  <2>1. TextsFit
    BY <1>3, EmitKeeps DEF Voice!EmitSilent
  <2>2. MessagesFit
    BY <2>0, <2>1 DEF VoiceInv, MessagesFit, SentForStream, TextsFit
  <2>3. StagesFit /\ BornAsBefore(stage)
    BY <1>3, <2>0, SettleKeeps DEF Voice!EmitSilent
  <2> QED
    BY <2>0, <2>2, <2>3, FrameOfParts
<1>4. CASE Voice!PartArrives(s)
  <2>0. UNCHANGED <<isActive, generation, sttStreamToken, jobToken, partFinals, stage, ttsQueue>>
    BY <1>4 DEF Voice!PartArrives, Voice!clock, Voice!jobs, Voice!queueing
  <2>1. CASE released[s]
    <3>1. Voice!SendParts(s, 1) /\ UNCHANGED heldParts
      BY <1>4, <2>1 DEF Voice!PartArrives
    <3>2. MessagesFit
      BY <2>0, <3>1, SendKeeps DEF VoiceInv, MessagesFit, SentForStream, TextsFit
    <3> QED
      BY <1>0, <2>0, <3>2, FrameOfParts
  <2>2. CASE ~released[s]
    <3>1. MessagesFit
      BY <1>4, <2>0, <2>2
      DEF Voice!PartArrives, Voice!texts, VoiceInv, MessagesFit, SentForStream
    <3> QED
      BY <1>0, <2>0, <3>1, FrameOfParts
  <2> QED
    BY <2>1, <2>2
<1>5. CASE Voice!PreviousReleased(s)
  <2>0. UNCHANGED <<isActive, generation, sttStreamToken, jobToken, partFinals, stage, ttsQueue>>
    BY <1>5 DEF Voice!PreviousReleased, Voice!clock, Voice!jobs, Voice!queueing
  <2>1. heldParts[s] \in Nat /\ heldParts' \in [Segments -> Nat] /\ Voice!SendParts(s, heldParts[s])
    BY <1>5 DEF Voice!PreviousReleased, VoiceInv
  <2>2. MessagesFit
    BY <2>0, <2>1, SendKeeps DEF VoiceInv, MessagesFit, SentForStream, TextsFit
  <2> QED
    BY <1>0, <2>0, <2>2, FrameOfParts
<1>6. CASE Voice!StreamReturns(s)
  <2>1. StagesFit /\ BornAsBefore(stage)
    BY <1>6, StageKeeps DEF Voice!StreamReturns, Voice!Stages, Voice!Running
  <2>2. MessagesFit /\ UNCHANGED <<isActive, generation, sttStreamToken, jobToken>>
    BY <1>6 DEF Voice!StreamReturns, Voice!clock, Voice!jobs, Voice!texts, Voice!voice,
                Voice!streams, VoiceInv, MessagesFit, SentForStream
  <2> QED
    BY <2>1, <2>2, FrameOfParts
<1>7. CASE Voice!StreamSettles(s)
  <2>0. /\ stage[s] # "unborn"
        /\ UNCHANGED <<isActive, generation, sttStreamToken, jobToken, heldParts, chunks>>
    BY <1>7 DEF Voice!StreamSettles, Voice!clock, Voice!jobs, Voice!streams
  <2>1. TextsFit
    <3>1. CASE chunks[s] = 0
      BY <1>7, <3>1, EmitKeeps DEF Voice!StreamSettles
    <3>2. CASE chunks[s] # 0
      BY <1>7, <3>2 DEF Voice!StreamSettles, Voice!texts, VoiceInv, TextsFit
    <3> QED
      BY <3>1, <3>2
  <2>2. /\ partFinals' \in [Segments -> Nat]
        /\ \A r \in Segments : partFinals'[r] # partFinals[r] => jobToken[r] = sttStreamToken
    BY <1>7 DEF Voice!StreamSettles, VoiceInv, Voice!IsJobCurrent
  <2>3. MessagesFit
    BY <2>0, <2>1, <2>2 DEF VoiceInv, MessagesFit, SentForStream, TextsFit
  <2>4. StagesFit /\ BornAsBefore(stage)
    BY <1>7, <2>0, SettleKeeps DEF Voice!StreamSettles
  <2> QED
    BY <2>0, <2>3, <2>4, FrameOfParts
<1> QED
  BY <1>1, <1>2, <1>3, <1>4, <1>5, <1>6, <1>7 DEF Voice!JobStep, Voice!JobContinues

LEMMA DropKeeps ==
  ASSUME VoiceInv, Voice!DropQueue
  PROVE  StagesFit /\ BornAsBefore(stage)
<1>1. <<>> \in Seq(Segments) /\ DOMAIN <<>> = {}
  OBVIOUS
<1> QED
  BY <1>1
  DEF VoiceInv, Voice!DropQueue, StagesFit, BornAsBefore, QueueBorn, Segments, Voice!Stages

LEMMA ModeFrame ==
  ASSUME VoiceInv, NEW m, Voice!SetMode(m)
  PROVE  VoiceFrame
<1>0. UNCHANGED <<isActive, generation, sttStreamToken, jobToken, heldParts, chunks, partFinals>>
  BY DEF Voice!SetMode, Voice!clock, Voice!jobs, Voice!streams, Voice!voice
<1>1. CASE m = "subtitle_only"
  <2>1. TextsFit
    BY <1>1, EmitKeeps DEF Voice!SetMode
  <2>2. MessagesFit
    BY <1>0, <2>1 DEF VoiceInv, MessagesFit, SentForStream, TextsFit
  <2>3. StagesFit /\ BornAsBefore(stage)
    BY <1>1, DropKeeps DEF Voice!SetMode
  <2> QED
    BY <1>0, <2>2, <2>3, FrameOfParts
<1>2. CASE m # "subtitle_only"
  <2>1. StagesFit /\ BornAsBefore(stage) /\ MessagesFit
    BY <1>0, <1>2 DEF Voice!SetMode, Voice!queueing, Voice!texts, VoiceInv, StagesFit,
                      BornAsBefore, MessagesFit, SentForStream
  <2> QED
    BY <1>0, <2>1, FrameOfParts
<1> QED
  BY <1>1, <1>2

(* What a publication adds to the voice half.                               *)
Publication(s) ==
  /\ VoiceInv' /\ SentForStream
  /\ \A r \in Segments : stage'[r] = "unborn" <=> stage[r] = "unborn" /\ r # s
  /\ jobToken' = [jobToken EXCEPT ![s] = sttStreamToken]
  /\ UNCHANGED <<isActive, generation, sttStreamToken>>

LEMMA EnqueueKeeps ==
  ASSUME VoiceInv, NEW s \in Segments, Voice!EnqueueTts(s)
  PROVE  /\ StagesFit
         /\ \A r \in Segments : stage'[r] = "unborn" <=> stage[r] = "unborn" /\ r # s
         /\ subtitles' \in [Segments -> Nat]
         /\ \A r \in Segments : subtitles'[r] # subtitles[r] => r = s \/ jobToken[r] = sttStreamToken
<1> DEFINE q == Append(ttsQueue, s)
           stages == [stage EXCEPT ![s] = "queued"]
           current == Voice!CurrentJobs \union {s}
<1>1. /\ q \in Seq(Segments) /\ q # <<>> /\ Tail(q) \in Seq(Segments)
      /\ Head(q) = q[1] /\ 1 \in DOMAIN q /\ Head(q) \in Segments
      /\ \A i \in DOMAIN Tail(q) : i + 1 \in DOMAIN q /\ Tail(q)[i] = q[i + 1]
  <2>1. ttsQueue \in Seq(Segments)
    BY DEF VoiceInv, QueueBorn
  <2>2. q \in Seq(Segments) /\ q # <<>>
    BY <2>1, AppendProperties
  <2> HIDE DEF q
  <2> QED
    BY <2>2
<1>2. stages \in [Segments -> Voice!Stages]
  BY DEF VoiceInv, Voice!Stages
<1>3. \A r \in Segments : stages[r] = "unborn" <=> stage[r] = "unborn" /\ r # s
  BY DEF VoiceInv
<1>4. \A i \in DOMAIN q : q[i] \in Segments /\ stages[q[i]] # "unborn"
  <2>1. ttsQueue \in Seq(Segments) /\ \A i \in DOMAIN ttsQueue : stage[ttsQueue[i]] # "unborn"
    BY DEF VoiceInv, QueueBorn
  <2>2. \A i \in DOMAIN q : (i \in DOMAIN ttsQueue /\ q[i] = ttsQueue[i]) \/ q[i] = s
    BY <2>1
  <2>3. \A i \in DOMAIN ttsQueue : ttsQueue[i] \in Segments
    BY <2>1
  <2> QED
    BY <1>3, <2>1, <2>2, <2>3, <1>2 DEF VoiceInv
<1>5. \A r \in current : r = s \/ jobToken[r] = sttStreamToken
  BY DEF Voice!CurrentJobs, Voice!IsJobCurrent
<1>6. CASE Len(q) <= MaxPendingTts
  <2>1. Voice!PumpTtsQueue(q, activeTtsJobs, stages, current) /\ UNCHANGED subtitles
    BY <1>6 DEF Voice!EnqueueTts
  <2> HIDE DEF q, stages, current
  <2>2. QueueBorn(q, stages)
    BY <1>1, <1>4 DEF QueueBorn
  <2>3. StagesFit /\ BornAsBefore(stages)
    BY <1>2, <2>1, <2>2, PumpKeeps
  <2> QED
    BY <1>3, <2>1, <2>3 DEF BornAsBefore, VoiceInv
<1>7. CASE ~(Len(q) <= MaxPendingTts)
  <2> DEFINE left == [stages EXCEPT ![Head(q)] = "skipped"]
  <2>1. /\ Voice!PumpTtsQueue(Tail(q), activeTtsJobs, left, current)
        /\ subtitles' = IF mode \in Voice!SubtitleModes /\ Head(q) \in current
                        THEN [subtitles EXCEPT ![Head(q)] = @ + 1] ELSE subtitles
    BY <1>7 DEF Voice!EnqueueTts
  <2> HIDE DEF q, stages, current
  <2>2. left \in [Segments -> Voice!Stages]
    BY <1>2 DEF Voice!Stages
  <2>3. \A r \in Segments : left[r] = "unborn" <=> stages[r] = "unborn"
    BY <1>1, <1>2, <1>4
  <2>4. QueueBorn(Tail(q), left)
    BY <1>1, <1>4, <2>3 DEF QueueBorn
  <2> HIDE DEF left
  <2>5. StagesFit /\ BornAsBefore(left)
    BY <2>1, <2>2, <2>4, PumpKeeps
  <2>6. /\ subtitles' \in [Segments -> Nat]
        /\ \A r \in Segments : subtitles'[r] # subtitles[r] => r = s \/ jobToken[r] = sttStreamToken
    <3>1. subtitles \in [Segments -> Nat]
      BY DEF VoiceInv
    <3>2. /\ subtitles' \in [Segments -> Nat]
          /\ \A r \in Segments : subtitles'[r] # subtitles[r] => r \in current
      BY <1>1, <2>1, <3>1
    <3> QED
      BY <1>5, <3>2
  <2> QED
    BY <1>3, <2>3, <2>5, <2>6 DEF BornAsBefore
<1> QED
  BY <1>6, <1>7

LEMMA PublicationKeeps ==
  ASSUME VoiceInv, sttStreamToken \in Nat, NEW s \in Segments, NEW g, NEW t,
         Voice!PublishTranslation(s, g, t)
  PROVE  Publication(s)
<1>1. /\ t = sttStreamToken /\ jobToken' = [jobToken EXCEPT ![s] = sttStreamToken]
      /\ UNCHANGED <<isActive, generation, sttStreamToken, chunks, partFinals, heldParts>>
  BY DEF Voice!PublishTranslation, Voice!clock, Voice!voice, Voice!streams
<1>2. /\ StagesFit
      /\ \A r \in Segments : stage'[r] = "unborn" <=> stage[r] = "unborn" /\ r # s
      /\ subtitles' \in [Segments -> Nat]
      /\ \A r \in Segments : subtitles'[r] # subtitles[r] => r = s \/ jobToken[r] = sttStreamToken
  <2>1. CASE mode \in Voice!DubbingModes
    BY <2>1, EnqueueKeeps DEF Voice!PublishTranslation
  <2>2. CASE mode \notin Voice!DubbingModes
    <3>1. /\ stage' = [stage EXCEPT ![s] = "skipped"] /\ ttsQueue' = ttsQueue
          /\ subtitles' = [subtitles EXCEPT ![s] = @ + 1]
      BY <2>2 DEF Voice!PublishTranslation
    <3>2. stage' \in [Segments -> Voice!Stages]
      BY <3>1 DEF VoiceInv, Voice!Stages
    <3>3. \A i \in DOMAIN ttsQueue : ttsQueue[i] \in Segments
      BY DEF VoiceInv, QueueBorn
    <3> QED
      BY <3>1, <3>2, <3>3 DEF VoiceInv, StagesFit, QueueBorn
  <2> QED
    BY <2>1, <2>2
<1>3. jobToken' \in [Segments -> Nat] /\ \A r \in Segments : r # s => jobToken'[r] = jobToken[r]
  BY <1>1 DEF VoiceInv
<1>4. SentForStream
  BY <1>1, <1>2, <1>3 DEF SentForStream, VoiceInv
<1> QED
  BY <1>1, <1>2, <1>3, <1>4 DEF Publication, VoiceInv, StagesFit
-----------------------------------------------------------------------------
(* Both halves.                                                             *)
LEMMA TextStepKeeps ==
  ASSUME PipelineInv, TextFrame, UNCHANGED voiceVars
  PROVE  PipelineInv'
<1>1. UNCHANGED <<stage, jobToken, subtitles, chunks, partFinals, heldParts, ttsQueue>>
  BY DEF voiceVars
<1>2. VoiceInv'
  BY <1>1 DEF PipelineInv, VoiceInv, QueueBorn
<1>3. TextInv' /\ segmentCounter \in Nat /\ arrivals \in Nat /\ arrivals' \in Nat
  BY PipelineAssumption DEF TextFrame, PipelineInv, TextInv, TextFits
<1>4. segmentCounter' >= segmentCounter
  BY <1>3 DEF TextFrame, Numbering, Numbered
<1>5. \A s \in Segments : s > segmentCounter' => stage'[s] = "unborn"
  BY <1>1, <1>3, <1>4 DEF PipelineInv, JointInv, TextInv, TextFits, Segments, Voice!Segments
<1>6. \A d \in drain' : d.phase = "translating" /\ segmentCounter' \in Segments =>
        stage'[segmentCounter'] = "unborn"
  BY <1>1, <1>3 DEF PipelineInv, JointInv, TextFrame, Numbering, Numbered
<1>7. \A n \in Finals : FinalFits(n)'
  <2> SUFFICES ASSUME NEW n \in Finals, publishedIn[n] # 0
               PROVE  FinalFits(n)'
    BY DEF FinalFits, TextFrame
  <2>1. n \in 1..arrivals /\ FinalFits(n)
    BY <1>3 DEF PipelineInv, JointInv, FinalFits, Finals, Text!Finals
  <2>2. heard'[n] = heard[n] /\ publishedIn'[n] = publishedIn[n] /\ n <= arrivals'
    BY <1>3, <2>1 DEF TextFrame, Finals, Text!Finals
  <2> QED
    BY <1>1, <2>1, <2>2 DEF FinalFits
<1> QED
  BY <1>2, <1>3, <1>5, <1>6, <1>7 DEF PipelineInv, JointInv

LEMMA VoiceStepKeeps ==
  ASSUME PipelineInv, VoiceFrame, UNCHANGED textVars
  PROVE  PipelineInv'
<1>1. UNCHANGED <<finalQueue, segmentCounter, drain, pendingBuffer, arrivals, heard, publishedIn>>
  BY DEF textVars
<1>2. TextInv'
  BY <1>1 DEF PipelineInv, VoiceFrame, TextInv, TextFits, DrainFits, QueueFits, HeardOn, Speech
<1>3. JointInv'
  BY <1>1 DEF PipelineInv, VoiceFrame, BornAsBefore, JointInv, FinalFits
<1> QED
  BY <1>2, <1>3 DEF VoiceFrame, PipelineInv

LEMMA PublishKeeps ==
  ASSUME PipelineInv, NEW s \in Segments, PublishTranslation(s)
  PROVE  PipelineInv' /\ SentForStream /\ UNCHANGED heard
<1>1. PICK d \in drain :
        /\ d.phase = "translating" /\ d.segment = s /\ Text!IsCurrent(d)
        /\ publishedIn' = [n \in Text!Finals |-> IF n \in d.sources THEN s ELSE publishedIn[n]]
        /\ Text!DrainContinues
        /\ UNCHANGED <<Text!clock, processedFinalKeys, pendingFlushTimer, arrivals, heard>>
  BY DEF PublishTranslation, Text!TranslationPublished
<1>2. Publication(s)
  BY PublicationKeeps DEF PublishTranslation, PipelineInv, TextInv
<1>3. UNCHANGED <<generation, sttStreamToken, arrivals, heard>>
  BY <1>1 DEF Text!clock
<1>4. /\ s = segmentCounter /\ d.token = sttStreamToken
      /\ HeardOn(d.sources, sttStreamToken, arrivals, heard)
  BY <1>1 DEF PipelineInv, TextInv, DrainFits, Text!IsCurrent
<1>5. s \in Nat /\ arrivals \in Nat
  BY PipelineAssumption DEF PipelineInv, TextInv, Segments, Voice!Segments
<1>6. /\ TextFits(finalQueue', pendingBuffer', segmentCounter', sttStreamToken, arrivals, heard)
      /\ DrainFits(drain', segmentCounter', arrivals, heard)
      /\ Numbered
  BY <1>1, ContinueKeeps DEF PipelineInv
<1>7. publishedIn' \in [Finals -> Nat]
  BY <1>1, <1>5 DEF PipelineInv, TextInv, Finals
<1>8. TextInv'
  BY <1>3, <1>6, <1>7 DEF PipelineInv, TextInv
<1>9. \A r \in Segments : r > segmentCounter' => stage'[r] = "unborn"
  BY <1>2, <1>4, <1>5, <1>6
  DEF Numbered, PipelineInv, JointInv, Publication, Segments, Voice!Segments
<1>10. \A e \in drain' : e.phase = "translating" /\ segmentCounter' \in Segments =>
         stage'[segmentCounter'] = "unborn"
  BY <1>2, <1>4, <1>5, <1>6
  DEF Numbered, PipelineInv, JointInv, Publication, Segments, Voice!Segments
<1>11. \A n \in Finals : FinalFits(n)'
  <2> SUFFICES ASSUME NEW n \in Finals, publishedIn'[n] # 0
               PROVE  FinalFits(n)'
    BY DEF FinalFits
  <2>0. stage[s] = "unborn" /\ stage'[s] # "unborn" /\ jobToken'[s] = sttStreamToken
    BY <1>2 DEF Publication, PublishTranslation, Voice!PublishTranslation, PipelineInv, VoiceInv
  <2>1. CASE n \in d.sources
    <3>1. publishedIn'[n] = s /\ n <= arrivals /\ heard[n] = sttStreamToken
      BY <1>1, <1>4, <1>5, <2>1 DEF Finals, HeardOn
    <3> QED
      BY <1>3, <2>0, <3>1 DEF FinalFits
  <2>2. CASE n \notin d.sources
    <3>1. publishedIn'[n] = publishedIn[n] /\ FinalFits(n)
      BY <1>1, <2>2 DEF Finals, PipelineInv, JointInv
    <3>2. /\ publishedIn[n] \in Segments /\ publishedIn[n] # s
          /\ stage'[publishedIn[n]] # "unborn"
          /\ jobToken'[publishedIn[n]] = jobToken[publishedIn[n]]
      BY <1>2, <2>0, <3>1 DEF FinalFits, Publication, PipelineInv, VoiceInv
    <3> QED
      BY <1>3, <3>1, <3>2 DEF FinalFits
  <2> QED
    BY <2>1, <2>2
<1> QED
  BY <1>2, <1>3, <1>8, <1>9, <1>10, <1>11 DEF Publication, PipelineInv, JointInv

(* A seek or a stop: the queues and the fragment go, what was heard stays.  *)
LEMMA ClearedKeeps ==
  ASSUME PipelineInv, generation' \in Nat, sttStreamToken' \in Nat,
         finalQueue' = <<>>, pendingBuffer' = {},
         UNCHANGED <<segmentCounter, drain, arrivals, heard, publishedIn>>,
         Voice!DropQueue,
         UNCHANGED <<jobToken, subtitles, chunks, partFinals, heldParts>>
  PROVE  PipelineInv' /\ SentForStream /\ UNCHANGED heard
<1>1. StagesFit /\ BornAsBefore(stage)
  BY DropKeeps DEF PipelineInv
<1>2. VoiceInv'
  BY <1>1 DEF PipelineInv, VoiceInv, StagesFit
<1>3. <<>> \in Seq(Text!Items) /\ DOMAIN <<>> = {} /\ Speech(<<>>) = {} /\ Cardinality({}) = 0
  BY FS_EmptySet DEF Speech
<1>4. segmentCounter \in Nat /\ segmentCounter <= 2 * arrivals
  <2>1. finalQueue \in Seq(Text!Items)
    BY DEF PipelineInv, TextInv, TextFits, QueueFits
  <2>2. Cardinality(Speech(finalQueue)) \in Nat
    BY <2>1, SpeechFinite
  <2>3. arrivals \in Nat
    BY PipelineAssumption DEF PipelineInv, TextInv
  <2> QED
    BY <2>2, <2>3 DEF PipelineInv, TextInv, TextFits
<1>5. TextFits(finalQueue', pendingBuffer', segmentCounter', sttStreamToken', arrivals', heard')
  <2>1. Speech(finalQueue') = {} /\ Cardinality(Speech(finalQueue')) = 0
    BY <1>3
  <2>2. QueueFits(finalQueue', sttStreamToken', arrivals', heard')
    BY <1>3, <2>1 DEF QueueFits
  <2> QED
    BY <1>4, <2>1, <2>2 DEF TextFits, HeardOn
<1>6. TextInv'
  BY <1>5 DEF PipelineInv, TextInv, DrainFits
<1>7. JointInv'
  BY <1>1 DEF PipelineInv, BornAsBefore, JointInv, FinalFits
<1> QED
  BY <1>2, <1>6, <1>7 DEF PipelineInv, SentForStream
-----------------------------------------------------------------------------
LEMMA PipelineInitially == Init => PipelineInv
<1> SUFFICES ASSUME Init PROVE PipelineInv
  OBVIOUS
<1>1. Text!Init /\ Voice!Init
  BY DEF Init
<1>2. /\ <<>> \in Seq(Text!Items) /\ <<>> \in Seq(Segments) /\ DOMAIN <<>> = {}
      /\ Speech(<<>>) = {} /\ Cardinality({}) = 0
  BY FS_EmptySet DEF Speech
<1>3. TextInv
  <2>1. TextFits(finalQueue, pendingBuffer, segmentCounter, sttStreamToken, arrivals, heard)
    <3>1. finalQueue = <<>> /\ pendingBuffer = {} /\ segmentCounter = 0 /\ arrivals = 0
      BY <1>1 DEF Text!Init
    <3>2. QueueFits(finalQueue, sttStreamToken, arrivals, heard)
      BY <1>2, <3>1 DEF QueueFits
    <3>3. Cardinality(Speech(finalQueue)) = 0
      BY <1>2, <3>1
    <3> QED
      BY <3>1, <3>2, <3>3 DEF TextFits, HeardOn
  <2> QED
    BY <1>1, <2>1, PipelineAssumption DEF Text!Init, TextInv, DrainFits, Finals
<1>4. VoiceInv
  BY <1>1, <1>2 DEF Voice!Init, VoiceInv, QueueBorn, Segments, Voice!Stages
<1>5. JointInv
  BY <1>1 DEF Text!Init, Voice!Init, JointInv, FinalFits, Segments, Finals
<1> QED
  BY <1>3, <1>4, <1>5 DEF PipelineInv

SentStep ==
  \A s \in Voice!Segments : Voice!Sent(s)' # Voice!Sent(s) =>
    \A n \in Text!Finals : publishedIn'[n] = s => heard[n] = sttStreamToken

LEMMA SentIsHeard ==
  ASSUME PipelineInv', SentForStream, UNCHANGED heard
  PROVE  SentStep
<1> SUFFICES ASSUME NEW s \in Segments, Voice!Sent(s)' # Voice!Sent(s),
                    NEW n \in Finals, publishedIn'[n] = s
             PROVE  heard[n] = sttStreamToken
  BY DEF SentStep, Segments, Finals
<1>1. jobToken'[s] = sttStreamToken
  BY DEF Voice!Sent, SentForStream
<1>2. s # 0 /\ FinalFits(n)'
  BY DEF PipelineInv, JointInv, Segments, Voice!Segments
<1> QED
  BY <1>1, <1>2 DEF FinalFits

LEMMA NothingSent ==
  ASSUME UNCHANGED <<subtitles, chunks, partFinals>>
  PROVE  SentStep
  BY DEF SentStep, Voice!Sent

LEMMA PipelineStep ==
  PipelineInv /\ [Next]_vars => PipelineInv' /\ SentStep
<1> SUFFICES ASSUME PipelineInv, [Next]_vars
             PROVE  PipelineInv' /\ SentStep
  OBVIOUS
<1>0. ASSUME UNCHANGED voiceVars, TextFrame PROVE PipelineInv' /\ SentStep
  BY <1>0, TextStepKeeps, NothingSent DEF voiceVars
<1>1. CASE OnFinal
  BY <1>0, <1>1, OnFinalFrame DEF OnFinal, PipelineInv
<1>2. CASE FlushTimerFires
  BY <1>0, <1>2, TimerFrame DEF FlushTimerFires, PipelineInv
<1>3. CASE DrainStep
  <2>1. CASE \E s \in Voice!Segments : PublishTranslation(s)
    BY <2>1, PublishKeeps, SentIsHeard DEF Segments
  <2>2. CASE (Text!TranslationHeld \/ Text!TranslationDropped) /\ UNCHANGED voiceVars
    BY <1>0, <2>2, HeldFrame DEF PipelineInv
  <2> QED
    BY <1>3, <2>1, <2>2 DEF DrainStep
<1>4. CASE VoiceStep
  <2>1. VoiceFrame /\ UNCHANGED textVars
    BY <1>4, JobFrame, ModeFrame DEF VoiceStep, PipelineInv, Segments
  <2>2. PipelineInv' /\ SentForStream /\ UNCHANGED heard
    BY <2>1, VoiceStepKeeps DEF VoiceFrame, textVars
  <2> QED
    BY <2>2, SentIsHeard
<1>5. CASE HandleSeek
  <2>1. /\ generation' = generation + 1 /\ sttStreamToken' = sttStreamToken + 2
        /\ finalQueue' = <<>> /\ pendingBuffer' = {} /\ Voice!DropQueue
        /\ UNCHANGED <<segmentCounter, drain, arrivals, heard, publishedIn>>
        /\ UNCHANGED <<jobToken, subtitles, chunks, partFinals, heldParts>>
    BY <1>5 DEF HandleSeek, Text!HandleSeek, Voice!HandleSeek, Text!history, Voice!jobs,
                Voice!texts, Voice!voice, Voice!streams
  <2>2. generation' \in Nat /\ sttStreamToken' \in Nat
    BY <2>1 DEF PipelineInv, TextInv
  <2> QED
    BY <2>1, <2>2, ClearedKeeps, SentIsHeard
<1>6. CASE Stop
  <2>1. /\ generation' = generation + 1 /\ sttStreamToken' = sttStreamToken + 1
        /\ finalQueue' = <<>> /\ pendingBuffer' = {} /\ Voice!DropQueue
        /\ UNCHANGED <<segmentCounter, drain, arrivals, heard, publishedIn>>
        /\ UNCHANGED <<jobToken, subtitles, chunks, partFinals, heldParts>>
    BY <1>6 DEF Stop, Text!Stop, Voice!Stop, Text!history, Voice!jobs,
                Voice!texts, Voice!voice, Voice!streams
  <2>2. generation' \in Nat /\ sttStreamToken' \in Nat
    BY <2>1 DEF PipelineInv, TextInv
  <2> QED
    BY <2>1, <2>2, ClearedKeeps, SentIsHeard
<1>7. CASE UNCHANGED vars
  <2>1. UNCHANGED voiceVars /\ UNCHANGED textVars /\ UNCHANGED clock
    BY <1>7 DEF vars
  <2>2. TextFrame
    BY <2>1 DEF textVars, clock, TextFrame, PipelineInv, TextInv, TextFits, QueueFits,
                DrainFits, HeardOn, Speech, Numbering
  <2> QED
    BY <1>0, <2>1, <2>2
<1> QED
  BY <1>1, <1>2, <1>3, <1>4, <1>5, <1>6, <1>7 DEF Next

LEMMA PipelineAlways == Spec => []PipelineInv
<1>1. PipelineInv /\ [Next]_vars => PipelineInv'
  BY PipelineStep
<1> QED
  BY PipelineInitially, <1>1, PTL DEF Spec

(* What is said or shown after a seek or a restart of the stream is made of *)
(* speech that was heard on the stream open now, through both queues, both  *)
(* awaits and the chain of the voices.                                      *)
THEOREM SentIsCurrent == Spec => SentSpeechIsCurrent
<1>1. PipelineInv /\ [Next]_vars => [SentStep]_vars
  BY PipelineStep
<1> QED
  BY <1>1, PipelineAlways, PTL DEF Spec, SentSpeechIsCurrent, SentStep
-----------------------------------------------------------------------------
LEMMA NewSegments == PipelineInv => SegmentsAreNew
<1> SUFFICES ASSUME PipelineInv, NEW d \in drain, d.phase = "translating"
             PROVE  /\ d.segment \in Voice!Segments
                    /\ \A s \in Voice!Segments : s >= d.segment => stage[s] = "unborn"
  BY DEF SegmentsAreNew
<1>1. d.segment = segmentCounter /\ segmentCounter # 0
  BY DEF PipelineInv, TextInv, DrainFits
<1>2. finalQueue \in Seq(Text!Items) /\ segmentCounter \in Nat
  BY DEF PipelineInv, TextInv, TextFits, QueueFits
<1>3. Cardinality(Speech(finalQueue)) \in Nat
  BY <1>2, SpeechFinite
<1>4. MaxFinals \in Nat /\ arrivals \in Nat /\ arrivals <= MaxFinals
  BY PipelineAssumption DEF PipelineInv, TextInv
<1>5. segmentCounter \in Segments
  BY <1>1, <1>2, <1>3, <1>4 DEF PipelineInv, TextInv, TextFits, Segments, Voice!Segments
<1>6. stage[segmentCounter] = "unborn"
  BY <1>5 DEF PipelineInv, JointInv
<1> QED
  BY <1>1, <1>2, <1>5, <1>6 DEF PipelineInv, JointInv, Segments, Voice!Segments

LEMMA TextImplemented == [Next]_vars => [Text!Next]_Text!vars
<1> SUFFICES ASSUME [Next]_vars PROVE Text!Next \/ UNCHANGED Text!vars
  OBVIOUS
<1>1. CASE OnFinal
  BY <1>1 DEF OnFinal, Text!Next
<1>2. CASE FlushTimerFires
  BY <1>2 DEF FlushTimerFires, Text!Next
<1>3. CASE DrainStep
  <2>1. ASSUME NEW s \in Voice!Segments, Text!TranslationPublished(s)
        PROVE  \E d \in drain : Text!TranslationPublished(d.segment)
    BY <2>1 DEF Text!TranslationPublished
  <2>2. Text!DrainStep
    BY <1>3, <2>1 DEF DrainStep, PublishTranslation, Text!DrainStep
  <2> QED
    BY <2>2 DEF Text!Next
<1>4. CASE VoiceStep
  <2>1. UNCHANGED <<isActive, generation, sttStreamToken>>
    BY <1>4
    DEF VoiceStep, Voice!JobStep, Voice!JobContinues, Voice!PartArrives, Voice!SynthesisReturns,
        Voice!EmitAudio, Voice!EmitSilent, Voice!PreviousReleased, Voice!StreamReturns,
        Voice!StreamSettles, Voice!SetMode, Voice!clock
  <2> QED
    BY <1>4, <2>1
    DEF VoiceStep, textVars, Text!vars, Text!clock, Text!textVars, Text!engine, Text!history
<1>5. CASE HandleSeek
  BY <1>5 DEF HandleSeek, Text!Next
<1>6. CASE Stop
  BY <1>6 DEF Stop, Text!Next
<1>7. CASE UNCHANGED vars
  BY <1>7
  DEF vars, clock, textVars, Text!vars, Text!clock, Text!textVars, Text!engine, Text!history
<1> QED
  BY <1>1, <1>2, <1>3, <1>4, <1>5, <1>6, <1>7 DEF Next

LEMMA VoiceImplemented == [Next]_vars => [Voice!Next]_Voice!vars
<1> SUFFICES ASSUME [Next]_vars PROVE Voice!Next \/ UNCHANGED Voice!vars
  OBVIOUS
<1>0. UNCHANGED <<isActive, generation, sttStreamToken>> /\ UNCHANGED voiceVars
        => UNCHANGED Voice!vars
  BY DEF voiceVars, Voice!vars, Voice!clock, Voice!ttsVars, Voice!queueing, Voice!jobs,
         Voice!texts, Voice!voice, Voice!streams
<1>1. CASE OnFinal
  BY <1>0, <1>1 DEF OnFinal, Text!OnFinal, Text!clock
<1>2. CASE FlushTimerFires
  BY <1>0, <1>2 DEF FlushTimerFires, Text!FlushTimerFires, Text!clock
<1>3. CASE DrainStep
  <2>1. ASSUME NEW s \in Voice!Segments, PublishTranslation(s)
        PROVE  Voice!Next
    <3>1. Voice!PublishTranslation(s, generation, sttStreamToken)
      BY <2>1 DEF PublishTranslation, Voice!PublishTranslation
    <3> QED
      BY <3>1 DEF Voice!Next
  <2>2. CASE (Text!TranslationHeld \/ Text!TranslationDropped) /\ UNCHANGED voiceVars
    BY <1>0, <2>2 DEF Text!TranslationHeld, Text!TranslationDropped, Text!clock
  <2> QED
    BY <1>3, <2>1, <2>2 DEF DrainStep
<1>4. CASE VoiceStep
  BY <1>4 DEF VoiceStep, Voice!Next
<1>5. CASE HandleSeek
  BY <1>5 DEF HandleSeek, Voice!Next
<1>6. CASE Stop
  BY <1>6 DEF Stop, Voice!Next
<1>7. CASE UNCHANGED vars
  BY <1>0, <1>7 DEF vars, clock
<1> QED
  BY <1>1, <1>2, <1>3, <1>4, <1>5, <1>6, <1>7 DEF Next

(* The composition implements both halves: every step of the pipeline is a  *)
(* step of publishing or of speaking as its own module has it, or leaves it *)
(* alone, and the two agree on which segments are new.                      *)
THEOREM HalvesImplemented == Spec => BothHalves
<1>1. Init => Text!Init /\ Voice!Init
  BY DEF Init
<1> QED
  BY <1>1, TextImplemented, VoiceImplemented, NewSegments, PipelineAlways, PTL
  DEF Spec, BothHalves, Text!Spec, Voice!Spec
=============================================================================
