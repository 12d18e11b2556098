--------------------------- MODULE TtsStageProofs ---------------------------
(***************************************************************************)
(* Proofs about TtsStage, for every value of its constants: no wake-up of   *)
(* the queue is lost, a subtitle is sent once, a streamed voice is closed   *)
(* once, the voice never goes back, and nothing stale is sent.  They follow *)
(* from one inductive invariant, StageInv.                                  *)
(*                                                                          *)
(* Its core is the order in which jobs were started: the number of the      *)
(* sentence.  ttsQueue is ascending and holds what comes after the end of   *)
(* the chain, previous leads from a job to the one started just before it,  *)
(* and no job runs below one that has settled.                              *)
(***************************************************************************)
EXTENDS TtsStage, SequenceTheorems, FiniteSetTheorems, TLAPS

Started == Running \union {"done"}
Untouched == {"unborn", "queued", "skipped"}

RunningIn(st) == {s \in Segments : st[s] \in Running}

(* The jobs of queue q are those whose stage is "queued", oldest first, and  *)
(* n of the job slots are in use.                                           *)
SlotsFit(q, n, st) ==
  /\ q \in Seq(Segments) /\ st \in [Segments -> Stages]
  /\ n = Cardinality(RunningIn(st))
  /\ \A i, j \in DOMAIN q : i < j => q[i] < q[j]
  /\ \A i \in DOMAIN q : st[q[i]] = "queued"
  /\ \A s \in Segments : st[s] = "queued" => \E i \in DOMAIN q : q[i] = s

(* The chain of promises that ends in job "end" runs through every job that *)
(* was started, in ascending order.                                         *)
ChainFits(end, prev, st) ==
  /\ end \in 0..MaxSegments /\ prev \in [Segments -> 0..MaxSegments]
  /\ end # 0 => st[end] \in Started
  /\ \A s \in Segments : st[s] = "queued" => end < s
  /\ \A s \in Segments : st[s] \in Started =>
       /\ s <= end /\ prev[s] < s
       /\ prev[s] # 0 => st[prev[s]] \in Started
       /\ \A t \in Segments : t < s /\ st[t] \in Started => t <= prev[s]
  /\ \A s, t \in Segments : st[s] = "done" /\ t < s => st[t] \notin Running

(* A job belongs to the generation and stream it was made in: the present   *)
(* ones or past ones.                                                       *)
JobsNotAhead ==
  \A s \in Segments : jobGeneration[s] <= generation /\ jobToken[s] <= sttStreamToken

(* While a job has not handed over its subtitle none was sent, and a job    *)
(* that sent audio has handed it over before.                               *)
SubtitleBooked(s) ==
  /\ subtitles[s] <= 1
  /\ subtitlePending[s] => subtitles[s] = 0 /\ chunks[s] = 0
  /\ stage[s] = "unborn" => subtitles[s] = 0 /\ ~subtitlePending[s]
  /\ stage[s] = "queued" => subtitlePending[s]
  /\ subtitlePending[s] /\ IsJobCurrent(s) => stage[s] \in Running \union {"queued"}

(* A voice is closed by the end of its job only, and opened in turn only.   *)
VoiceBooked(s) ==
  /\ stage[s] \in Untouched => chunks[s] = 0 /\ ~released[s]
  /\ partFinals[s] <= 1 /\ (partFinals[s] > 0 => stage[s] = "done")
  /\ streaming => stage[s] \notin {"synth", "audio"} /\ (stage[s] = "silent" => chunks[s] = 0)
  /\ released[s] => PreviousDone(s)
  /\ streaming /\ stage[s] = "done" /\ chunks[s] > 0 /\ IsJobCurrent(s) => partFinals[s] = 1

(* No job runs that was started before the one that spoke last.             *)
LastVoiceFits(last, st) ==
  /\ last # 0 => st[last] \in Started
  /\ \A t \in Segments : t < last => st[t] \notin Running

StageInv ==
  /\ TypeOK /\ QueuedJobsCurrent /\ JobsNotAhead
  /\ SlotsFit(ttsQueue, activeTtsJobs, stage)
  /\ ChainFits(ttsEmitChain, previous, stage)
  /\ ttsQueue # <<>> => activeTtsJobs = Concurrency
  /\ \A s \in Segments : SubtitleBooked(s) /\ VoiceBooked(s)
  /\ LastVoiceFits(lastVoice, stage)
-----------------------------------------------------------------------------
(* The running jobs are finitely many.                                      *)
LEMMA RunningFinite ==
  ASSUME NEW st \in [Segments -> Stages]
  PROVE  /\ IsFiniteSet(RunningIn(st)) /\ Cardinality(RunningIn(st)) \in Nat
<1>1. IsFiniteSet(Segments)
  BY FS_Interval, TtsAssumption DEF Segments
<1>2. RunningIn(st) \subseteq Segments
  BY DEF RunningIn
<1> QED
  BY <1>1, <1>2, FS_Subset, FS_CardinalityType

(* One more job runs when a job is started.                                 *)
LEMMA OneMoreRuns ==
  ASSUME NEW st \in [Segments -> Stages], NEW s \in Segments, st[s] \notin Running,
         NEW first \in Running
  PROVE  Cardinality(RunningIn([st EXCEPT ![s] = first])) = Cardinality(RunningIn(st)) + 1
<1>1. RunningIn([st EXCEPT ![s] = first]) = RunningIn(st) \union {s} /\ s \notin RunningIn(st)
  BY DEF RunningIn
<1> QED
  BY <1>1, RunningFinite, FS_AddElement

(* One job less runs when a job settles.                                    *)
LEMMA OneLessRuns ==
  ASSUME NEW st \in [Segments -> Stages], NEW s \in Segments, st[s] \in Running
  PROVE  /\ Cardinality(RunningIn([st EXCEPT ![s] = "done"])) = Cardinality(RunningIn(st)) - 1
         /\ Cardinality(RunningIn([st EXCEPT ![s] = "done"])) \in Nat
<1> DEFINE rest == [st EXCEPT ![s] = "done"]
<1>1. RunningIn(rest) = RunningIn(st) \ {s} /\ s \in RunningIn(st)
  BY DEF RunningIn, Running
<1>2. rest \in [Segments -> Stages]
  BY DEF Stages
<1> QED
  BY <1>1, <1>2, RunningFinite, FS_RemoveElement

(* What Head and Tail of a queue that is not empty are.                     *)
LEMMA TailFacts ==
  ASSUME NEW S, NEW q \in Seq(S), q # <<>>
  PROVE  /\ Tail(q) \in Seq(S) /\ Head(q) \in S /\ Head(q) = q[1] /\ 1 \in DOMAIN q
         /\ Len(q) \in Nat \ {0} /\ Len(Tail(q)) = Len(q) - 1
         /\ \A i \in DOMAIN Tail(q) : i + 1 \in DOMAIN q /\ i \in Nat \ {0} /\ Tail(q)[i] = q[i + 1]
         /\ \A i \in DOMAIN q : i \in Nat /\ (i # 1 => i - 1 \in DOMAIN Tail(q) /\ i > 1)
<1>1. /\ Tail(q) \in Seq(S) /\ Head(q) \in S /\ Len(Tail(q)) = Len(q) - 1
      /\ \A i \in 1..Len(Tail(q)) : Tail(q)[i] = q[i + 1]
  BY HeadTailProperties
<1>2. Len(q) \in Nat \ {0} /\ DOMAIN q = 1..Len(q)
  BY LenProperties, EmptySeq
<1>3. DOMAIN Tail(q) = 1..(Len(q) - 1)
  BY <1>1, LenProperties
<1>4. Head(q) = q[1]
  OBVIOUS
<1> QED
  BY <1>1, <1>2, <1>3, <1>4

(* The head of a queue that fits leaves it: as a running job or as one that *)
(* is never voiced.                                                         *)
LEMMA HeadLeaves ==
  ASSUME NEW q, NEW n, NEW st, SlotsFit(q, n, st), q # <<>>,
         NEW next \in Stages, next # "queued"
  PROVE  /\ SlotsFit(Tail(q), Cardinality(RunningIn([st EXCEPT ![Head(q)] = next])),
                    [st EXCEPT ![Head(q)] = next])
         /\ Head(q) \in Segments /\ st[Head(q)] = "queued"
         /\ \A s \in Segments : st[s] = "queued" => Head(q) <= s
<1> USE DEF SlotsFit
<1> DEFINE new == [st EXCEPT ![Head(q)] = next]
<1>1. q \in Seq(Segments)
  OBVIOUS
<1>2. /\ Tail(q) \in Seq(Segments) /\ Head(q) \in Segments /\ Head(q) = q[1] /\ 1 \in DOMAIN q
      /\ \A i \in DOMAIN Tail(q) : i + 1 \in DOMAIN q /\ i \in Nat \ {0} /\ Tail(q)[i] = q[i + 1]
      /\ \A i \in DOMAIN q : i \in Nat /\ (i # 1 => i - 1 \in DOMAIN Tail(q) /\ i > 1)
  BY <1>1, TailFacts
<1>3. st[Head(q)] = "queued"
  BY <1>2
<1>4. \A i \in DOMAIN q : i # 1 => Head(q) < q[i]
  BY <1>2
<1>5. \A i \in DOMAIN q : q[i] \in Segments
  BY <1>1, ElementOfSeq, LenProperties
<1>6. \A s \in Segments : st[s] = "queued" => Head(q) <= s
  BY <1>2, <1>4, <1>5 DEF Segments
<1>7. new \in [Segments -> Stages]
  BY <1>2
<1>8. \A i, j \in DOMAIN Tail(q) : i < j => Tail(q)[i] < Tail(q)[j]
  BY <1>2
<1>9. \A i \in DOMAIN Tail(q) : new[Tail(q)[i]] = "queued"
  <2> SUFFICES ASSUME NEW i \in DOMAIN Tail(q) PROVE new[Tail(q)[i]] = "queued"
    OBVIOUS
  <2>1. i + 1 \in DOMAIN q /\ i + 1 # 1 /\ Tail(q)[i] = q[i + 1]
    BY <1>2
  <2>2. q[i + 1] # Head(q) /\ st[q[i + 1]] = "queued" /\ q[i + 1] \in Segments
    BY <2>1, <1>2, <1>4, <1>5 DEF Segments
  <2> QED
    BY <2>1, <2>2
<1>10. \A s \in Segments : new[s] = "queued" => \E i \in DOMAIN Tail(q) : Tail(q)[i] = s
  <2> SUFFICES ASSUME NEW s \in Segments, new[s] = "queued"
               PROVE  \E i \in DOMAIN Tail(q) : Tail(q)[i] = s
    OBVIOUS
  <2>1. s # Head(q) /\ st[s] = "queued"
    BY <1>2
  <2>2. PICK i \in DOMAIN q : q[i] = s
    BY <2>1
  <2>3. i # 1
    BY <2>1, <2>2, <1>2
  <2>4. i - 1 \in DOMAIN Tail(q) /\ i \in Nat
    BY <2>3, <1>2
  <2>5. Tail(q)[i - 1] = q[(i - 1) + 1] /\ (i - 1) + 1 = i
    BY <2>4, <1>2
  <2> QED
    BY <2>2, <2>4, <2>5
<1> QED
  BY <1>2, <1>3, <1>6, <1>7, <1>8, <1>9, <1>10

(* A job that is started becomes the end of the chain.                      *)
LEMMA StartKeepsChain ==
  ASSUME NEW st \in [Segments -> Stages], NEW end, NEW prev, ChainFits(end, prev, st),
         NEW h \in Segments, st[h] = "queued",
         \A s \in Segments : st[s] = "queued" => h <= s,
         NEW first \in Running
  PROVE  ChainFits(h, [prev EXCEPT ![h] = end], [st EXCEPT ![h] = first])
BY TtsAssumption DEF ChainFits, Started, Running, Segments

(* A job may settle when no job below it runs.                              *)
LEMMA EndKeepsChain ==
  ASSUME NEW st \in [Segments -> Stages], NEW end, NEW prev, ChainFits(end, prev, st),
         NEW s \in Segments, st[s] \in Running, \A t \in Segments : t < s => st[t] \notin Running
  PROVE  ChainFits(end, prev, [st EXCEPT ![s] = "done"])
BY TtsAssumption DEF ChainFits, Started, Running, Segments

(* The chain depends only on which jobs were started and which have settled. *)
LEMMA SameOrderKeepsChain ==
  ASSUME NEW st, NEW end, NEW prev, ChainFits(end, prev, st), NEW new,
         \A s \in Segments : st[s] \in Started <=> new[s] \in Started,
         \A s \in Segments : st[s] \in Running <=> new[s] \in Running,
         \A s \in Segments : st[s] = "done" <=> new[s] = "done",
         \A s \in Segments : new[s] = "queued" => end < s
  PROVE  ChainFits(end, prev, new)
<1>1. end # 0 => end \in Segments
  BY TtsAssumption DEF ChainFits, Segments
<1>2. \A s \in Segments : prev[s] # 0 => prev[s] \in Segments
  BY TtsAssumption DEF ChainFits, Segments
<1>3. \A s \in Segments : new[s] \in Started =>
        /\ s <= end /\ prev[s] < s
        /\ prev[s] # 0 => new[prev[s]] \in Started
        /\ \A t \in Segments : t < s /\ new[t] \in Started => t <= prev[s]
  BY <1>2 DEF ChainFits
<1>4. \A s, t \in Segments : new[s] = "done" /\ t < s => new[t] \notin Running
  BY DEF ChainFits
<1> QED
  BY <1>1, <1>3, <1>4 DEF ChainFits

(* Jobs that were not started may be dropped, and queued after its end.     *)
LEMMA UntouchedKeepsChain ==
  ASSUME NEW st \in [Segments -> Stages], NEW end, NEW prev, ChainFits(end, prev, st),
         NEW new \in [Segments -> Stages],
         \A s \in Segments : \/ new[s] = st[s]
                             \/ st[s] \in Untouched /\ new[s] = "skipped"
                             \/ st[s] \in Untouched /\ new[s] = "queued" /\ end < s
  PROVE  ChainFits(end, prev, new)
<1>1. \A x \in Untouched : x \notin Started /\ x \notin Running /\ x # "done"
  BY DEF Started, Running, Untouched
<1>2. "skipped" \in Untouched /\ "queued" \in Untouched
  BY DEF Untouched
<1>3. ASSUME NEW s \in Segments
      PROVE  \/ new[s] = st[s]
             \/ st[s] \in Untouched /\ new[s] \in Untouched /\ (new[s] = "queued" => end < s)
  BY <1>2
<1>4. \A s \in Segments : new[s] = "queued" => end < s
  BY <1>3 DEF ChainFits
<1>5. /\ \A s \in Segments : st[s] \in Started <=> new[s] \in Started
      /\ \A s \in Segments : st[s] \in Running <=> new[s] \in Running
      /\ \A s \in Segments : st[s] = "done" <=> new[s] = "done"
  BY <1>1, <1>3
<1> QED
  BY <1>4, <1>5, SameOrderKeepsChain

(* How pumpTtsQueue may change the stages of the jobs.                      *)
Pumped(before) ==
  \A s \in Segments :
    \/ stage'[s] = before[s]
    \/ before[s] = "queued" /\ stage'[s] \in {"silent", IF streaming THEN "stream" ELSE "synth"}

(* pumpTtsQueue keeps slots, queue and chain together, and leaves no job    *)
(* waiting while a slot is free.                                            *)
LEMMA PumpKeeps ==
  ASSUME NEW q, NEW n, NEW stages, NEW current,
         SlotsFit(q, n, stages), ChainFits(ttsEmitChain, previous, stages),
         \A s \in Segments : stages[s] = "queued" => s \in current /\ mode \in DubbingModes,
         n <= Concurrency, q # <<>> => n >= Concurrency - 1 \/ Tail(q) = <<>>,
         PumpTtsQueue(q, n, stages, current)
  PROVE  /\ SlotsFit(ttsQueue', activeTtsJobs', stage')
         /\ ChainFits(ttsEmitChain', previous', stage')
         /\ isActive /\ ttsQueue' # <<>> => activeTtsJobs' = Concurrency
         /\ activeTtsJobs' <= Concurrency
         /\ Pumped(stages)
         /\ \A s \in Segments : stages[s] # "queued" => previous'[s] = previous[s]
<1> USE DEF SlotsFit, Pumped
<1>1. n \in Nat
  BY RunningFinite
<1>2. CASE isActive /\ n < Concurrency /\ q # <<>>
  <2> DEFINE h == Head(q)
  <2>1. PICK first \in FirstStages(h, current) : stage' = [stages EXCEPT ![h] = first]
    BY <1>2 DEF PumpTtsQueue
  <2>2. /\ ttsQueue' = Tail(q) /\ activeTtsJobs' = n + 1
        /\ previous' = [previous EXCEPT ![h] = ttsEmitChain] /\ ttsEmitChain' = h
    BY <1>2 DEF PumpTtsQueue
  <2>3. /\ h \in Segments /\ stages[h] = "queued"
        /\ \A s \in Segments : stages[s] = "queued" => h <= s
    <3>1. 1 \in DOMAIN q /\ h = q[1]
      BY <1>2, TailFacts
    <3>2. "skipped" \in Stages /\ "skipped" # "queued"
      BY DEF Stages
    <3> QED
      BY <1>2, <3>2, HeadLeaves DEF SlotsFit
  <2>4. first \in {"silent", IF streaming THEN "stream" ELSE "synth"}
    BY <2>1, <2>3 DEF FirstStages
  <2>5. first \in Running /\ first \in Stages /\ first # "queued" /\ stages[h] \notin Running
    BY <2>3, <2>4 DEF Running, Stages
  <2>6. activeTtsJobs' = Cardinality(RunningIn(stage'))
    BY <2>1, <2>2, <2>3, <2>5, OneMoreRuns
  <2>7. SlotsFit(ttsQueue', activeTtsJobs', stage')
    BY <1>2, <2>1, <2>2, <2>5, <2>6, HeadLeaves
  <2>8. ChainFits(ttsEmitChain', previous', stage')
    BY <2>1, <2>2, <2>3, <2>5, StartKeepsChain
  <2>9. ttsQueue' # <<>> => activeTtsJobs' = Concurrency
    BY <1>1, <1>2, <2>2, TtsAssumption
  <2>10. activeTtsJobs' <= Concurrency
    BY <1>1, <1>2, <2>2, TtsAssumption
  <2>11. Pumped(stages)
    BY <2>1, <2>3, <2>4
  <2>12. \A s \in Segments : stages[s] # "queued" => previous'[s] = previous[s]
    BY <2>2, <2>3 DEF ChainFits
  <2> QED
    BY <2>7, <2>8, <2>9, <2>10, <2>11, <2>12
<1>3. CASE ~(isActive /\ n < Concurrency /\ q # <<>>)
  <2>1. /\ stage' = stages /\ ttsQueue' = q /\ activeTtsJobs' = n
        /\ UNCHANGED <<previous, ttsEmitChain>>
    BY <1>3 DEF PumpTtsQueue
  <2>2. isActive /\ q # <<>> => n = Concurrency
    BY <1>1, <1>3, TtsAssumption
  <2> QED
    BY <2>1, <2>2
<1> QED
  BY <1>2, <1>3
-----------------------------------------------------------------------------
(* When it is the turn of job s, no job below it runs.                      *)
LEMMA NoneRunsBelow ==
  ASSUME StageInv, NEW s \in Segments, stage[s] \in Running, PreviousDone(s)
  PROVE  \A t \in Segments : t < s => stage[t] \notin Running
<1> SUFFICES ASSUME NEW t \in Segments, t < s, stage[t] \in Running PROVE FALSE
  OBVIOUS
<1>1. ChainFits(ttsEmitChain, previous, stage)
  BY DEF StageInv
<1>2. t <= previous[s] /\ previous[s] \in 0..MaxSegments
  BY <1>1 DEF ChainFits, Started
<1>3. previous[s] # 0 /\ previous[s] \in Segments
  BY <1>2, TtsAssumption DEF Segments
<1>4. stage[previous[s]] = "done"
  BY <1>3 DEF PreviousDone
<1>5. t # previous[s]
  BY <1>4 DEF Running
<1>6. t < previous[s]
  BY <1>2, <1>5 DEF Segments
<1> QED
  BY <1>1, <1>3, <1>4, <1>6 DEF ChainFits

(* The part of a job's step that is about the queue, the slots and the      *)
(* chain.                                                                   *)
QueueingKept(s) ==
  /\ SlotsFit(ttsQueue', activeTtsJobs', stage')
  /\ ChainFits(ttsEmitChain', previous', stage')
  /\ ttsQueue' # <<>> => activeTtsJobs' = Concurrency
  /\ activeTtsJobs' <= Concurrency
  /\ stage'[s] \in Started \ {"quit"}
  /\ \A r \in Segments \ {s} :
       \/ stage'[r] = stage[r]
       \/ stage[r] = "queued" /\ stage'[r] \in {"silent", IF streaming THEN "stream" ELSE "synth"}
  /\ \A r \in Segments : stage[r] # "queued" => previous'[r] = previous[r]

(* The end of a job frees its slot for the next one in the queue.           *)
LEMMA SettleKeeps ==
  ASSUME StageInv, NEW s \in Segments, stage[s] \in Running, PreviousDone(s), Settle(s)
  PROVE  QueueingKept(s) /\ stage'[s] = "done"
<1> DEFINE ended == [stage EXCEPT ![s] = "done"]
           n == activeTtsJobs - 1
<1> USE DEF StageInv
<1>1. stage \in [Segments -> Stages] /\ ended \in [Segments -> Stages]
  BY DEF TypeOK, Stages
<1>2. \A i \in DOMAIN ttsQueue : ttsQueue[i] \in Segments
  BY ElementOfSeq, LenProperties DEF TypeOK
<1>3. n = Cardinality(RunningIn(ended)) /\ n \in Nat /\ activeTtsJobs \in Nat
  BY <1>1, OneLessRuns, RunningFinite DEF SlotsFit
<1>4. stage[s] # "queued"
  BY DEF Running
<1>5. SlotsFit(ttsQueue, n, ended)
  BY <1>1, <1>2, <1>3, <1>4 DEF SlotsFit
<1>6. ChainFits(ttsEmitChain, previous, ended)
  BY <1>1, NoneRunsBelow, EndKeepsChain
<1>7. \A r \in Segments : ended[r] = "queued" => r \in CurrentJobs /\ mode \in DubbingModes
  BY <1>1 DEF QueuedJobsCurrent, CurrentJobs
<1>8. n <= Concurrency /\ (ttsQueue # <<>> => n >= Concurrency - 1)
  BY <1>3, TtsAssumption DEF TypeOK
<1>9. PumpTtsQueue(ttsQueue, n, ended, CurrentJobs)
  BY DEF Settle
<1>10. /\ SlotsFit(ttsQueue', activeTtsJobs', stage')
       /\ ChainFits(ttsEmitChain', previous', stage')
       /\ isActive /\ ttsQueue' # <<>> => activeTtsJobs' = Concurrency
       /\ activeTtsJobs' <= Concurrency
       /\ Pumped(ended)
       /\ \A r \in Segments : ended[r] # "queued" => previous'[r] = previous[r]
  BY <1>5, <1>6, <1>7, <1>8, <1>9, PumpKeeps
<1>11. ended[s] = "done" /\ \A r \in Segments \ {s} : ended[r] = stage[r]
  BY <1>1
<1>12. stage'[s] = "done"
  BY <1>10, <1>11 DEF Pumped
<1>13. ttsQueue' # <<>> => isActive
  <2> SUFFICES ASSUME ttsQueue' # <<>> PROVE isActive
    OBVIOUS
  <2>1. 1 \in DOMAIN ttsQueue' /\ ttsQueue'[1] \in Segments
    BY <1>10, TailFacts DEF SlotsFit
  <2>2. stage'[ttsQueue'[1]] = "queued"
    BY <1>10, <2>1 DEF SlotsFit
  <2>3. ended[ttsQueue'[1]] = "queued"
    BY <1>10, <2>1, <2>2 DEF Pumped
  <2> QED
    BY <1>7, <2>1, <2>3 DEF CurrentJobs, IsJobCurrent
<1>14. \A r \in Segments : stage[r] # "queued" => previous'[r] = previous[r]
  BY <1>10, <1>11, <1>4
<1>15. \A r \in Segments \ {s} :
       \/ stage'[r] = stage[r]
       \/ stage[r] = "queued" /\ stage'[r] \in {"silent", IF streaming THEN "stream" ELSE "synth"}
  BY <1>10, <1>11 DEF Pumped
<1> QED
  BY <1>10, <1>12, <1>13, <1>14, <1>15 DEF QueueingKept, Started

(* A job goes on without giving its slot back.                              *)
LEMMA GoesOn ==
  ASSUME StageInv, NEW s \in Segments, stage[s] \in Running, NEW next \in Running, next # "quit",
         stage' = [stage EXCEPT ![s] = next],
         UNCHANGED <<ttsQueue, activeTtsJobs, ttsEmitChain, previous>>
  PROVE  QueueingKept(s) /\ stage'[s] = next
<1> USE DEF StageInv
<1>1. stage \in [Segments -> Stages] /\ stage' \in [Segments -> Stages]
  BY DEF TypeOK, Stages
<1>2. stage'[s] = next /\ \A r \in Segments \ {s} : stage'[r] = stage[r]
  BY <1>1
<1>3. RunningIn(stage') = RunningIn(stage)
  BY <1>2 DEF RunningIn
<1>4. \A i \in DOMAIN ttsQueue : ttsQueue[i] \in Segments
  BY ElementOfSeq, LenProperties DEF TypeOK
<1>5. stage[s] # "queued" /\ next # "queued" /\ next # "done" /\ stage[s] # "done"
  BY DEF Running
<1>6. SlotsFit(ttsQueue', activeTtsJobs', stage')
  BY <1>1, <1>2, <1>3, <1>4, <1>5 DEF SlotsFit
<1>7. /\ \A r \in Segments : stage'[r] \in Started <=> stage[r] \in Started
      /\ \A r \in Segments : stage'[r] \in Running <=> stage[r] \in Running
      /\ \A r \in Segments : stage'[r] = "done" <=> stage[r] = "done"
      /\ \A r \in Segments : stage'[r] = "queued" <=> stage[r] = "queued"
  BY <1>2, <1>5 DEF Started
<1>8. ChainFits(ttsEmitChain', previous', stage')
  <2>1. \A r \in Segments : stage'[r] = "queued" => ttsEmitChain < r
    BY <1>7 DEF ChainFits
  <2> QED
    BY <1>7, <2>1, SameOrderKeepsChain
<1> QED
  BY <1>2, <1>6, <1>8 DEF QueueingKept, TypeOK, Started

(* A step of a job that leaves queue, slots and chain alone.                *)
LEMMA StaysPut ==
  ASSUME StageInv, NEW s \in Segments, stage[s] \in Running, UNCHANGED queueing
  PROVE  QueueingKept(s) /\ stage'[s] = stage[s]
<1>1. stage[s] # "quit"
  BY DEF StageInv, QueuedJobsCurrent
<1> QED
  BY <1>1 DEF StageInv, QueueingKept, queueing, TypeOK, Started

-----------------------------------------------------------------------------
(* Everything a step of job s does: it keeps the queue in order, leaves the *)
(* books of the other jobs alone and its own in order, speaks in its turn   *)
(* only and only while it is current.                                       *)
JobFrame(s) ==
  /\ stage[s] \in Running /\ QueueingKept(s)
  /\ UNCHANGED <<clock, mode, jobs>>
  /\ subtitlePending' \in [Segments -> BOOLEAN] /\ released' \in [Segments -> BOOLEAN]
  /\ heldParts' \in [Segments -> Nat] /\ subtitles' \in [Segments -> Nat]
  /\ chunks' \in [Segments -> Nat] /\ partFinals' \in [Segments -> Nat]
  /\ \A r \in Segments \ {s} :
       /\ subtitlePending'[r] = subtitlePending[r] /\ released'[r] = released[r]
       /\ subtitles'[r] = subtitles[r] /\ chunks'[r] = chunks[r] /\ partFinals'[r] = partFinals[r]
  /\ SubtitleBooked(s)' /\ VoiceBooked(s)'
  /\ lastVoice' = lastVoice \/ (lastVoice' = s /\ PreviousDone(s))
  /\ Sent(s)' # Sent(s) => IsJobCurrent(s)

LEMMA NonZeroIsSegment ==
  /\ Segments \subseteq 0..MaxSegments
  /\ \A x \in 0..MaxSegments : x # 0 => x \in Segments
BY TtsAssumption DEF Segments

(* The other jobs' books stay in order.                                     *)
LEMMA OthersBooked ==
  ASSUME StageInv, NEW s \in Segments, JobFrame(s), NEW r \in Segments \ {s}
  PROVE  SubtitleBooked(r)' /\ VoiceBooked(r)'
<1> USE DEF StageInv
<1>1. SubtitleBooked(r) /\ VoiceBooked(r)
  OBVIOUS
<1>2. IsJobCurrent(r)' <=> IsJobCurrent(r)
  BY DEF JobFrame, IsJobCurrent, clock, jobs
<1>3. /\ subtitlePending'[r] = subtitlePending[r] /\ released'[r] = released[r]
      /\ subtitles'[r] = subtitles[r] /\ chunks'[r] = chunks[r] /\ partFinals'[r] = partFinals[r]
      /\ streaming' = streaming
  BY DEF JobFrame, jobs
<1>4. \/ stage'[r] = stage[r]
      \/ stage[r] = "queued" /\ stage'[r] \in {"silent", IF streaming THEN "stream" ELSE "synth"}
  BY DEF JobFrame, QueueingKept
<1>5. SubtitleBooked(r)'
  BY <1>1, <1>2, <1>3, <1>4 DEF SubtitleBooked, Running
<1>6. released[r] => PreviousDone(r)'
  <2> SUFFICES ASSUME released[r], previous'[r] # 0 PROVE stage'[previous'[r]] = "done"
    BY DEF PreviousDone
  <2>1. stage[r] # "queued"
    BY <1>1 DEF VoiceBooked, Untouched
  <2>2. previous'[r] = previous[r] /\ previous[r] \in Segments
    <3>1. previous'[r] = previous[r]
      BY <2>1 DEF JobFrame, QueueingKept
    <3>2. previous[r] \in 0..MaxSegments
      BY DEF TypeOK
    <3> QED
      BY <3>1, <3>2, NonZeroIsSegment
  <2>3. stage[previous[r]] = "done"
    BY <1>1, <2>2 DEF VoiceBooked, PreviousDone
  <2>4. previous[r] # s
    BY <2>3 DEF JobFrame, Running
  <2> QED
    BY <2>2, <2>3, <2>4 DEF JobFrame, QueueingKept
<1>7. VoiceBooked(r)'
  BY <1>1, <1>2, <1>3, <1>4, <1>6 DEF VoiceBooked, Untouched
<1> QED
  BY <1>5, <1>7

(* A step of a job preserves the invariant.                                 *)
LEMMA JobFrameKeeps ==
  ASSUME StageInv, NEW s \in Segments, JobFrame(s)
  PROVE  StageInv'
<1> USE DEF StageInv
<1>1. TypeOK'
  <2>1. /\ SlotsFit(ttsQueue', activeTtsJobs', stage') /\ activeTtsJobs' <= Concurrency
        /\ ChainFits(ttsEmitChain', previous', stage')
    BY DEF JobFrame, QueueingKept
  <2>2. activeTtsJobs' \in Int /\ stage' \in [Segments -> Stages] /\ ttsQueue' \in Seq(Segments)
    BY <2>1, RunningFinite DEF SlotsFit
  <2>3. ttsEmitChain' \in 0..MaxSegments /\ previous' \in [Segments -> 0..MaxSegments]
    BY <2>1 DEF ChainFits
  <2>4. lastVoice' \in 0..MaxSegments
    <3>1. lastVoice' = lastVoice \/ lastVoice' = s
      BY DEF JobFrame
    <3>2. lastVoice \in 0..MaxSegments
      BY DEF TypeOK
    <3> QED
      BY <3>1, <3>2, NonZeroIsSegment
  <2> QED
    BY <2>1, <2>2, <2>3, <2>4 DEF TypeOK, JobFrame, clock, jobs
<1>2. /\ stage'[s] \notin {"queued", "quit"}
      /\ \A r \in Segments \ {s} : stage'[r] = stage[r] \/ stage'[r] \notin {"queued", "quit"}
  BY DEF JobFrame, QueueingKept, Started, Running
<1>3. \A r \in Segments : IsJobCurrent(r)' <=> IsJobCurrent(r)
  BY DEF JobFrame, IsJobCurrent, clock, jobs
<1>4. QueuedJobsCurrent'
  BY <1>2, <1>3 DEF JobFrame, QueuedJobsCurrent
<1>5. JobsNotAhead'
  BY DEF JobFrame, JobsNotAhead, clock, jobs
<1>6. \A r \in Segments : SubtitleBooked(r)' /\ VoiceBooked(r)'
  BY OthersBooked DEF JobFrame
<1>7. LastVoiceFits(lastVoice', stage')
  <2>1. /\ lastVoice' # 0 => lastVoice' \in Segments /\ stage[lastVoice'] \in Started
        /\ \A t \in Segments : t < lastVoice' => stage[t] \notin Running
    <3>1. CASE lastVoice' = lastVoice
      <4>1. lastVoice \in 0..MaxSegments
        BY DEF TypeOK
      <4> QED
        BY <3>1, <4>1, NonZeroIsSegment DEF LastVoiceFits
    <3>2. CASE lastVoice' = s /\ PreviousDone(s)
      <4>1. stage[s] \in Running
        BY DEF JobFrame
      <4> QED
        BY <3>2, <4>1, NoneRunsBelow DEF Started
    <3> QED
      BY <3>1, <3>2 DEF JobFrame
  <2>2. \A r \in Segments : stage[r] \in Started => stage'[r] \in Started
    BY DEF JobFrame, QueueingKept, Started, Running
  <2>3. ASSUME NEW t \in Segments, t < lastVoice', stage'[t] \in Running PROVE FALSE
    <3>1. stage[t] = "queued"
      BY <2>1, <2>3 DEF JobFrame, QueueingKept
    <3>2. lastVoice' # 0 /\ lastVoice' \in Segments
      BY <2>1, <2>3 DEF Segments
    <3>3. lastVoice' <= ttsEmitChain /\ ttsEmitChain < t
      BY <2>1, <3>1, <3>2 DEF ChainFits
    <3> QED
      BY <2>3, <3>2, <3>3 DEF Segments, TypeOK
  <2> QED
    BY <2>1, <2>2, <2>3 DEF LastVoiceFits
<1> QED
  BY <1>1, <1>4, <1>5, <1>6, <1>7 DEF JobFrame, QueueingKept
-----------------------------------------------------------------------------
(* A job whose turn it is keeps it: the job before it has settled for good. *)
LEMMA TurnKept ==
  ASSUME StageInv, NEW s \in Segments, stage[s] \in Running, QueueingKept(s), PreviousDone(s)
  PROVE  PreviousDone(s)'
<1>1. stage[s] # "queued" /\ stage[s] # "done"
  BY DEF Running
<1>2. previous'[s] = previous[s]
  BY <1>1 DEF QueueingKept
<1>3. previous[s] # 0 => previous[s] \in Segments
  BY NonZeroIsSegment DEF StageInv, TypeOK
<1> QED
  BY <1>1, <1>2, <1>3 DEF QueueingKept, PreviousDone

(* What a job does to its own subtitle when it hands it over.               *)
LEMMA OwnSubtitle ==
  ASSUME StageInv, NEW s \in Segments, EmitSubtitle(IfPending(s), mode)
  PROVE  /\ subtitlePending' \in [Segments -> BOOLEAN] /\ subtitles' \in [Segments -> Nat]
         /\ \A r \in Segments \ {s} :
              subtitlePending'[r] = subtitlePending[r] /\ subtitles'[r] = subtitles[r]
         /\ ~subtitlePending'[s] /\ subtitles'[s] <= 1
         /\ subtitles'[s] # subtitles[s] => IsJobCurrent(s)
<1>1. /\ subtitlePending \in [Segments -> BOOLEAN] /\ subtitles \in [Segments -> Nat]
      /\ SubtitleBooked(s)
  BY DEF StageInv, TypeOK
<1>2. \A r \in Segments : r \in IfPending(s) <=> r = s /\ subtitlePending[s]
  BY DEF IfPending
<1>3. \A r \in Segments :
        /\ subtitlePending'[r] = (subtitlePending[r] /\ r \notin IfPending(s))
        /\ subtitles'[r] = IF r \in IfPending(s) /\ mode \in SubtitleModes /\ IsJobCurrent(r)
                          THEN subtitles[r] + 1 ELSE subtitles[r]
  BY DEF EmitSubtitle
<1>4. subtitlePending' \in [Segments -> BOOLEAN]
  BY DEF EmitSubtitle
<1>5. subtitles' \in [Segments -> Nat]
  BY <1>1 DEF EmitSubtitle
<1>6. \A r \in Segments \ {s} :
        subtitlePending'[r] = subtitlePending[r] /\ subtitles'[r] = subtitles[r]
  BY <1>1, <1>2, <1>3
<1>7. ~subtitlePending'[s]
  BY <1>2, <1>3
<1>8. subtitles'[s] <= 1 /\ (subtitles'[s] # subtitles[s] => IsJobCurrent(s))
  BY <1>1, <1>2, <1>3 DEF SubtitleBooked
<1> QED
  BY <1>4, <1>5, <1>6, <1>7, <1>8

(* The engine answers.                                                      *)
LEMMA SynthesisReturnsFrame ==
  ASSUME StageInv, NEW s \in Segments, SynthesisReturns(s)
  PROVE  JobFrame(s)
<1>1. PICK result \in {"audio", "silent"} : stage' = [stage EXCEPT ![s] = result]
  BY DEF SynthesisReturns
<1>2. stage[s] \in Running /\ result \in Running /\ result # "quit" /\ stage[s] = "synth"
  BY DEF SynthesisReturns, Running
<1>3. UNCHANGED <<ttsQueue, activeTtsJobs, ttsEmitChain, previous>>
  BY DEF SynthesisReturns
<1>4. QueueingKept(s) /\ stage'[s] = result
  BY <1>1, <1>2, <1>3, GoesOn
<1>5. UNCHANGED <<clock, mode, jobs, texts, voice, streams>>
  BY DEF SynthesisReturns
<1>6. SubtitleBooked(s) /\ VoiceBooked(s) /\ ~streaming
  BY <1>2 DEF StageInv, VoiceBooked
<1>7. IsJobCurrent(s)' <=> IsJobCurrent(s)
  BY <1>5 DEF IsJobCurrent, clock, jobs
<1>8. SubtitleBooked(s)'
  BY <1>2, <1>4, <1>5, <1>6, <1>7 DEF SubtitleBooked, texts, voice, Running
<1>9. VoiceBooked(s)'
  <2>1. /\ partFinals'[s] = 0 /\ released'[s] = released[s] /\ ~streaming'
        /\ stage'[s] \notin Untouched
    BY <1>2, <1>4, <1>5, <1>6 DEF VoiceBooked, voice, streams, jobs, Untouched, StageInv, TypeOK
  <2>2. released[s] => PreviousDone(s)'
    BY <1>2, <1>4, <1>6, TurnKept DEF VoiceBooked
  <2> QED
    BY <2>1, <2>2 DEF VoiceBooked
<1> QED
  BY <1>2, <1>4, <1>5, <1>8, <1>9 DEF JobFrame, StageInv, TypeOK, texts, voice, streams, Sent

(* The audio of a job goes out, or its job is found stale.                  *)
LEMMA EmitAudioFrame ==
  ASSUME StageInv, NEW s \in Segments, EmitAudio(s)
  PROVE  JobFrame(s)
<1>1. /\ stage[s] = "audio" /\ stage[s] \in Running /\ PreviousDone(s)
      /\ UNCHANGED <<clock, mode, jobs, streams, partFinals>>
  BY DEF EmitAudio, Running
<1>2. SubtitleBooked(s) /\ VoiceBooked(s) /\ ~streaming
  BY <1>1 DEF StageInv, VoiceBooked
<1>3. IsJobCurrent(s)' <=> IsJobCurrent(s)
  BY <1>1 DEF IsJobCurrent, clock, jobs
<1>4. CASE ~IsJobCurrent(s)
  <2>1. Settle(s) /\ UNCHANGED <<texts, chunks, lastVoice>>
    BY <1>4 DEF EmitAudio
  <2>2. QueueingKept(s) /\ stage'[s] = "done"
    BY <1>1, <2>1, SettleKeeps
  <2>3. SubtitleBooked(s)'
    BY <1>2, <1>3, <1>4, <2>1, <2>2 DEF SubtitleBooked, texts
  <2>4. VoiceBooked(s)'
    BY <1>1, <1>2, <1>3, <1>4, <2>1, <2>2, TurnKept DEF VoiceBooked, streams, jobs, Untouched
  <2> QED
    BY <1>1, <2>1, <2>2, <2>3, <2>4 DEF JobFrame, StageInv, TypeOK, texts, streams, Sent
<1>5. CASE IsJobCurrent(s)
  <2>1. /\ EmitSubtitle(IfPending(s), mode)
        /\ chunks' = [chunks EXCEPT ![s] = @ + 1] /\ lastVoice' = s
    BY <1>5 DEF EmitAudio
  <2>2. QueueingKept(s) /\ stage'[s] \in {"done", "synth"}
    <3>1. CASE Settle(s)
      BY <1>1, <3>1, SettleKeeps
    <3>2. CASE /\ stage' = [stage EXCEPT ![s] = "synth"]
               /\ UNCHANGED <<ttsQueue, activeTtsJobs, ttsEmitChain, previous>>
      <4>1. "synth" \in Running /\ "synth" # "quit"
        BY DEF Running
      <4> QED
        BY <1>1, <3>2, <4>1, GoesOn
    <3> QED
      BY <1>5, <3>1, <3>2 DEF EmitAudio
  <2>3. /\ chunks' \in [Segments -> Nat] /\ \A r \in Segments \ {s} : chunks'[r] = chunks[r]
    BY <2>1 DEF StageInv, TypeOK
  <2>4. SubtitleBooked(s)'
    BY <2>1, <2>2, OwnSubtitle DEF SubtitleBooked
  <2>5. VoiceBooked(s)'
    BY <1>1, <1>2, <2>2, TurnKept DEF VoiceBooked, streams, jobs, Untouched
  <2> QED
    BY <1>1, <1>5, <2>1, <2>2, <2>3, <2>4, <2>5, OwnSubtitle
    DEF JobFrame, StageInv, TypeOK, streams, Sent
<1> QED
  BY <1>4, <1>5

(* No audio: the subtitle is sent, in turn, and the job ends.               *)
LEMMA EmitSilentFrame ==
  ASSUME StageInv, NEW s \in Segments, EmitSilent(s)
  PROVE  JobFrame(s)
<1>1. /\ stage[s] = "silent" /\ stage[s] \in Running /\ PreviousDone(s)
      /\ EmitSubtitle(IfPending(s), mode) /\ Settle(s)
      /\ UNCHANGED <<clock, mode, jobs, streams, voice>>
  BY DEF EmitSilent, Running, StageInv, QueuedJobsCurrent
<1>2. SubtitleBooked(s) /\ VoiceBooked(s)
  BY DEF StageInv
<1>3. QueueingKept(s) /\ stage'[s] = "done"
  BY <1>1, SettleKeeps
<1>4. SubtitleBooked(s)'
  BY <1>1, <1>3, OwnSubtitle DEF SubtitleBooked
<1>5. VoiceBooked(s)'
  BY <1>1, <1>2, <1>3, TurnKept DEF VoiceBooked, voice, streams, jobs, Untouched
<1> QED
  BY <1>1, <1>3, <1>4, <1>5, OwnSubtitle DEF JobFrame, StageInv, TypeOK, voice, streams, Sent

(* Parts of a streamed voice that go out in turn.                           *)
LEMMA SendPartsBooked ==
  ASSUME StageInv, NEW s \in Segments, NEW n \in Nat, SendParts(s, n),
         stage[s] \in {"stream", "ended"}, stage'[s] = stage[s],
         UNCHANGED <<clock, jobs>>
  PROVE  /\ subtitlePending' \in [Segments -> BOOLEAN] /\ subtitles' \in [Segments -> Nat]
         /\ chunks' \in [Segments -> Nat]
         /\ \A r \in Segments \ {s} :
              /\ subtitlePending'[r] = subtitlePending[r]
              /\ subtitles'[r] = subtitles[r] /\ chunks'[r] = chunks[r]
         /\ SubtitleBooked(s)'
         /\ lastVoice' = lastVoice \/ lastVoice' = s
         /\ subtitles'[s] # subtitles[s] \/ chunks'[s] # chunks[s] => IsJobCurrent(s)
<1>1. /\ subtitlePending \in [Segments -> BOOLEAN] /\ subtitles \in [Segments -> Nat]
      /\ chunks \in [Segments -> Nat] /\ SubtitleBooked(s)
  BY DEF StageInv, TypeOK
<1>2. IsJobCurrent(s)' <=> IsJobCurrent(s)
  BY DEF IsJobCurrent, clock, jobs
<1>3. CASE n > 0 /\ IsJobCurrent(s)
  <2>1. /\ EmitSubtitle(IfPending(s), mode) /\ lastVoice' = s
        /\ chunks' = [chunks EXCEPT ![s] = @ + n]
    BY <1>3 DEF SendParts
  <2>2. SubtitleBooked(s)'
    BY <2>1, OwnSubtitle DEF SubtitleBooked
  <2> QED
    BY <1>1, <1>3, <2>1, <2>2, OwnSubtitle
<1>4. CASE ~(n > 0 /\ IsJobCurrent(s))
  <2>1. UNCHANGED <<texts, chunks, lastVoice>>
    BY <1>4 DEF SendParts
  <2> QED
    BY <1>1, <1>2, <2>1 DEF texts, SubtitleBooked
<1> QED
  BY <1>3, <1>4

(* A part that is sent at once, or held until it is the job's turn.         *)
LEMMA PartArrivesFrame ==
  ASSUME StageInv, NEW s \in Segments, PartArrives(s)
  PROVE  JobFrame(s)
<1>1. /\ stage[s] = "stream" /\ stage[s] \in Running /\ stage[s] \notin Untouched
      /\ UNCHANGED <<clock, mode, queueing, jobs, partFinals, released>>
  BY DEF PartArrives, Running, Untouched
<1>2. SubtitleBooked(s) /\ VoiceBooked(s)
  BY DEF StageInv
<1>3. QueueingKept(s) /\ stage'[s] = stage[s]
  BY <1>1, StaysPut
<1>4. heldParts' \in [Segments -> Nat]
  <2>1. heldParts \in [Segments -> Nat]
    BY DEF StageInv, TypeOK
  <2>2. heldParts' = heldParts \/ heldParts' = [heldParts EXCEPT ![s] = @ + 1]
    BY DEF PartArrives
  <2> QED
    BY <2>1, <2>2
<1>5. CASE released[s]
  <2>1. SendParts(s, 1) /\ PreviousDone(s)
    BY <1>2, <1>5 DEF PartArrives, VoiceBooked
  <2>2. VoiceBooked(s)'
    BY <1>1, <1>2, <1>3, <2>1, TurnKept DEF VoiceBooked, jobs
  <2> QED
    BY <1>1, <1>3, <1>4, <2>1, <2>2, SendPartsBooked DEF JobFrame, StageInv, TypeOK, Sent
<1>6. CASE ~released[s]
  <2>1. UNCHANGED <<texts, chunks, lastVoice>>
    BY <1>6 DEF PartArrives
  <2>2. SubtitleBooked(s)'
    BY <1>1, <1>2, <1>3, <2>1 DEF SubtitleBooked, texts, IsJobCurrent, clock, jobs
  <2>3. VoiceBooked(s)'
    BY <1>1, <1>2, <1>3, <1>6, <2>1 DEF VoiceBooked, jobs
  <2> QED
    BY <1>1, <1>3, <1>4, <2>1, <2>2, <2>3 DEF JobFrame, StageInv, TypeOK, texts, Sent
<1> QED
  BY <1>5, <1>6

(* It is the job's turn: what was held goes out.                            *)
LEMMA PreviousReleasedFrame ==
  ASSUME StageInv, NEW s \in Segments, PreviousReleased(s)
  PROVE  JobFrame(s)
<1>1. /\ stage[s] \in {"stream", "ended"} /\ stage[s] \in Running /\ stage[s] \notin Untouched
      /\ PreviousDone(s) /\ SendParts(s, heldParts[s])
      /\ released' = [released EXCEPT ![s] = TRUE] /\ heldParts' = [heldParts EXCEPT ![s] = 0]
      /\ UNCHANGED <<clock, mode, queueing, jobs, partFinals>>
  BY DEF PreviousReleased, Running, Untouched
<1>2. VoiceBooked(s) /\ heldParts[s] \in Nat
  BY DEF StageInv, TypeOK
<1>3. QueueingKept(s) /\ stage'[s] = stage[s]
  BY <1>1, StaysPut
<1>4. /\ released' \in [Segments -> BOOLEAN] /\ heldParts' \in [Segments -> Nat]
      /\ \A r \in Segments \ {s} : released'[r] = released[r]
  BY <1>1 DEF StageInv, TypeOK
<1>5. VoiceBooked(s)'
  BY <1>1, <1>2, <1>3, TurnKept DEF VoiceBooked, jobs
<1> QED
  BY <1>1, <1>2, <1>3, <1>4, <1>5, SendPartsBooked DEF JobFrame, StageInv, TypeOK, Sent

(* The stream of parts has ended.                                           *)
LEMMA StreamReturnsFrame ==
  ASSUME StageInv, NEW s \in Segments, StreamReturns(s)
  PROVE  JobFrame(s)
<1>1. /\ stage[s] = "stream" /\ stage[s] \in Running /\ stage' = [stage EXCEPT ![s] = "ended"]
      /\ UNCHANGED <<ttsQueue, activeTtsJobs, ttsEmitChain, previous>>
      /\ UNCHANGED <<clock, mode, jobs, texts, voice, streams>>
  BY DEF StreamReturns, Running
<1>2. "ended" \in Running /\ "ended" # "quit" /\ "ended" \notin Untouched
  BY DEF Running, Untouched
<1>3. SubtitleBooked(s) /\ VoiceBooked(s)
  BY DEF StageInv
<1>4. QueueingKept(s) /\ stage'[s] = "ended"
  BY <1>1, <1>2, GoesOn
<1>5. SubtitleBooked(s)'
  BY <1>1, <1>2, <1>3, <1>4 DEF SubtitleBooked, texts, voice, IsJobCurrent, clock, jobs
<1>6. VoiceBooked(s)'
  <2>1. partFinals'[s] = 0 /\ released'[s] = released[s]
    BY <1>1, <1>3 DEF VoiceBooked, voice, streams, StageInv, TypeOK
  <2>2. released[s] => PreviousDone(s)'
    BY <1>1, <1>3, <1>4, TurnKept DEF VoiceBooked
  <2> QED
    BY <1>2, <1>4, <2>1, <2>2 DEF VoiceBooked
<1> QED
  BY <1>1, <1>4, <1>5, <1>6 DEF JobFrame, StageInv, TypeOK, texts, voice, streams, Sent

(* The end of a streamed job closes its voice, or sends the subtitle of a   *)
(* sentence that got none.                                                  *)
LEMMA StreamSettlesFrame ==
  ASSUME StageInv, NEW s \in Segments, StreamSettles(s)
  PROVE  JobFrame(s)
<1>1. /\ stage[s] = "ended" /\ stage[s] \in Running /\ released[s] /\ Settle(s)
      /\ UNCHANGED <<clock, mode, jobs, streams, chunks>>
  BY DEF StreamSettles, Running
<1>2. SubtitleBooked(s) /\ VoiceBooked(s) /\ chunks[s] \in Nat /\ partFinals[s] = 0
  BY <1>1 DEF StageInv, TypeOK, VoiceBooked
<1>3. PreviousDone(s)
  BY <1>1, <1>2 DEF VoiceBooked
<1>4. QueueingKept(s) /\ stage'[s] = "done"
  BY <1>1, <1>3, SettleKeeps
<1>5. IsJobCurrent(s)' <=> IsJobCurrent(s)
  BY <1>1 DEF IsJobCurrent, clock, jobs
<1>6. /\ subtitlePending' \in [Segments -> BOOLEAN] /\ subtitles' \in [Segments -> Nat]
      /\ \A r \in Segments \ {s} :
           subtitlePending'[r] = subtitlePending[r] /\ subtitles'[r] = subtitles[r]
      /\ ~subtitlePending'[s] /\ subtitles'[s] <= 1
      /\ subtitles'[s] # subtitles[s] => IsJobCurrent(s)
  <2>1. CASE chunks[s] = 0
    <3>1. EmitSubtitle(IfPending(s), mode)
      BY <2>1 DEF StreamSettles
    <3> QED
      BY <3>1, OwnSubtitle
  <2>2. CASE chunks[s] # 0
    <3>1. UNCHANGED texts /\ ~subtitlePending[s]
      BY <1>2, <2>2 DEF StreamSettles, SubtitleBooked
    <3> QED
      BY <1>2, <3>1 DEF texts, StageInv, TypeOK, SubtitleBooked
  <2> QED
    BY <2>1, <2>2
<1>7. /\ partFinals' \in [Segments -> Nat] /\ partFinals'[s] <= 1
      /\ \A r \in Segments \ {s} : partFinals'[r] = partFinals[r]
      /\ partFinals'[s] # partFinals[s] => IsJobCurrent(s)
      /\ IsJobCurrent(s) /\ chunks[s] > 0 => partFinals'[s] = 1
      /\ lastVoice' = lastVoice \/ lastVoice' = s
  <2>1. partFinals \in [Segments -> Nat]
    BY DEF StageInv, TypeOK
  <2> QED
    BY <1>2, <2>1 DEF StreamSettles
<1>8. SubtitleBooked(s)'
  BY <1>4, <1>6 DEF SubtitleBooked
<1>9. VoiceBooked(s)'
  BY <1>1, <1>3, <1>4, <1>5, <1>7, TurnKept DEF VoiceBooked, jobs, streams, Untouched
<1> QED
  BY <1>1, <1>3, <1>4, <1>6, <1>7, <1>8, <1>9 DEF JobFrame, StageInv, TypeOK, streams, Sent

(* Whatever a job does.                                                     *)
LEMMA JobStepFrame ==
  ASSUME StageInv, NEW s \in Segments, JobStep(s)
  PROVE  JobFrame(s)
BY SynthesisReturnsFrame, EmitAudioFrame, EmitSilentFrame, PartArrivesFrame,
   PreviousReleasedFrame, StreamReturnsFrame, StreamSettlesFrame DEF JobStep, JobContinues
-----------------------------------------------------------------------------
(* What Append to a queue is.                                               *)
LEMMA AppendFacts ==
  ASSUME NEW S, NEW q \in Seq(S), NEW e \in S
  PROVE  /\ Append(q, e) \in Seq(S) /\ Append(q, e) # <<>>
         /\ Len(q) \in Nat /\ DOMAIN q = 1..Len(q)
         /\ DOMAIN Append(q, e) = 1..(Len(q) + 1)
         /\ \A i \in DOMAIN q : Append(q, e)[i] = q[i]
         /\ Append(q, e)[Len(q) + 1] = e
         /\ q = <<>> => Tail(Append(q, e)) = <<>> /\ Head(Append(q, e)) = e
<1>1. /\ Append(q, e) \in Seq(S) /\ Len(q) \in Nat /\ DOMAIN q = 1..Len(q)
      /\ Len(Append(q, e)) = Len(q) + 1
      /\ \A i \in 1..Len(q) : Append(q, e)[i] = q[i]
      /\ Append(q, e)[Len(q) + 1] = e
  BY AppendProperties, LenProperties
<1>2. Append(q, e) # <<>> /\ DOMAIN Append(q, e) = 1..(Len(q) + 1)
  BY <1>1, EmptySeq, LenProperties
<1>3. q = <<>> => Tail(Append(q, e)) = <<>> /\ Head(Append(q, e)) = e
  <2>1. SUFFICES ASSUME q = <<>> PROVE Tail(Append(q, e)) = <<>> /\ Head(Append(q, e)) = e
    OBVIOUS
  <2>2. Len(q) = 0
    BY <2>1, EmptySeq
  <2>3. Tail(Append(q, e)) \in Seq(S) /\ Len(Tail(Append(q, e))) = 0
    BY <1>1, <1>2, <2>2, TailFacts
  <2>4. Head(Append(q, e)) = e
    BY <1>1, <1>2, <2>2, TailFacts
  <2> QED
    BY <2>3, <2>4, EmptySeq
<1> QED
  BY <1>1, <1>2, <1>3

(* The newest sentence comes after everything that waits or was started, so *)
(* that the queue may end with it.                                          *)
LEMMA NewestComesLast ==
  ASSUME StageInv, NEW s \in Segments, stage[s] = "unborn",
         \A r \in Segments : r > s => stage[r] = "unborn"
  PROVE  /\ ttsEmitChain < s
         /\ SlotsFit(Append(ttsQueue, s), activeTtsJobs, [stage EXCEPT ![s] = "queued"])
         /\ ChainFits(ttsEmitChain, previous, [stage EXCEPT ![s] = "queued"])
<1> DEFINE q == Append(ttsQueue, s)
           stages == [stage EXCEPT ![s] = "queued"]
<1>1. /\ ttsQueue \in Seq(Segments) /\ stage \in [Segments -> Stages]
      /\ SlotsFit(ttsQueue, activeTtsJobs, stage) /\ ChainFits(ttsEmitChain, previous, stage)
  BY DEF StageInv, SlotsFit
<1>2. stages \in [Segments -> Stages] /\ \A r \in Segments : r # s => stages[r] = stage[r]
  BY <1>1 DEF Stages
<1>3. \A r \in Segments : stage[r] # "unborn" => r < s
  BY DEF Segments
<1>4. ttsEmitChain < s
  <2>1. ttsEmitChain \in 0..MaxSegments
    BY <1>1 DEF ChainFits
  <2>2. ttsEmitChain # 0 => ttsEmitChain \in Segments /\ stage[ttsEmitChain] # "unborn"
    BY <1>1, <2>1, NonZeroIsSegment DEF ChainFits, Started, Running
  <2>3. ttsEmitChain = 0 => ttsEmitChain < s
    BY DEF Segments
  <2> QED
    BY <1>3, <2>2, <2>3
<1>5. ChainFits(ttsEmitChain, previous, stages)
  <2>1. "unborn" \in Untouched
    BY DEF Untouched
  <2> QED
    BY <1>1, <1>2, <1>4, <2>1, UntouchedKeepsChain
<1>6. RunningIn(stages) = RunningIn(stage)
  BY <1>1, <1>2 DEF RunningIn, Running
<1>7. /\ q \in Seq(Segments) /\ Len(ttsQueue) \in Nat /\ DOMAIN ttsQueue = 1..Len(ttsQueue)
      /\ DOMAIN q = 1..(Len(ttsQueue) + 1) /\ q[Len(ttsQueue) + 1] = s
      /\ \A i \in DOMAIN ttsQueue : q[i] = ttsQueue[i]
  BY <1>1, AppendFacts
<1>8. \A i \in DOMAIN ttsQueue : ttsQueue[i] \in Segments /\ stage[ttsQueue[i]] = "queued"
  BY <1>1, ElementOfSeq, LenProperties DEF SlotsFit
<1>9. ASSUME NEW i \in DOMAIN q
      PROVE  \/ i \in DOMAIN ttsQueue /\ q[i] = ttsQueue[i] /\ q[i] < s
             \/ i = Len(ttsQueue) + 1 /\ q[i] = s
  BY <1>3, <1>7, <1>8
<1>10. \A i, j \in DOMAIN q : i < j => q[i] < q[j]
  <2> SUFFICES ASSUME NEW i \in DOMAIN q, NEW j \in DOMAIN q, i < j PROVE q[i] < q[j]
    OBVIOUS
  <2>1. i \in DOMAIN ttsQueue
    BY <1>7
  <2> QED
    BY <1>1, <1>7, <1>9, <2>1 DEF SlotsFit
<1>11. \A i \in DOMAIN q : stages[q[i]] = "queued"
  BY <1>1, <1>2, <1>8, <1>9
<1>12. \A r \in Segments : stages[r] = "queued" => \E i \in DOMAIN q : q[i] = r
  <2> SUFFICES ASSUME NEW r \in Segments, stages[r] = "queued"
               PROVE  \E i \in DOMAIN q : q[i] = r
    OBVIOUS
  <2>1. CASE r = s
    <3>1. Len(ttsQueue) + 1 \in DOMAIN q
      BY <1>7
    <3> QED
      BY <1>7, <2>1, <3>1
  <2>2. CASE r # s
    <3>1. PICK i \in DOMAIN ttsQueue : ttsQueue[i] = r
      BY <1>1, <1>2, <2>2 DEF SlotsFit
    <3> QED
      BY <1>7, <3>1
  <2> QED
    BY <2>1, <2>2
<1> QED
  BY <1>1, <1>2, <1>4, <1>5, <1>6, <1>7, <1>10, <1>11, <1>12 DEF SlotsFit

(* What becomes of the other jobs when sentence s is published: one may be   *)
(* started, and the oldest that waits may give way, with its subtitle.      *)
Undisturbed(r) ==
  /\ subtitlePending'[r] = subtitlePending[r] /\ subtitles'[r] = subtitles[r]
  /\ \/ stage'[r] = stage[r]
     \/ stage[r] = "queued" /\ stage'[r] \in {"silent", IF streaming THEN "stream" ELSE "synth"}

GaveWay(r) ==
  /\ stage[r] = "queued" /\ stage'[r] = "skipped" /\ ~subtitlePending'[r]
  /\ subtitles'[r] = subtitles[r] \/ (subtitles'[r] = subtitles[r] + 1 /\ IsJobCurrent(r))

(* What becomes of s: it has its turn to come, or none and its subtitle.    *)
Arrived(s) ==
  \/ /\ subtitlePending'[s] /\ subtitles'[s] = subtitles[s]
     /\ stage'[s] \in {"queued", "silent", IF streaming THEN "stream" ELSE "synth"}
  \/ /\ ~subtitlePending'[s] /\ stage'[s] = "skipped"
     /\ subtitles'[s] \in {subtitles[s], subtitles[s] + 1}

PublishFrame(s) ==
  /\ SlotsFit(ttsQueue', activeTtsJobs', stage')
  /\ ChainFits(ttsEmitChain', previous', stage')
  /\ ttsQueue' # <<>> => activeTtsJobs' = Concurrency
  /\ activeTtsJobs' <= Concurrency
  /\ subtitlePending' \in [Segments -> BOOLEAN] /\ subtitles' \in [Segments -> Nat]
  /\ \A r \in Segments \ {s} : Undisturbed(r) \/ GaveWay(r)
  /\ Arrived(s) /\ (stage'[s] = "queued" => mode \in DubbingModes)
  /\ \A r \in Segments : stage[r] \in Started => previous'[r] = previous[r]

LEMMA EnqueueFrame ==
  ASSUME StageInv, isActive, mode \in DubbingModes,
         NEW s \in Segments, stage[s] = "unborn",
         \A r \in Segments : r > s => stage[r] = "unborn", EnqueueTts(s)
  PROVE  PublishFrame(s)
<1> DEFINE q == Append(ttsQueue, s)
           stages == [stage EXCEPT ![s] = "queued"]
           current == CurrentJobs \union {s}
<1> USE DEF StageInv
<1>1. /\ SlotsFit(q, activeTtsJobs, stages) /\ ChainFits(ttsEmitChain, previous, stages)
      /\ ttsEmitChain < s
  BY NewestComesLast
<1>2. /\ stage \in [Segments -> Stages] /\ stages \in [Segments -> Stages]
      /\ ttsQueue \in Seq(Segments) /\ q \in Seq(Segments)
      /\ subtitlePending \in [Segments -> BOOLEAN] /\ subtitles \in [Segments -> Nat]
  BY <1>1 DEF TypeOK, SlotsFit
<1>3. stages[s] = "queued" /\ \A r \in Segments \ {s} : stages[r] = stage[r]
  BY <1>2
<1>4. \A r \in Segments : stages[r] = "queued" => r \in current /\ mode \in DubbingModes
  BY <1>3 DEF QueuedJobsCurrent, CurrentJobs
<1>5. activeTtsJobs <= Concurrency /\ activeTtsJobs \in Nat
  BY <1>2, RunningFinite DEF TypeOK, SlotsFit
<1>6. q # <<>> /\ (ttsQueue = <<>> => Tail(q) = <<>>)
  BY <1>2, AppendFacts
<1>7. q # <<>> => activeTtsJobs >= Concurrency - 1 \/ Tail(q) = <<>>
  BY <1>5, <1>6, TtsAssumption
<1>8. \A r \in Segments : stage[r] \in Started => stage[r] \notin {"queued", "unborn"}
  BY DEF Started, Running
<1>9. CASE Len(q) <= MaxPendingTts
  <2>1. /\ PumpTtsQueue(q, activeTtsJobs, stages, current)
        /\ subtitlePending' = [subtitlePending EXCEPT ![s] = TRUE] /\ UNCHANGED subtitles
    BY <1>9 DEF EnqueueTts
  <2>2. /\ SlotsFit(ttsQueue', activeTtsJobs', stage')
        /\ ChainFits(ttsEmitChain', previous', stage')
        /\ isActive /\ ttsQueue' # <<>> => activeTtsJobs' = Concurrency
        /\ activeTtsJobs' <= Concurrency
        /\ Pumped(stages)
        /\ \A r \in Segments : stages[r] # "queued" => previous'[r] = previous[r]
    <3> HIDE DEF q, stages, current
    <3> QED
      BY <1>1, <1>4, <1>5, <1>7, <2>1, PumpKeeps
  <2>3. \A r \in Segments \ {s} : Undisturbed(r)
    BY <1>2, <1>3, <2>1, <2>2 DEF Undisturbed, Pumped
  <2>4. Arrived(s)
    BY <1>2, <1>3, <2>1, <2>2 DEF Arrived, Pumped
  <2>5. \A r \in Segments : stage[r] \in Started => previous'[r] = previous[r]
    BY <1>3, <1>8, <2>2
  <2> QED
    BY <1>2, <2>1, <2>2, <2>3, <2>4, <2>5 DEF PublishFrame
<1>10. CASE ~(Len(q) <= MaxPendingTts)
  <2> DEFINE h == Head(q)
             left == [stages EXCEPT ![h] = "skipped"]
  <2>1. "skipped" \in Stages /\ "skipped" # "queued" /\ "skipped" \in Untouched
    BY DEF Stages, Untouched
  <2>2. /\ SlotsFit(Tail(q), Cardinality(RunningIn(left)), left)
        /\ h \in Segments /\ stages[h] = "queued"
    BY <1>1, <1>6, <2>1, HeadLeaves
  <2>3. RunningIn(left) = RunningIn(stages)
    BY <1>2, <2>2 DEF RunningIn, Running
  <2>4. SlotsFit(Tail(q), activeTtsJobs, left)
    BY <1>1, <2>2, <2>3 DEF SlotsFit
  <2>5. /\ left \in [Segments -> Stages] /\ left[h] = "skipped"
        /\ \A r \in Segments \ {h} : left[r] = stages[r]
    BY <1>2, <2>1, <2>2
  <2>6. ChainFits(ttsEmitChain, previous, left)
    <3>1. "queued" \in Untouched
      BY DEF Untouched
    <3> QED
      <4>1. \A r \in Segments : \/ left[r] = stages[r]
                                \/ stages[r] \in Untouched /\ left[r] = "skipped"
        BY <2>1, <2>2, <2>5, <3>1
      <4> QED
        BY <1>1, <1>2, <2>5, <4>1, UntouchedKeepsChain
  <2>7. \A r \in Segments : left[r] = "queued" => r \in current /\ mode \in DubbingModes
    BY <1>4, <2>5
  <2>8. Tail(q) # <<>> => activeTtsJobs >= Concurrency - 1 \/ Tail(Tail(q)) = <<>>
    BY <1>6, <1>7
  <2>9. /\ PumpTtsQueue(Tail(q), activeTtsJobs, left, current)
        /\ subtitlePending' = [subtitlePending EXCEPT ![s] = TRUE, ![h] = FALSE]
        /\ subtitles' = IF mode \in SubtitleModes /\ h \in current
                        THEN [subtitles EXCEPT ![h] = @ + 1] ELSE subtitles
    BY <1>10 DEF EnqueueTts
  <2>10. /\ SlotsFit(ttsQueue', activeTtsJobs', stage')
         /\ ChainFits(ttsEmitChain', previous', stage')
         /\ isActive /\ ttsQueue' # <<>> => activeTtsJobs' = Concurrency
         /\ activeTtsJobs' <= Concurrency
         /\ Pumped(left)
         /\ \A r \in Segments : left[r] # "queued" => previous'[r] = previous[r]
    <3> DEFINE rest == Tail(q)
    <3>1. /\ SlotsFit(rest, activeTtsJobs, left)
          /\ rest # <<>> => activeTtsJobs >= Concurrency - 1 \/ Tail(rest) = <<>>
          /\ PumpTtsQueue(rest, activeTtsJobs, left, current)
      BY <2>4, <2>8, <2>9
    <3> HIDE DEF rest, left, current
    <3> QED
      BY <1>5, <2>6, <2>7, <3>1, PumpKeeps
  <2>11. stage'[h] = "skipped"
    BY <2>2, <2>5, <2>10 DEF Pumped
  <2>12. /\ ~subtitlePending'[h] /\ subtitlePending' \in [Segments -> BOOLEAN]
         /\ h # s => subtitlePending'[s]
         /\ \A r \in Segments \ {s, h} : subtitlePending'[r] = subtitlePending[r]
    BY <1>2, <2>2, <2>9
  <2>13. /\ subtitles' \in [Segments -> Nat]
         /\ subtitles'[h] = subtitles[h] \/ (subtitles'[h] = subtitles[h] + 1 /\ h \in current)
         /\ \A r \in Segments \ {h} : subtitles'[r] = subtitles[r]
    <3>1. \/ subtitles' = [subtitles EXCEPT ![h] = @ + 1] /\ h \in current
          \/ subtitles' = subtitles
      BY <2>9
    <3> QED
      BY <1>2, <2>2, <3>1
  <2>14. ASSUME NEW r \in Segments \ {s} PROVE Undisturbed(r) \/ GaveWay(r)
    <3>1. CASE r = h
      BY <1>3, <2>2, <2>11, <2>12, <2>13, <3>1 DEF GaveWay, CurrentJobs
    <3>2. CASE r # h
      BY <1>3, <2>5, <2>10, <2>12, <2>13, <3>2 DEF Undisturbed, Pumped
    <3> QED
      BY <3>1, <3>2
  <2>15. Arrived(s)
    <3>1. CASE s = h
      BY <2>11, <2>12, <2>13, <3>1 DEF Arrived
    <3>2. CASE s # h
      BY <1>3, <2>5, <2>10, <2>12, <2>13, <3>2 DEF Arrived, Pumped
    <3> QED
      BY <3>1, <3>2
  <2>16. \A r \in Segments : stage[r] \in Started => previous'[r] = previous[r]
    BY <1>3, <1>8, <2>5, <2>10
  <2> QED
    BY <2>10, <2>12, <2>13, <2>14, <2>15, <2>16 DEF PublishFrame
<1> QED
  BY <1>9, <1>10

(* A translated sentence is voiced, or its subtitle is sent at once.        *)
LEMMA PublishTranslationFrame ==
  ASSUME StageInv, NEW s \in Segments, PublishTranslation(s, generation, sttStreamToken)
  PROVE  /\ PublishFrame(s) /\ isActive /\ stage[s] = "unborn"
         /\ \A r \in Segments : r > s => stage[r] = "unborn"
         /\ jobGeneration' = [jobGeneration EXCEPT ![s] = generation]
         /\ jobToken' = [jobToken EXCEPT ![s] = sttStreamToken]
         /\ UNCHANGED <<clock, mode, streaming, voice, streams>>
<1> USE DEF StageInv
<1>1. /\ isActive /\ stage[s] = "unborn"
      /\ \A r \in Segments : r > s => stage[r] = "unborn"
      /\ jobGeneration' = [jobGeneration EXCEPT ![s] = generation]
      /\ jobToken' = [jobToken EXCEPT ![s] = sttStreamToken]
      /\ UNCHANGED <<clock, mode, streaming, voice, streams>>
  BY DEF PublishTranslation
<1>2. CASE mode \in DubbingModes
  <2>1. EnqueueTts(s)
    BY <1>2 DEF PublishTranslation
  <2> QED
    BY <1>1, <1>2, <2>1, EnqueueFrame
<1>3. CASE mode \notin DubbingModes
  <2>1. /\ stage' = [stage EXCEPT ![s] = "skipped"]
        /\ subtitles' = [subtitles EXCEPT ![s] = @ + 1]
        /\ UNCHANGED <<ttsQueue, activeTtsJobs, ttsEmitChain, previous, subtitlePending>>
    BY <1>3 DEF PublishTranslation
  <2>2. /\ stage \in [Segments -> Stages] /\ "skipped" \in Stages
        /\ "skipped" \in Untouched /\ "unborn" \in Untouched
        /\ subtitlePending \in [Segments -> BOOLEAN] /\ subtitles \in [Segments -> Nat]
    BY DEF TypeOK, Stages, Untouched
  <2>3. /\ stage' \in [Segments -> Stages] /\ stage'[s] = "skipped"
        /\ \A r \in Segments \ {s} : stage'[r] = stage[r]
    BY <2>1, <2>2
  <2>4. RunningIn(stage') = RunningIn(stage)
    BY <1>1, <2>3 DEF RunningIn, Running
  <2>5. \A i \in DOMAIN ttsQueue : ttsQueue[i] \in Segments
    BY ElementOfSeq, LenProperties DEF TypeOK
  <2>6. SlotsFit(ttsQueue', activeTtsJobs', stage')
    BY <1>1, <2>1, <2>3, <2>4, <2>5 DEF SlotsFit
  <2>7. ChainFits(ttsEmitChain', previous', stage')
    BY <1>1, <2>1, <2>2, <2>3, UntouchedKeepsChain
  <2>8. ~subtitlePending[s] /\ subtitles'[s] = subtitles[s] + 1 /\ subtitles' \in [Segments -> Nat]
        /\ \A r \in Segments \ {s} : subtitles'[r] = subtitles[r]
    BY <1>1, <2>1, <2>2 DEF SubtitleBooked
  <2>9. \A r \in Segments \ {s} : Undisturbed(r)
    BY <2>1, <2>3, <2>8 DEF Undisturbed
  <2>10. Arrived(s)
    BY <2>1, <2>3, <2>8 DEF Arrived
  <2> QED
    BY <1>1, <2>1, <2>2, <2>3, <2>6, <2>7, <2>8, <2>9, <2>10 DEF PublishFrame, TypeOK
<1> QED
  BY <1>2, <1>3

(* The voice that spoke last stays the last that may have spoken.           *)
LEMMA LastVoiceKept ==
  ASSUME StageInv,
         \A r \in Segments : stage[r] \in Started => stage'[r] \in Started,
         \A r \in Segments : stage'[r] \in Running => stage[r] \in Running \/ ttsEmitChain < r
  PROVE  LastVoiceFits(lastVoice, stage')
<1> USE DEF StageInv
<1>1. lastVoice # 0 => lastVoice \in Segments /\ stage[lastVoice] \in Started
  BY NonZeroIsSegment DEF TypeOK, LastVoiceFits
<1>2. ASSUME NEW t \in Segments, t < lastVoice, stage'[t] \in Running PROVE FALSE
  <2>1. stage[t] \notin Running
    BY <1>2 DEF LastVoiceFits
  <2>2. ttsEmitChain < t
    BY <1>2, <2>1
  <2>3. lastVoice # 0
    BY <1>2 DEF Segments
  <2>4. lastVoice <= ttsEmitChain
    BY <1>1, <2>3 DEF ChainFits
  <2> QED
    BY <1>2, <2>2, <2>4 DEF Segments, TypeOK
<1> QED
  BY <1>1, <1>2 DEF LastVoiceFits

(* Publishing a sentence preserves the invariant, and what is sent is       *)
(* current.                                                                 *)
LEMMA PublishKeeps ==
  ASSUME StageInv, NEW s \in Segments, PublishTranslation(s, generation, sttStreamToken)
  PROVE  /\ StageInv' /\ lastVoice' = lastVoice /\ chunks' = chunks
         /\ \A r \in Segments : Sent(r)' # Sent(r) => IsJobCurrent(r)'
<1> USE DEF StageInv
<1>1. /\ PublishFrame(s) /\ isActive /\ stage[s] = "unborn"
      /\ \A r \in Segments : r > s => stage[r] = "unborn"
      /\ jobGeneration' = [jobGeneration EXCEPT ![s] = generation]
      /\ jobToken' = [jobToken EXCEPT ![s] = sttStreamToken]
      /\ UNCHANGED <<clock, mode, streaming, voice, streams>>
  BY PublishTranslationFrame
<1>2. /\ UNCHANGED <<isActive, generation, sttStreamToken, streaming>>
      /\ UNCHANGED <<chunks, partFinals, lastVoice, released, heldParts>>
  BY <1>1 DEF clock, voice, streams
<1>3. jobGeneration' \in [Segments -> Nat] /\ jobToken' \in [Segments -> Nat]
  BY <1>1 DEF TypeOK
<1>4. /\ IsJobCurrent(s)'
      /\ \A r \in Segments \ {s} : IsJobCurrent(r)' <=> IsJobCurrent(r)
  BY <1>1, <1>2 DEF IsJobCurrent, TypeOK
<1>5. JobsNotAhead'
  BY <1>1, <1>2 DEF JobsNotAhead, TypeOK
<1>6. TypeOK'
  <2>1. activeTtsJobs' \in Int /\ stage' \in [Segments -> Stages] /\ ttsQueue' \in Seq(Segments)
    BY <1>1, RunningFinite DEF SlotsFit, PublishFrame
  <2>2. ttsEmitChain' \in 0..MaxSegments /\ previous' \in [Segments -> 0..MaxSegments]
    BY <1>1 DEF ChainFits, PublishFrame
  <2> QED
    BY <1>1, <1>2, <1>3, <2>1, <2>2 DEF TypeOK, PublishFrame
<1>7. \A r \in Segments \ {s} : Undisturbed(r) \/ GaveWay(r)
  BY <1>1 DEF PublishFrame
<1>8. QueuedJobsCurrent'
  <2>1. Arrived(s) /\ (stage'[s] = "queued" => mode \in DubbingModes)
    BY <1>1 DEF PublishFrame
  <2>2. stage'[s] # "quit"
    BY <2>1 DEF Arrived
  <2>3. /\ \A r \in Segments \ {s} : stage'[r] = "queued" => stage[r] = "queued"
        /\ \A r \in Segments \ {s} : stage'[r] # "quit"
    BY <1>7 DEF Undisturbed, GaveWay, QueuedJobsCurrent
  <2> QED
    BY <1>1, <1>4, <2>1, <2>2, <2>3 DEF QueuedJobsCurrent
<1>9. ASSUME NEW r \in Segments \ {s}
      PROVE  SubtitleBooked(r)' /\ VoiceBooked(r)' /\ (Sent(r)' # Sent(r) => IsJobCurrent(r)')
  <2>1. SubtitleBooked(r) /\ VoiceBooked(r) /\ (IsJobCurrent(r)' <=> IsJobCurrent(r))
    BY <1>4
  <2>2. released[r] => PreviousDone(r)'
    <3> SUFFICES ASSUME released[r], previous'[r] # 0 PROVE stage'[previous'[r]] = "done"
      BY DEF PreviousDone
    <3>1. stage[r] \in Started
      BY <2>1 DEF VoiceBooked, Untouched, Started, TypeOK, Stages
    <3>2. previous'[r] = previous[r] /\ previous[r] \in Segments
      <4>1. previous'[r] = previous[r] /\ previous[r] \in 0..MaxSegments
        BY <1>1, <3>1 DEF PublishFrame, TypeOK
      <4> QED
        BY <4>1, NonZeroIsSegment
    <3>3. stage[previous[r]] = "done" /\ previous[r] # s
      BY <1>1, <2>1, <3>2 DEF VoiceBooked, PreviousDone
    <3> QED
      BY <1>7, <3>2, <3>3 DEF Undisturbed, GaveWay
  <2>3. CASE Undisturbed(r)
    BY <1>2, <2>1, <2>2, <2>3
    DEF Undisturbed, SubtitleBooked, VoiceBooked, Running, Untouched, Sent
  <2>4. CASE GaveWay(r)
    <3>1. /\ stage[r] = "queued" /\ stage'[r] = "skipped" /\ ~subtitlePending'[r]
          /\ subtitles'[r] = subtitles[r] \/ (subtitles'[r] = subtitles[r] + 1 /\ IsJobCurrent(r))
      BY <2>4 DEF GaveWay
    <3>2. /\ subtitles[r] = 0 /\ chunks[r] = 0 /\ ~released[r] /\ partFinals[r] = 0
      <4>1. stage[r] \in Untouched
        BY <3>1 DEF Untouched
      <4> QED
        <5>1. subtitles[r] = 0
          BY <2>1, <3>1 DEF SubtitleBooked
        <5>2. chunks[r] = 0 /\ ~released[r]
          BY <2>1, <4>1 DEF VoiceBooked
        <5>3. partFinals[r] = 0
          <6>1. partFinals[r] \in Nat /\ stage[r] # "done"
            BY <3>1 DEF TypeOK
          <6> QED
            BY <2>1, <6>1 DEF VoiceBooked
        <5> QED
          BY <5>1, <5>2, <5>3
    <3>3. SubtitleBooked(r)'
      BY <3>1, <3>2 DEF SubtitleBooked
    <3>4. VoiceBooked(r)'
      BY <1>2, <3>1, <3>2 DEF VoiceBooked
    <3> QED
      BY <1>2, <2>1, <3>1, <3>3, <3>4 DEF Sent
  <2> QED
    BY <1>7, <2>3, <2>4
<1>10. SubtitleBooked(s)' /\ VoiceBooked(s)'
  <2>1. SubtitleBooked(s) /\ VoiceBooked(s) /\ chunks[s] = 0 /\ ~released[s] /\ partFinals[s] = 0
        /\ subtitles[s] = 0
    BY <1>1 DEF SubtitleBooked, VoiceBooked, Untouched, TypeOK
  <2>2. Arrived(s)
    BY <1>1 DEF PublishFrame
  <2>3. SubtitleBooked(s)'
    BY <1>2, <2>1, <2>2 DEF Arrived, SubtitleBooked, Running
  <2>4. stage'[s] \in {"queued", "skipped", "silent", IF streaming THEN "stream" ELSE "synth"}
    BY <2>2 DEF Arrived
  <2>5. VoiceBooked(s)'
    BY <1>1, <1>2, <2>1, <2>4 DEF VoiceBooked
  <2> QED
    BY <2>3, <2>5
<1>11. LastVoiceFits(lastVoice', stage')
  <2>1. \A r \in Segments : stage[r] \in Started => stage'[r] \in Started
    BY <1>1, <1>7 DEF Undisturbed, GaveWay, Started, Running
  <2>2. ttsEmitChain < s
    BY <1>1, NewestComesLast
  <2>3. \A r \in Segments \ {s} : stage'[r] \in Running => stage[r] \in Running \/ ttsEmitChain < r
    BY <1>7 DEF Undisturbed, GaveWay, Running, ChainFits
  <2> QED
    BY <1>2, <2>1, <2>2, <2>3, LastVoiceKept
<1> QED
  BY <1>1, <1>2, <1>4, <1>5, <1>6, <1>8, <1>9, <1>10, <1>11 DEF PublishFrame

-----------------------------------------------------------------------------
(* The queue is emptied; the jobs that run are left alone.                  *)
LEMMA DropQueueKeeps ==
  ASSUME StageInv, DropQueue
  PROVE  /\ SlotsFit(ttsQueue', activeTtsJobs', stage') /\ ttsQueue' = <<>>
         /\ ChainFits(ttsEmitChain', previous', stage')
         /\ LastVoiceFits(lastVoice, stage')
         /\ \A s \in Segments : /\ stage'[s] \notin {"queued", "quit"}
                                /\ stage'[s] = IF stage[s] = "queued" THEN "skipped" ELSE stage[s]
<1> USE DEF StageInv
<1>1. /\ stage' = [s \in Segments |-> IF stage[s] = "queued" THEN "skipped" ELSE stage[s]]
      /\ ttsQueue' = <<>> /\ UNCHANGED <<activeTtsJobs, ttsEmitChain, previous>>
  BY DEF DropQueue
<1>2. /\ stage \in [Segments -> Stages] /\ "skipped" \in Stages
      /\ "skipped" \in Untouched /\ "queued" \in Untouched
  BY DEF TypeOK, Stages, Untouched
<1>3. /\ stage' \in [Segments -> Stages]
      /\ \A s \in Segments : stage'[s] = IF stage[s] = "queued" THEN "skipped" ELSE stage[s]
  BY <1>1, <1>2
<1>4. \A s \in Segments : stage'[s] \notin {"queued", "quit"}
  BY <1>3 DEF QueuedJobsCurrent
<1>5. RunningIn(stage') = RunningIn(stage)
  BY <1>3 DEF RunningIn, Running
<1>6. ttsQueue' \in Seq(Segments) /\ DOMAIN ttsQueue' = {}
  BY <1>1, EmptySeq, LenProperties
<1>7. SlotsFit(ttsQueue', activeTtsJobs', stage')
  BY <1>1, <1>3, <1>4, <1>5, <1>6 DEF SlotsFit
<1>8. ChainFits(ttsEmitChain', previous', stage')
  BY <1>1, <1>2, <1>3, UntouchedKeepsChain
<1>9. LastVoiceFits(lastVoice, stage')
  BY <1>3, LastVoiceKept DEF Started, Running
<1> QED
  BY <1>1, <1>3, <1>4, <1>7, <1>8, <1>9

(* A seek and a stop make every job stale: generations only grow.           *)
LEMMA ResetKeeps ==
  ASSUME StageInv, DropQueue, isActive' \in BOOLEAN, generation' = generation + 1,
         sttStreamToken' \in Nat, sttStreamToken' >= sttStreamToken,
         UNCHANGED <<mode, jobs, texts, voice, streams>>
  PROVE  StageInv'
<1> USE DEF StageInv
<1>1. UNCHANGED <<streaming, jobGeneration, jobToken, subtitlePending, subtitles, chunks,
                  partFinals, lastVoice, released, heldParts>>
  BY DEF jobs, texts, voice, streams
<1>2. /\ SlotsFit(ttsQueue', activeTtsJobs', stage') /\ ttsQueue' = <<>>
      /\ ChainFits(ttsEmitChain', previous', stage')
      /\ LastVoiceFits(lastVoice, stage')
  BY DropQueueKeeps
<1>3. \A s \in Segments : /\ stage'[s] \notin {"queued", "quit"}
                          /\ stage'[s] = IF stage[s] = "queued" THEN "skipped" ELSE stage[s]
  BY DropQueueKeeps
<1>4. UNCHANGED <<activeTtsJobs, ttsEmitChain, previous>>
  BY DEF DropQueue
<1>5. TypeOK'
  BY <1>1, <1>2, <1>4 DEF TypeOK, SlotsFit
<1>6. \A s \in Segments : ~IsJobCurrent(s)'
  BY <1>1 DEF IsJobCurrent, JobsNotAhead, TypeOK
<1>7. JobsNotAhead'
  BY <1>1 DEF JobsNotAhead, TypeOK
<1>8. QueuedJobsCurrent'
  BY <1>3 DEF QueuedJobsCurrent
<1>9. ASSUME NEW s \in Segments PROVE SubtitleBooked(s)' /\ VoiceBooked(s)'
  <2>1. SubtitleBooked(s) /\ VoiceBooked(s)
    OBVIOUS
  <2>2. SubtitleBooked(s)'
    BY <1>1, <1>3, <1>6, <2>1 DEF SubtitleBooked
  <2>3. released[s] => PreviousDone(s)'
    <3>1. previous[s] # 0 => previous[s] \in Segments
      BY NonZeroIsSegment DEF TypeOK
    <3> QED
      BY <1>3, <1>4, <2>1, <3>1 DEF VoiceBooked, PreviousDone
  <2>4. VoiceBooked(s)'
    BY <1>1, <1>3, <1>6, <2>1, <2>3 DEF VoiceBooked, Untouched
  <2> QED
    BY <2>2, <2>4
<1> QED
  BY <1>1, <1>2, <1>5, <1>7, <1>8, <1>9

(* A seek.                                                                  *)
LEMMA HandleSeekKeeps == StageInv /\ HandleSeek => StageInv'
<1> SUFFICES ASSUME StageInv, HandleSeek PROVE StageInv'
  OBVIOUS
<1>1. isActive' \in BOOLEAN /\ sttStreamToken' \in Nat /\ sttStreamToken' >= sttStreamToken
  BY DEF HandleSeek, StageInv, TypeOK
<1> QED
  BY <1>1, ResetKeeps DEF HandleSeek

(* The end of the session.                                                  *)
LEMMA StopKeeps == StageInv /\ Stop => StageInv'
<1> SUFFICES ASSUME StageInv, Stop PROVE StageInv'
  OBVIOUS
<1>1. isActive' \in BOOLEAN
  BY DEF Stop
<1>2. sttStreamToken' \in Nat /\ sttStreamToken' >= sttStreamToken
  BY DEF Stop, StageInv, TypeOK
<1> QED
  BY <1>1, <1>2, ResetKeeps DEF Stop

(* A change of mode keeps the voice, and hands over the subtitles of the    *)
(* jobs that will not be voiced.                                            *)
LEMMA SetModeKeeps ==
  ASSUME StageInv, NEW m \in Modes, SetMode(m)
  PROVE  /\ StageInv' /\ UNCHANGED <<clock, jobs, voice>>
         /\ \A s \in Segments : Sent(s)' # Sent(s) => IsJobCurrent(s)
<1> USE DEF StageInv
<1>1. mode' = m /\ UNCHANGED <<clock, jobs, voice, streams>>
  BY DEF SetMode
<1>2. UNCHANGED <<isActive, generation, sttStreamToken, streaming, jobGeneration, jobToken,
                  chunks, partFinals, lastVoice, released, heldParts>>
  BY <1>1 DEF clock, jobs, voice, streams
<1>3. \A s \in Segments : IsJobCurrent(s)' <=> IsJobCurrent(s)
  BY <1>2 DEF IsJobCurrent
<1>4. JobsNotAhead'
  BY <1>2 DEF JobsNotAhead
<1>5. CASE m = "subtitle_only"
  <2> DEFINE S == {s \in Range(ttsQueue) : subtitlePending[s]}
  <2>1. DropQueue /\ EmitSubtitle(S, m)
    BY <1>5 DEF SetMode
  <2>2. /\ SlotsFit(ttsQueue', activeTtsJobs', stage') /\ ttsQueue' = <<>>
        /\ ChainFits(ttsEmitChain', previous', stage')
        /\ LastVoiceFits(lastVoice, stage')
    BY <2>1, DropQueueKeeps
  <2>3. \A s \in Segments : /\ stage'[s] \notin {"queued", "quit"}
                            /\ stage'[s] = IF stage[s] = "queued" THEN "skipped" ELSE stage[s]
    BY <2>1, DropQueueKeeps
  <2>4. UNCHANGED <<activeTtsJobs, ttsEmitChain, previous>>
    BY <2>1 DEF DropQueue
  <2>5. \A s \in Segments : s \in S <=> stage[s] = "queued" /\ subtitlePending[s]
    <3>1. \A s \in Segments : stage[s] = "queued" <=> \E i \in DOMAIN ttsQueue : ttsQueue[i] = s
      BY DEF SlotsFit
    <3>2. Range(ttsQueue) = {ttsQueue[i] : i \in DOMAIN ttsQueue}
      BY DEF Range
    <3> QED
      BY <3>1, <3>2
  <2>6. /\ subtitlePending \in [Segments -> BOOLEAN] /\ subtitles \in [Segments -> Nat]
    BY DEF TypeOK
  <2>7. /\ subtitlePending' \in [Segments -> BOOLEAN] /\ subtitles' \in [Segments -> Nat]
        /\ \A s \in Segments : subtitlePending'[s] <=> subtitlePending[s] /\ s \notin S
        /\ \A s \in Segments : subtitles'[s] = subtitles[s]
             \/ (s \in S /\ subtitles'[s] = subtitles[s] + 1 /\ IsJobCurrent(s))
    <3>1. /\ subtitlePending' = [s \in Segments |-> subtitlePending[s] /\ s \notin S]
          /\ subtitles' = [s \in Segments |->
               IF s \in S /\ m \in SubtitleModes /\ IsJobCurrent(s)
               THEN subtitles[s] + 1 ELSE subtitles[s]]
      BY <2>1 DEF EmitSubtitle
    <3> HIDE DEF S
    <3>2. subtitlePending' \in [Segments -> BOOLEAN]
      BY <3>1
    <3>3. \A s \in Segments : subtitlePending'[s] <=> subtitlePending[s] /\ s \notin S
      BY <3>1, Zenon
    <3>4. subtitles' \in [Segments -> Nat]
      BY <2>6, <3>1
    <3>5. \A s \in Segments : subtitles'[s] = subtitles[s]
             \/ (s \in S /\ subtitles'[s] = subtitles[s] + 1 /\ IsJobCurrent(s))
      BY <3>1
    <3> QED
      BY <3>2, <3>3, <3>4, <3>5
  <2>8. TypeOK'
    BY <1>1, <1>2, <2>2, <2>4, <2>7 DEF TypeOK, SlotsFit
  <2>9. QueuedJobsCurrent'
    BY <2>3 DEF QueuedJobsCurrent
  <2>10. ASSUME NEW s \in Segments
         PROVE  SubtitleBooked(s)' /\ VoiceBooked(s)' /\ (Sent(s)' # Sent(s) => IsJobCurrent(s))
    <3>1. SubtitleBooked(s) /\ VoiceBooked(s)
      OBVIOUS
    <3>2. /\ s \in S <=> stage[s] = "queued" /\ subtitlePending[s]
          /\ subtitlePending'[s] <=> subtitlePending[s] /\ s \notin S
          /\ \/ subtitles'[s] = subtitles[s]
             \/ s \in S /\ subtitles'[s] = subtitles[s] + 1 /\ IsJobCurrent(s)
      BY <2>5, <2>7
    <3>3. /\ stage'[s] \notin {"queued", "quit"}
          /\ stage'[s] = IF stage[s] = "queued" THEN "skipped" ELSE stage[s]
      BY <2>3
    <3> HIDE DEF S
    <3>4. SubtitleBooked(s)'
      BY <1>2, <1>3, <2>6, <3>1, <3>2, <3>3 DEF SubtitleBooked, Running
    <3>5. released[s] => PreviousDone(s)'
      <4>1. previous[s] # 0 => previous[s] \in Segments
        BY NonZeroIsSegment DEF TypeOK
      <4> QED
        BY <2>3, <2>4, <3>1, <4>1 DEF VoiceBooked, PreviousDone
    <3>6. VoiceBooked(s)'
      BY <1>2, <1>3, <3>1, <3>3, <3>5 DEF VoiceBooked, Untouched
    <3>7. Sent(s)' # Sent(s) => IsJobCurrent(s)
      BY <1>2, <3>2 DEF Sent
    <3> QED
      BY <3>4, <3>6, <3>7
  <2> QED
    BY <1>1, <1>2, <1>4, <2>2, <2>8, <2>9, <2>10
<1>6. CASE m # "subtitle_only"
  <2>1. UNCHANGED <<queueing, texts>>
    BY <1>6 DEF SetMode
  <2>2. UNCHANGED <<ttsQueue, activeTtsJobs, ttsEmitChain, stage, previous, subtitlePending, subtitles>>
    BY <2>1 DEF queueing, texts
  <2>3. m \in DubbingModes
    BY <1>6 DEF Modes, DubbingModes
  <2>4. TypeOK'
    BY <1>1, <1>2, <2>2 DEF TypeOK
  <2>5. QueuedJobsCurrent'
    BY <1>1, <1>3, <2>2, <2>3 DEF QueuedJobsCurrent
  <2>6. \A s \in Segments : SubtitleBooked(s)' /\ VoiceBooked(s)' /\ Sent(s)' = Sent(s)
    BY <1>2, <1>3, <2>2 DEF SubtitleBooked, VoiceBooked, PreviousDone, Sent
  <2> QED
    BY <1>1, <1>2, <1>4, <2>2, <2>4, <2>5, <2>6
<1> QED
  BY <1>5, <1>6

-----------------------------------------------------------------------------
LEMMA StageInit == Init => StageInv
<1> SUFFICES ASSUME Init PROVE StageInv
  OBVIOUS
<1> USE DEF Init
<1>1. "unborn" \in Stages /\ "unborn" \in Untouched /\ "unborn" \notin Started \union {"queued", "quit"}
  BY DEF Stages, Untouched, Started, Running
<1>2. RunningIn(stage) = {}
  BY DEF RunningIn, Running
<1>3. Cardinality(RunningIn(stage)) = 0
  BY <1>2, FS_EmptySet
<1>4. ttsQueue \in Seq(Segments) /\ DOMAIN ttsQueue = {}
  BY EmptySeq, LenProperties
<1>5. TypeOK
  BY <1>1, <1>4, TtsAssumption DEF TypeOK
<1>6. SlotsFit(ttsQueue, activeTtsJobs, stage)
  BY <1>1, <1>3, <1>4 DEF SlotsFit
<1>7. ChainFits(ttsEmitChain, previous, stage)
  BY <1>1, <1>5 DEF ChainFits, TypeOK, Started
<1>8. QueuedJobsCurrent /\ JobsNotAhead
  BY <1>1 DEF QueuedJobsCurrent, JobsNotAhead
<1>9. \A s \in Segments : SubtitleBooked(s) /\ VoiceBooked(s)
  BY <1>1 DEF SubtitleBooked, VoiceBooked, Running
<1>10. LastVoiceFits(lastVoice, stage)
  BY <1>1 DEF LastVoiceFits, Started
<1> QED
  BY <1>5, <1>6, <1>7, <1>8, <1>9, <1>10 DEF StageInv

(* Every step of the voice half preserves the invariant.                    *)
LEMMA StageStep == StageInv /\ [Next]_vars => StageInv'
<1> SUFFICES ASSUME StageInv, [Next]_vars PROVE StageInv'
  OBVIOUS
<1>1. CASE \E s \in Segments : PublishTranslation(s, generation, sttStreamToken)
  BY <1>1, PublishKeeps
<1>2. CASE \E s \in Segments : JobStep(s)
  BY <1>2, JobStepFrame, JobFrameKeeps
<1>3. CASE HandleSeek
  BY <1>3, HandleSeekKeeps
<1>4. CASE Stop
  BY <1>4, StopKeeps
<1>5. CASE \E m \in Modes : SetMode(m)
  BY <1>5, SetModeKeeps
<1>6. CASE UNCHANGED vars
  <2>1. UNCHANGED <<isActive, generation, sttStreamToken, mode, streaming, ttsQueue, activeTtsJobs,
                    ttsEmitChain, stage, jobGeneration, jobToken, subtitlePending, previous,
                    released, heldParts, subtitles, chunks, partFinals, lastVoice>>
    BY <1>6 DEF vars, clock, ttsVars, queueing, jobs, texts, voice, streams
  <2>2. \A s \in Segments : (IsJobCurrent(s)' <=> IsJobCurrent(s)) /\ PreviousDone(s)' = PreviousDone(s)
    BY <2>1 DEF IsJobCurrent, PreviousDone
  <2>3. TypeOK' /\ QueuedJobsCurrent' /\ JobsNotAhead'
    BY <2>1, <2>2 DEF StageInv, TypeOK, QueuedJobsCurrent, JobsNotAhead
  <2>4. \A s \in Segments : SubtitleBooked(s)' /\ VoiceBooked(s)'
    BY <2>1, <2>2 DEF StageInv, SubtitleBooked, VoiceBooked
  <2> QED
    BY <2>1, <2>3, <2>4 DEF StageInv
<1> QED
  BY <1>1, <1>2, <1>3, <1>4, <1>5, <1>6 DEF Next

(* The invariant holds throughout a session.                                *)
LEMMA StageAlways == Spec => []StageInv
BY StageInit, StageStep, PTL DEF Spec

-----------------------------------------------------------------------------
(* No wake-up of the voice queue is lost: a job waits only while every slot *)
(* is in use, the slots in use are those of the running jobs, and each of   *)
(* them waits for an older one that runs or has settled.  pumpTtsQueue is   *)
(* called wherever a job arrives or ends.                                   *)
THEOREM SlotsNeverIdle == Spec => []WorkConserving
<1>1. StageInv => WorkConserving
  <2> SUFFICES ASSUME StageInv PROVE WorkConserving
    OBVIOUS
  <2>1. activeTtsJobs = Cardinality({s \in Segments : stage[s] \in Running})
    BY DEF StageInv, SlotsFit, RunningIn
  <2>2. ASSUME NEW s \in Segments, stage[s] \in Running, previous[s] # 0
        PROVE  previous[s] < s /\ stage[previous[s]] \in Running \union {"done"}
    BY <2>2 DEF StageInv, ChainFits, Started
  <2> QED
    BY <2>1, <2>2 DEF StageInv, WorkConserving
<1> QED
  BY <1>1, StageAlways, PTL

(* The subtitle of a sentence is sent at most once and never lost while the *)
(* sentence is current, wherever in the job's life a mode change, an engine *)
(* error or a full queue strikes.                                           *)
THEOREM SubtitleSentOnce == Spec => []SubtitleOnce
<1>1. StageInv => SubtitleOnce
  BY DEF StageInv, SubtitleBooked, SubtitleOnce
<1> QED
  BY <1>1, StageAlways, PTL

(* A streamed voice is closed by exactly one partFinal when its job ends.   *)
THEOREM StreamClosedOnce == Spec => []StreamedVoiceClosed
<1>1. StageInv => StreamedVoiceClosed
  BY DEF StageInv, VoiceBooked, StreamedVoiceClosed
<1> QED
  BY <1>1, StageAlways, PTL

(* The chain of promises does its work: audio never follows audio of a      *)
(* later sentence, and nothing follows the end of a voice.                  *)
THEOREM VoiceNeverGoesBack == Spec => VoiceInOrder
<1> DEFINE InOrder ==
      /\ lastVoice' >= lastVoice
      /\ \A s \in Segments : partFinals[s] > 0 => chunks'[s] = chunks[s]
<1>1. ASSUME StageInv, NEW s \in Segments, JobFrame(s) PROVE InOrder
  <2>1. lastVoice' >= lastVoice
    BY <1>1 DEF JobFrame, StageInv, LastVoiceFits, TypeOK, Segments
  <2>2. partFinals[s] = 0
    <3>1. VoiceBooked(s) /\ partFinals[s] \in Nat
      BY <1>1 DEF StageInv, TypeOK
    <3> QED
      BY <1>1, <3>1 DEF JobFrame, VoiceBooked, Running
  <2> QED
    BY <1>1, <2>1, <2>2 DEF JobFrame
<1>2. ASSUME StageInv, UNCHANGED voice PROVE InOrder
  BY <1>2 DEF voice, StageInv, TypeOK
<1>3. StageInv /\ [Next]_vars => [InOrder]_vars
  <2> SUFFICES ASSUME StageInv, Next PROVE InOrder
    OBVIOUS
  <2>1. CASE \E s \in Segments : PublishTranslation(s, generation, sttStreamToken)
    <3>1. lastVoice' = lastVoice /\ chunks' = chunks
      BY <2>1, PublishKeeps
    <3> QED
      BY <3>1 DEF StageInv, TypeOK
  <2>2. CASE \E s \in Segments : JobStep(s)
    BY <2>2, JobStepFrame, <1>1
  <2>3. CASE HandleSeek \/ Stop \/ \E m \in Modes : SetMode(m)
    BY <2>3, <1>2 DEF HandleSeek, Stop, SetMode
  <2> QED
    BY <2>1, <2>2, <2>3 DEF Next
<1> QED
  BY <1>3, StageAlways, PTL DEF Spec, VoiceInOrder

(* Whatever is sent for a sentence belongs to the present generation and    *)
(* stream, although a seek or a stop may fall between any two steps of its  *)
(* job.                                                                     *)
THEOREM NothingStaleSent == Spec => OnlyCurrentSent
<1> DEFINE Fresh == \A s \in Segments : Sent(s)' # Sent(s) => IsJobCurrent(s)'
<1>1. ASSUME NEW s \in Segments, JobFrame(s) PROVE Fresh
  <2>1. \A r \in Segments : IsJobCurrent(r)' <=> IsJobCurrent(r)
    BY <1>1 DEF JobFrame, IsJobCurrent, clock, jobs
  <2> QED
    BY <1>1, <2>1 DEF JobFrame, Sent
<1>2. ASSUME StageInv, NEW m \in Modes, SetMode(m) PROVE Fresh
  BY <1>2, SetModeKeeps DEF IsJobCurrent, clock, jobs
<1>3. ASSUME HandleSeek \/ Stop PROVE Fresh
  BY <1>3 DEF HandleSeek, Stop, texts, voice, Sent
<1>4. StageInv /\ [Next]_vars => [Fresh]_vars
  <2> SUFFICES ASSUME StageInv, Next PROVE Fresh
    OBVIOUS
  <2> QED
    BY PublishKeeps, JobStepFrame, <1>1, <1>2, <1>3 DEF Next
<1> QED
  BY <1>4, StageAlways, PTL DEF Spec, OnlyCurrentSent
=============================================================================
