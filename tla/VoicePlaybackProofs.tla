------------------------- MODULE VoicePlaybackProofs -------------------------
(***************************************************************************)
(* Proofs about VoicePlayback: voices are heard one at a time and in order, *)
(* the dubbing never lags further than its limit, and a subtitle comes with *)
(* its voice, once.                                                         *)
(***************************************************************************)
EXTENDS VoicePlayback, SequenceTheorems, TLAPS

(* The sources pl of the mixer fill a backlog b, v being the last segment   *)
(* whose voice was sent.                                                    *)
Voices(pl, b, v) ==
  /\ \A p \in pl : p.from < p.upto /\ p.upto <= b
  /\ \A p, q \in pl : p # q => p.upto <= q.from \/ q.upto <= p.from
  /\ streaming => \A p \in pl : p.segment <= v
  /\ streaming => \A p, q \in pl : p.upto <= q.from => p.segment <= q.segment

(* A voice was let in when the backlog was no longer than the limit, and    *)
(* only the newest voice still grows.                                       *)
Growing(opened, b, v, n) ==
  \A o \in opened :
    /\ o.segment <= v
    /\ o.segment = v /\ ~o.dropped => b <= MaxBacklog + n * MaxLength

Lag ==
  /\ BacklogBounded
  /\ IF streaming THEN decoding = {} ELSE open = {}
  /\ Growing(open, backlog, voicing, part)

(* A subtitle that waits has a source that starts with it.                  *)
Timed(waiting, pl) ==
  \A w \in waiting : w.left > 0 => \E p \in pl : p.segment = w.segment /\ p.from = w.left

(* The sentences of a queue of cues, none of them in two cues.              *)
In(queue) == UNION {ToSet(queue[i]) : i \in DOMAIN queue}
Apart(queue) ==
  \A i, k \in DOMAIN queue : i # k => ToSet(queue[i]) \cap ToSet(queue[k]) = {}

(* Sentences that wait for a voice, or do not, and were not shown yet.      *)
Unseen(scr, st, s, synced) ==
  s <= Len(st) /\ st[s].synced = synced /\ scr.shown[s] = 0

(* A sentence is in one place of the screen, and in no place once shown.    *)
InOnePlace(scr, st) ==
  /\ \A s \in Segments : scr.shown[s] <= 1
  /\ \A s \in Segments : s > Len(st) => scr.shown[s] = 0
  /\ \A h \in scr.held : Unseen(scr, st, h.segment, TRUE)
  /\ \A w \in scr.waiting : Unseen(scr, st, w.segment, TRUE)
  /\ \A w \in scr.waiting, h \in scr.held : w.segment # h.segment
  /\ \A w, x \in scr.waiting : w.segment = x.segment => w = x
  /\ \A s \in In(scr.queue) : Unseen(scr, st, s, FALSE)
  /\ Apart(scr.queue)

(* Each seek is a stop.                                                     *)
SeeksAreStops == generation <= stops + 1

VoiceInv ==
  /\ TypeOK /\ SeeksAreStops /\ Voices(playing, backlog, voicing) /\ Lag
  /\ Timed(screen.waiting, playing) /\ InOnePlace(screen, sent)
-----------------------------------------------------------------------------
(* Queues of cues.                                                          *)
Cues == Seq(Seq(Segments))

LEMMA InSplit ==
  ASSUME NEW q, NEW s
  PROVE  s \in In(q) <=> \E i \in DOMAIN q : s \in ToSet(q[i])
BY DEF In

LEMMA Single ==
  ASSUME NEW s
  PROVE  ToSet(<<s>>) = {s}
BY DEF ToSet

LEMMA Joined ==
  ASSUME NEW a \in Seq(Segments), NEW b \in Seq(Segments)
  PROVE  /\ a \o b \in Seq(Segments)
         /\ ToSet(a \o b) = ToSet(a) \union ToSet(b)
<1>1. a \o b \in Seq(Segments) /\ Len(a \o b) = Len(a) + Len(b)
  OBVIOUS
<1>2. \A i \in 1..Len(a) : (a \o b)[i] = a[i]
  OBVIOUS
<1>3. \A i \in 1..Len(b) : (a \o b)[Len(a) + i] = b[i]
  OBVIOUS
<1>4. ASSUME NEW i \in DOMAIN (a \o b)
      PROVE  (a \o b)[i] \in ToSet(a) \union ToSet(b)
  <2>1. CASE i <= Len(a)
    BY <1>1, <1>2, <2>1 DEF ToSet
  <2>2. CASE i > Len(a)
    <3>1. i - Len(a) \in 1..Len(b) /\ i = Len(a) + (i - Len(a))
      BY <1>1, <2>2
    <3>2. (a \o b)[i] = b[i - Len(a)]
      BY <1>3, <3>1
    <3> QED BY <3>1, <3>2 DEF ToSet
  <2> QED BY <1>1, <2>1, <2>2
<1>5. ToSet(a) \subseteq ToSet(a \o b)
  <2>1. \A i \in 1..Len(a) : i \in 1..Len(a \o b)
    BY <1>1
  <2> QED BY <1>1, <1>2, <2>1 DEF ToSet
<1>6. ToSet(b) \subseteq ToSet(a \o b)
  <2>1. \A i \in 1..Len(b) : Len(a) + i \in 1..Len(a \o b)
    BY <1>1
  <2>2. \A x \in ToSet(b) : \E i \in 1..Len(b) : x = b[i]
    BY DEF ToSet
  <2> QED BY <1>1, <1>3, <2>1, <2>2 DEF ToSet
<1> QED BY <1>1, <1>4, <1>5, <1>6 DEF ToSet

LEMMA QueueAppended ==
  ASSUME NEW q \in Cues, NEW s \in Segments, Apart(q), s \notin In(q)
  PROVE  /\ Append(q, <<s>>) \in Cues
         /\ Apart(Append(q, <<s>>))
         /\ In(Append(q, <<s>>)) = In(q) \union {s}
<1> DEFINE r == Append(q, <<s>>)
<1>1. r \in Cues /\ Len(r) = Len(q) + 1
  BY DEF Cues
<1>2. (\A i \in 1..Len(q) : r[i] = q[i]) /\ r[Len(q) + 1] = <<s>>
  BY DEF Cues
<1>3. DOMAIN r = DOMAIN q \union {Len(q) + 1} /\ Len(q) + 1 \notin DOMAIN q
  BY <1>1 DEF Cues
<1>4. ToSet(r[Len(q) + 1]) = {s}
  BY <1>2, Single
<1>5. \A i \in DOMAIN q : ToSet(r[i]) = ToSet(q[i]) /\ s \notin ToSet(q[i])
  BY <1>2, InSplit DEF Cues
<1> HIDE DEF r
<1>6. Apart(r)
  BY <1>3, <1>4, <1>5 DEF Apart
<1>7. In(r) = In(q) \union {s}
  BY <1>3, <1>4, <1>5 DEF In
<1> QED BY <1>1, <1>6, <1>7 DEF r

LEMMA QueueTaken ==
  ASSUME NEW q \in Cues, q # <<>>, Apart(q)
  PROVE  /\ Head(q) \in Seq(Segments) /\ Tail(q) \in Cues
         /\ Apart(Tail(q))
         /\ In(q) = ToSet(Head(q)) \union In(Tail(q))
         /\ ToSet(Head(q)) \cap In(Tail(q)) = {}
<1> DEFINE r == Tail(q)
<1>1. Head(q) \in Seq(Segments) /\ Head(q) = q[1] /\ r \in Cues /\ Len(r) = Len(q) - 1
  BY DEF Cues
<1>2. \A i \in DOMAIN r : r[i] = q[i + 1]
  BY DEF Cues
<1>3. \A i \in DOMAIN r : i + 1 \in DOMAIN q /\ i + 1 # 1
  BY <1>1 DEF Cues
<1>4. \A i \in DOMAIN q : i = 1 \/ (i - 1 \in DOMAIN r /\ (i - 1) + 1 = i)
  BY <1>1 DEF Cues
<1>5. 1 \in DOMAIN q
  BY DEF Cues
<1> HIDE DEF r
<1>6. Apart(r)
  <2>1. \A i, k \in DOMAIN r : i # k => i + 1 # k + 1
    BY <1>1 DEF Cues
  <2> QED BY <1>2, <1>3, <2>1 DEF Apart
<1>7. ToSet(Head(q)) \cap In(r) = {}
  BY <1>1, <1>2, <1>3, <1>5 DEF Apart, In
<1>8. In(q) \subseteq ToSet(Head(q)) \union In(r)
  <2>1. ASSUME NEW s \in In(q) PROVE s \in ToSet(Head(q)) \union In(r)
    <3>1. PICK i \in DOMAIN q : s \in ToSet(q[i])
      BY InSplit
    <3>2. CASE i = 1
      BY <1>1, <3>1, <3>2
    <3>3. CASE i # 1
      <4>1. i - 1 \in DOMAIN r /\ r[i - 1] = q[i]
        BY <1>2, <1>4, <3>3
      <4> QED BY <3>1, <4>1, InSplit
    <3> QED BY <3>2, <3>3
  <2> QED BY <2>1
<1>9. ToSet(Head(q)) \union In(r) \subseteq In(q)
  BY <1>1, <1>2, <1>3, <1>5 DEF In
<1> QED BY <1>1, <1>6, <1>7, <1>8, <1>9 DEF r

LEMMA QueueMerged ==
  ASSUME NEW q \in Cues, Apart(q)
  PROVE  /\ MergeOldest(q) \in Cues
         /\ Apart(MergeOldest(q))
         /\ In(MergeOldest(q)) = In(q)
<1>1. CASE Len(q) <= MaxQueued
  BY <1>1 DEF MergeOldest
<1>2. CASE Len(q) > MaxQueued
  <2> DEFINE rest == SubSeq(q, 3, Len(q))
             r == <<q[1] \o q[2]>> \o rest
  <2>0. MaxQueued \in Nat \ {0}
    BY VoiceAssumption
  <2>1. Len(q) \in Nat /\ Len(q) >= 2 /\ MergeOldest(q) = r
    BY <1>2, <2>0 DEF MergeOldest, Cues
  <2>2. q[1] \in Seq(Segments) /\ q[2] \in Seq(Segments) /\ 1 \in DOMAIN q /\ 2 \in DOMAIN q
    BY <2>1 DEF Cues
  <2>3. /\ q[1] \o q[2] \in Seq(Segments)
        /\ ToSet(q[1] \o q[2]) = ToSet(q[1]) \union ToSet(q[2])
    BY <2>2, Joined
  <2>4. rest \in Cues /\ Len(rest) = Len(q) - 2 /\ \A i \in 1..(Len(q) - 2) : rest[i] = q[i + 2]
    <3>1. \A i \in 3..Len(q) : q[i] \in Seq(Segments)
      BY <2>1 DEF Cues
    <3>2. /\ rest \in Seq(Seq(Segments))
          /\ Len(rest) = IF 3 <= Len(q) THEN Len(q) - 3 + 1 ELSE 0
          /\ \A i \in 1..(Len(q) - 3 + 1) : rest[i] = q[3 + i - 1]
      BY <2>1, <3>1, SubSeqProperties
    <3> HIDE DEF rest
    <3>3. PICK n \in Nat : n = Len(q) /\ n >= 2
      BY <2>1
    <3>4. Len(rest) = n - 2
      BY <3>2, <3>3
    <3>5. \A i \in 1..(n - 2) : i \in 1..(n - 3 + 1) /\ 3 + i - 1 = i + 2
      BY <3>3
    <3>6. \A i \in 1..(n - 2) : rest[i] = q[i + 2]
      BY <3>2, <3>3, <3>5
    <3> QED BY <3>2, <3>3, <3>4, <3>6 DEF Cues
  <2> HIDE DEF rest
  <2>5. r \in Cues /\ Len(r) = Len(q) - 1 /\ r[1] = q[1] \o q[2]
    <3>1. <<q[1] \o q[2]>> \in Cues /\ Len(<<q[1] \o q[2]>>) = 1
      BY <2>3 DEF Cues
    <3>2. r \in Seq(Seq(Segments)) /\ Len(r) = 1 + (Len(q) - 2)
      BY <2>4, <3>1, ConcatProperties DEF Cues
    <3>3. 1 \in 1..(Len(<<q[1] \o q[2]>>) + Len(rest)) /\ 1 <= Len(<<q[1] \o q[2]>>)
      BY <2>1, <2>4, <3>1
    <3>4. r[1] = <<q[1] \o q[2]>>[1]
      BY <2>4, <3>1, <3>3, ConcatProperties DEF Cues
    <3>5. 1 + (Len(q) - 2) = Len(q) - 1
      BY <2>1
    <3> HIDE DEF r
    <3> QED BY <3>2, <3>4, <3>5 DEF Cues
  <2>6. \A i \in 2..(Len(q) - 1) : r[i] = q[i + 1]
    <3>1. ASSUME NEW i \in 2..(Len(q) - 1) PROVE r[i] = rest[i - 1]
      BY <2>1, <2>3, <2>4 DEF Cues
    <3>2. ASSUME NEW i \in 2..(Len(q) - 1) PROVE rest[i - 1] = q[i + 1]
      <4>1. i - 1 \in 1..(Len(q) - 2) /\ (i - 1) + 2 = i + 1
        BY <2>1
      <4> QED BY <2>4, <4>1
    <3> QED BY <3>1, <3>2
  <2>7. DOMAIN r = 1..(Len(q) - 1) /\ DOMAIN q = 1..Len(q)
    BY <2>1, <2>5 DEF Cues
  <2> HIDE DEF r
  <2>8. \A i \in DOMAIN r : i = 1 \/ (i + 1 \in DOMAIN q /\ i + 1 # 1 /\ i + 1 # 2 /\ r[i] = q[i + 1])
    BY <2>1, <2>6, <2>7
  <2>9. Apart(r)
    <3> SUFFICES ASSUME NEW i \in DOMAIN r, NEW k \in DOMAIN r, i # k
                 PROVE  ToSet(r[i]) \cap ToSet(r[k]) = {}
      BY DEF Apart
    <3>1. CASE i = 1
      BY <2>2, <2>3, <2>5, <2>8, <3>1 DEF Apart
    <3>2. CASE k = 1
      BY <2>2, <2>3, <2>5, <2>8, <3>2 DEF Apart
    <3>3. CASE i # 1 /\ k # 1
      <4>1. i + 1 # k + 1
        BY <2>7
      <4> QED BY <2>8, <3>3, <4>1 DEF Apart
    <3> QED BY <3>1, <3>2, <3>3
  <2>10. In(r) \subseteq In(q)
    <3> SUFFICES ASSUME NEW s \in In(r) PROVE s \in In(q)
      OBVIOUS
    <3>1. PICK i \in DOMAIN r : s \in ToSet(r[i])
      BY InSplit
    <3>2. CASE i = 1
      BY <2>2, <2>3, <2>5, <3>1, <3>2, InSplit
    <3>3. CASE i # 1
      BY <2>8, <3>1, <3>3, InSplit
    <3> QED BY <3>2, <3>3
  <2>11. In(q) \subseteq In(r)
    <3> SUFFICES ASSUME NEW s \in In(q) PROVE s \in In(r)
      OBVIOUS
    <3>1. PICK i \in DOMAIN q : s \in ToSet(q[i])
      BY InSplit
    <3>2. CASE i = 1 \/ i = 2
      <4>1. 1 \in DOMAIN r /\ s \in ToSet(r[1])
        BY <2>1, <2>3, <2>5, <2>7, <3>1, <3>2
      <4> QED BY <4>1, InSplit
    <3>3. CASE i # 1 /\ i # 2
      <4>1. i - 1 \in 2..(Len(q) - 1) /\ (i - 1) + 1 = i
        BY <2>1, <2>7, <3>3
      <4>2. i - 1 \in DOMAIN r /\ r[i - 1] = q[i]
        BY <2>1, <2>6, <2>7, <4>1
      <4> QED BY <3>1, <4>2, InSplit
    <3> QED BY <3>2, <3>3
  <2> QED BY <2>1, <2>5, <2>9, <2>10, <2>11
<1> QED
  <2>1. Len(q) \in Nat /\ MaxQueued \in Nat
    BY VoiceAssumption DEF Cues
  <2> QED BY <1>1, <1>2, <2>1
-----------------------------------------------------------------------------
(* What the operations of the screen do to InOnePlace.                      *)
Sendings == Seq([generation : Nat, synced : BOOLEAN])

LEMMA Fewer ==
  ASSUME NEW st, NEW scr \in Screens, NEW new, InOnePlace(scr, st),
         new.shown = scr.shown, new.held \subseteq scr.held,
         new.waiting \subseteq scr.waiting, new.queue = scr.queue \/ new.queue = <<>>
  PROVE  InOnePlace(new, st)
<1>1. In(<<>>) = {} /\ Apart(<<>>)
  BY DEF In, Apart
<1>2. \A s \in In(new.queue) : s \in In(scr.queue)
  BY <1>1
<1>3. Apart(new.queue)
  BY <1>1 DEF InOnePlace
<1>4. \A s, synced : Unseen(new, st, s, synced) <=> Unseen(scr, st, s, synced)
  BY DEF Unseen
<1> QED BY <1>2, <1>3, <1>4 DEF InOnePlace

LEMMA Forgotten ==
  ASSUME NEW st, NEW scr \in Screens, NEW gone \in SUBSET Segments, InOnePlace(scr, st)
  PROVE  /\ Forget(scr, gone) \in Screens /\ InOnePlace(Forget(scr, gone), st)
         /\ Forget(scr, gone).held = scr.held /\ Forget(scr, gone).waiting = scr.waiting
<1> DEFINE new == Forget(scr, gone)
<1>1. new \in Screens
  BY DEF Forget, Screens
<1>2. /\ new.shown = scr.shown /\ new.held = scr.held /\ new.waiting = scr.waiting
      /\ new.queue = scr.queue
  BY DEF Forget, Screens
<1> HIDE DEF new
<1>3. InOnePlace(new, st)
  BY <1>1, <1>2, Fewer
<1> QED BY <1>1, <1>2, <1>3 DEF new

LEMMA Queued ==
  ASSUME NEW scr \in Screens
  PROVE  QueuedIn(scr) = In(scr.queue) /\ QueuedIn(scr) \subseteq Segments
<1>1. QueuedIn(scr) = In(scr.queue)
  BY DEF QueuedIn, In
<1>2. ASSUME NEW s \in In(scr.queue) PROVE s \in Segments
  <2>1. PICK i \in DOMAIN scr.queue : s \in ToSet(scr.queue[i])
    BY InSplit
  <2>2. scr.queue[i] \in Seq(Segments)
    BY DEF Screens
  <2> QED BY <2>1, <2>2 DEF ToSet
<1> QED BY <1>1, <1>2

LEMMA Displayed ==
  ASSUME NEW st \in Sendings, NEW scr \in Screens, NEW cue \in Seq(Segments), InOnePlace(scr, st),
         \A s \in ToSet(cue) : s <= Len(st) /\ scr.shown[s] = 0 /\ s \notin In(scr.queue),
         \A s \in ToSet(cue) : \A t \in scr.held \union scr.waiting : t.segment # s
  PROVE  /\ Display(scr, cue) \in Screens /\ InOnePlace(Display(scr, cue), st)
         /\ Display(scr, cue).held = scr.held /\ Display(scr, cue).waiting = scr.waiting
<1> DEFINE new == Display(scr, cue)
           seen == [s \in Segments |-> IF s \in ToSet(cue) THEN scr.shown[s] + 1 ELSE scr.shown[s]]
<1>1. ToSet(cue) \subseteq Segments
  BY DEF ToSet
<1>2. scr.shown \in [Segments -> Nat]
  BY DEF Screens
<1>3. seen \in [Segments -> Nat]
  BY <1>2
<1>4. new = [scr EXCEPT !.current = cue, !.shown = seen]
  BY <1>2 DEF Display, Screens
<1>5. \A s \in Segments : seen[s] = IF s \in ToSet(cue) THEN scr.shown[s] + 1 ELSE scr.shown[s]
  OBVIOUS
<1> HIDE DEF seen, new
<1>6. /\ new \in Screens /\ new.held = scr.held /\ new.waiting = scr.waiting
      /\ new.queue = scr.queue /\ new.shown = seen
  BY <1>3, <1>4 DEF Screens
<1>7. \A s \in Segments : seen[s] <= 1
  BY <1>2, <1>5 DEF InOnePlace
<1>8. \A s \in Segments : s > Len(st) => seen[s] = 0
  <2>1. ASSUME NEW s \in Segments, s > Len(st) PROVE seen[s] = 0
    <3>1. s \notin ToSet(cue)
      <4>1. Len(st) \in Nat /\ s \in Int
        BY DEF Sendings, Segments
      <4> QED BY <2>1, <4>1
    <3> QED BY <1>5, <2>1, <3>1 DEF InOnePlace
  <2> QED BY <2>1
<1>9. ASSUME NEW s \in Segments \ ToSet(cue), NEW synced, Unseen(scr, st, s, synced)
      PROVE  Unseen(new, st, s, synced)
  BY <1>5, <1>6, <1>9 DEF Unseen
<1>10. /\ \A t \in scr.held \union scr.waiting : t.segment \in Segments \ ToSet(cue)
       /\ In(scr.queue) \subseteq Segments \ ToSet(cue)
  <2>1. In(scr.queue) \subseteq Segments
    BY Queued
  <2>2. \A t \in scr.held \union scr.waiting : t.segment \in Segments
    BY DEF Screens
  <2> QED BY <2>1, <2>2
<1>11. InOnePlace(new, st)
  BY <1>6, <1>7, <1>8, <1>9, <1>10 DEF InOnePlace
<1> QED BY <1>6, <1>11 DEF new

LEMMA NextShown ==
  ASSUME NEW st \in Sendings, NEW scr \in Screens, InOnePlace(scr, st)
  PROVE  /\ ShowNext(scr) \in Screens /\ InOnePlace(ShowNext(scr), st)
         /\ ShowNext(scr).held = scr.held /\ ShowNext(scr).waiting = scr.waiting
<1>1. CASE scr.queue = <<>>
  <2> DEFINE new == [scr EXCEPT !.current = <<>>]
  <2>1. /\ new \in Screens /\ new.held = scr.held /\ new.waiting = scr.waiting
        /\ new.queue = scr.queue /\ new.shown = scr.shown /\ ShowNext(scr) = new
    <3>1. ShowNext(scr) = new
      BY <1>1 DEF ShowNext
    <3>2. <<>> \in Seq(Segments)
      OBVIOUS
    <3> QED BY <3>1, <3>2 DEF Screens
  <2> HIDE DEF new
  <2> QED BY <2>1, Fewer
<1>2. CASE scr.queue # <<>>
  <2> DEFINE taken == [scr EXCEPT !.queue = Tail(scr.queue)]
             cue == Head(scr.queue)
  <2>1. scr.queue \in Cues
    BY DEF Screens, Cues
  <2>2. /\ cue \in Seq(Segments) /\ Tail(scr.queue) \in Cues /\ Apart(Tail(scr.queue))
        /\ In(scr.queue) = ToSet(cue) \union In(Tail(scr.queue))
        /\ ToSet(cue) \cap In(Tail(scr.queue)) = {}
    BY <1>2, <2>1, QueueTaken DEF InOnePlace
  <2>3. /\ taken \in Screens /\ taken.held = scr.held /\ taken.waiting = scr.waiting
        /\ taken.queue = Tail(scr.queue) /\ taken.shown = scr.shown
    BY <2>2 DEF Screens, Cues
  <2>4. ShowNext(scr) = Display(taken, cue)
    BY <1>2 DEF ShowNext, Screens
  <2> HIDE DEF taken, cue
  <2>5. \A s, synced : Unseen(taken, st, s, synced) <=> Unseen(scr, st, s, synced)
    BY <2>3 DEF Unseen
  <2>6. InOnePlace(taken, st)
    BY <2>2, <2>3, <2>5 DEF InOnePlace
  <2>7. \A s \in ToSet(cue) : s <= Len(st) /\ taken.shown[s] = 0 /\ s \notin In(taken.queue)
    BY <2>2, <2>3 DEF InOnePlace, Unseen
  <2>8. \A s \in ToSet(cue) : \A t \in taken.held \union taken.waiting : t.segment # s
    BY <2>2, <2>3 DEF InOnePlace, Unseen
  <2> QED BY <2>2, <2>3, <2>4, <2>6, <2>7, <2>8, Displayed
<1> QED BY <1>1, <1>2

(* What a new sentence finds: it is in no place yet.                        *)
LEMMA Arrived ==
  ASSUME NEW st \in Sendings, NEW x \in [generation : Nat, synced : BOOLEAN],
         NEW scr \in Screens, InOnePlace(scr, st), Len(st) < MaxSegments
  PROVE  /\ Append(st, x) \in Sendings /\ InOnePlace(scr, Append(st, x))
         /\ Len(st) + 1 \in Segments
         /\ Unseen(scr, Append(st, x), Len(st) + 1, x.synced)
         /\ \A t \in scr.held \union scr.waiting : t.segment # Len(st) + 1
         /\ Len(st) + 1 \notin In(scr.queue)
<1> DEFINE n == Len(st) + 1
           new == Append(st, x)
<1>1. Len(st) \in Nat /\ MaxSegments \in Nat
  BY VoiceAssumption DEF Sendings
<1>2. /\ new \in Sendings /\ Len(new) = n /\ n \in Segments
      /\ (\A s \in 1..Len(st) : new[s] = st[s]) /\ new[n] = x
  BY <1>1 DEF Sendings, Segments
<1>3. ASSUME NEW s \in Segments, NEW synced, Unseen(scr, st, s, synced)
      PROVE  Unseen(scr, new, s, synced) /\ s # n
  <2>1. s \in 1..Len(st) /\ s <= n
    BY <1>1, <1>3 DEF Unseen, Segments
  <2> QED BY <1>1, <1>2, <1>3, <2>1 DEF Unseen
<1>4. \A t \in scr.held \union scr.waiting : t.segment \in Segments
  BY DEF Screens
<1>5. In(scr.queue) \subseteq Segments
  BY Queued
<1>6. Unseen(scr, new, n, x.synced)
  BY <1>1, <1>2 DEF Unseen, InOnePlace
<1> HIDE DEF n, new
<1>7. \A s \in Segments : s > Len(new) => scr.shown[s] = 0
  <2>1. \A s \in Segments : s > Len(new) => s > Len(st)
    BY <1>1, <1>2 DEF n, Segments
  <2> QED BY <2>1 DEF InOnePlace
<1>8. InOnePlace(scr, new)
  BY <1>3, <1>4, <1>5, <1>7 DEF InOnePlace
<1>9. \A t \in scr.held \union scr.waiting : t.segment # n
  BY <1>3, <1>4 DEF InOnePlace
<1>10. n \notin In(scr.queue)
  BY <1>3, <1>5 DEF InOnePlace
<1> QED BY <1>2, <1>6, <1>8, <1>9, <1>10 DEF n, new

LEMMA Offered ==
  ASSUME NEW st \in Sendings, NEW scr \in Screens, InOnePlace(scr, st),
         NEW s \in Segments, Unseen(scr, st, s, TRUE),
         \A t \in scr.held \union scr.waiting : t.segment # s
  PROVE  /\ Offer(scr, s) \in Screens /\ InOnePlace(Offer(scr, s), st)
         /\ Offer(scr, s).waiting = scr.waiting
<1> DEFINE new == Offer(scr, s)
           timer == [segment |-> s, left |-> Fallback]
<1>1. Fallback \in 0..Fallback
  BY VoiceAssumption
<1>2. /\ new \in Screens /\ new.waiting = scr.waiting /\ new.queue = scr.queue
      /\ new.shown = scr.shown /\ new.held \subseteq scr.held \union {timer}
  <2> DEFINE timers == (scr.held \ Held(scr, s)) \union {timer}
  <2>1. timer \in [segment : Segments, left : 0..Fallback]
    BY <1>1
  <2>2. timers \subseteq scr.held \union {timer}
    OBVIOUS
  <2>3. scr.held \subseteq [segment : Segments, left : 0..Fallback]
    BY DEF Screens
  <2>4. timers \in SUBSET [segment : Segments, left : 0..Fallback]
    BY <2>1, <2>2, <2>3
  <2>5. new = [scr EXCEPT !.held = timers]
    BY DEF Offer, Screens
  <2> HIDE DEF timers, timer, new
  <2> QED BY <2>2, <2>4, <2>5 DEF Screens
<1> HIDE DEF new
<1>3. \A r, synced : Unseen(new, st, r, synced) <=> Unseen(scr, st, r, synced)
  BY <1>2 DEF Unseen
<1>4. \A h \in new.held : h \in scr.held \/ h.segment = s
  BY <1>2
<1>5. InOnePlace(new, st)
  BY <1>2, <1>3, <1>4 DEF InOnePlace
<1> QED BY <1>2, <1>5 DEF new

LEMMA Pushed ==
  ASSUME NEW st \in Sendings, NEW scr \in Screens, InOnePlace(scr, st),
         NEW s \in Segments, NEW g \in Nat, Unseen(scr, st, s, FALSE),
         s \notin In(scr.queue)
  PROVE  /\ Push(scr, s, g) \in Screens /\ InOnePlace(Push(scr, s, g), st)
         /\ Push(scr, s, g).waiting = scr.waiting
<1>1. CASE g < scr.generation
  BY <1>1, Forgotten DEF Push
<1>2. CASE ~(g < scr.generation)
  <2> DEFINE obsolete == Forget(scr, QueuedIn(scr))
             clean == IF g = scr.generation THEN scr
                      ELSE [obsolete EXCEPT !.generation = g, !.queue = <<>>, !.current = <<>>]
             queue == MergeOldest(Append(clean.queue, <<s>>))
             queued == [clean EXCEPT !.queue = queue]
  <2>1. Push(scr, s, g) = IF queued.current = <<>> THEN ShowNext(queued) ELSE queued
    BY <1>2 DEF Push
  <2>2. /\ obsolete \in Screens /\ obsolete.held = scr.held /\ obsolete.waiting = scr.waiting
        /\ obsolete.shown = scr.shown
    BY Queued DEF Forget, Screens
  <2>3. /\ clean \in Screens /\ clean.held = scr.held /\ clean.waiting = scr.waiting
        /\ clean.shown = scr.shown /\ (clean.queue = scr.queue \/ clean.queue = <<>>)
    <3> HIDE DEF obsolete
    <3>1. <<>> \in Seq(Segments) /\ <<>> \in Seq(Seq(Segments))
      OBVIOUS
    <3> QED BY <2>2, <3>1 DEF Screens
  <2> HIDE DEF clean
  <2>4. InOnePlace(clean, st)
    BY <2>3, Fewer
  <2>5. clean.queue \in Cues /\ Apart(clean.queue) /\ s \notin In(clean.queue)
    <3>1. In(<<>>) = {}
      BY DEF In
    <3> QED BY <2>3, <2>4, <3>1 DEF Screens, Cues, InOnePlace
  <2>6. /\ Append(clean.queue, <<s>>) \in Cues /\ Apart(Append(clean.queue, <<s>>))
        /\ In(Append(clean.queue, <<s>>)) = In(clean.queue) \union {s}
    BY <2>5, QueueAppended
  <2>7. queue \in Cues /\ Apart(queue) /\ In(queue) = In(clean.queue) \union {s}
    BY <2>6, QueueMerged
  <2> HIDE DEF queue
  <2>8. /\ queued \in Screens /\ queued.held = scr.held /\ queued.waiting = scr.waiting
        /\ queued.shown = scr.shown /\ queued.queue = queue
    BY <2>3, <2>7 DEF Screens, Cues
  <2> HIDE DEF queued
  <2>9. /\ \A r, synced : Unseen(queued, st, r, synced) <=> Unseen(clean, st, r, synced)
        /\ \A r, synced : Unseen(queued, st, r, synced) <=> Unseen(scr, st, r, synced)
    BY <2>3, <2>8 DEF Unseen
  <2>10. \A r \in In(queue) : Unseen(queued, st, r, FALSE)
    BY <2>4, <2>7, <2>9 DEF InOnePlace
  <2>11. InOnePlace(queued, st)
    BY <2>3, <2>4, <2>7, <2>8, <2>9, <2>10 DEF InOnePlace
  <2> QED BY <2>1, <2>8, <2>11, NextShown
<1> QED BY <1>1, <1>2

LEMMA ShownNow ==
  ASSUME NEW st \in Sendings, NEW scr \in Screens, InOnePlace(scr, st),
         NEW s \in Segments, NEW g \in Nat, Unseen(scr, st, s, TRUE),
         \A t \in scr.held \union scr.waiting : t.segment # s
  PROVE  /\ ShowNow(scr, s, g) \in Screens /\ InOnePlace(ShowNow(scr, s, g), st)
         /\ ShowNow(scr, s, g).waiting = scr.waiting
<1>1. CASE g < scr.generation
  BY <1>1, Forgotten DEF ShowNow
<1>2. CASE ~(g < scr.generation)
  <2> DEFINE obsolete == Forget(scr, QueuedIn(scr))
             clean == [obsolete EXCEPT !.generation = g, !.queue = <<>>]
  <2>1. ShowNow(scr, s, g) = Display(clean, <<s>>)
    BY <1>2 DEF ShowNow
  <2>2. /\ obsolete \in Screens /\ obsolete.held = scr.held /\ obsolete.waiting = scr.waiting
        /\ obsolete.shown = scr.shown
    BY Queued DEF Forget, Screens
  <2>3. /\ clean \in Screens /\ clean.held = scr.held /\ clean.waiting = scr.waiting
        /\ clean.shown = scr.shown /\ clean.queue = <<>>
    <3> HIDE DEF obsolete
    <3>1. <<>> \in Seq(Seq(Segments))
      OBVIOUS
    <3> QED BY <2>2, <3>1 DEF Screens
  <2> HIDE DEF clean
  <2>4. InOnePlace(clean, st)
    BY <2>3, Fewer
  <2>5. <<s>> \in Seq(Segments) /\ ToSet(<<s>>) = {s} /\ In(<<>>) = {}
    BY Single DEF In
  <2>6. s <= Len(st) /\ clean.shown[s] = 0 /\ s \notin In(clean.queue)
    BY <2>3, <2>5 DEF Unseen
  <2>7. \A r \in ToSet(<<s>>) : r <= Len(st) /\ clean.shown[r] = 0 /\ r \notin In(clean.queue)
    BY <2>5, <2>6
  <2>8. \A r \in ToSet(<<s>>) : \A t \in clean.held \union clean.waiting : t.segment # r
    BY <2>3, <2>5
  <2> DEFINE new == Display(clean, <<s>>)
  <2>9. new \in Screens /\ InOnePlace(new, st) /\ new.held = clean.held /\ new.waiting = clean.waiting
    BY <2>3, <2>4, <2>5, <2>7, <2>8, Displayed
  <2> HIDE DEF new
  <2>10. ShowNow(scr, s, g) = new
    BY <2>1 DEF new
  <2> QED BY <2>3, <2>9, <2>10
<1> QED BY <1>1, <1>2

LEMMA Released ==
  ASSUME sent \in Sendings, NEW scr \in Screens, InOnePlace(scr, sent),
         NEW s \in Segments, Unseen(scr, sent, s, TRUE),
         \A t \in scr.held \union scr.waiting : t.segment # s
  PROVE  /\ Release(scr, s) \in Screens /\ InOnePlace(Release(scr, s), sent)
         /\ Release(scr, s).waiting = scr.waiting
<1>1. sent[s].generation \in Nat
  <2>1. s \in 1..Len(sent)
    <3>1. Len(sent) \in Nat /\ s \in Int /\ s >= 1 /\ s <= Len(sent)
      BY DEF Unseen, Segments, Sendings
    <3> QED BY <3>1
  <2>2. sent[s] \in [generation : Nat, synced : BOOLEAN]
    BY <2>1, ElementOfSeq DEF Sendings
  <2> QED BY <2>2
<1> QED BY <1>1, ShownNow DEF Release

(* A held subtitle is taken: its sentence is in no place.                   *)
LEMMA TakenFromHeld ==
  ASSUME sent \in Sendings, NEW scr \in Screens, InOnePlace(scr, sent),
         NEW s \in Segments, Held(scr, s) # {},
         NEW taken, taken = [scr EXCEPT !.held = @ \ Held(scr, s)]
  PROVE  /\ taken \in Screens /\ InOnePlace(taken, sent) /\ taken.waiting = scr.waiting
         /\ Unseen(taken, sent, s, TRUE)
         /\ \A t \in taken.held \union taken.waiting : t.segment # s
<1>1. /\ taken \in Screens /\ taken.held = scr.held \ Held(scr, s)
      /\ taken.waiting = scr.waiting /\ taken.shown = scr.shown /\ taken.queue = scr.queue
  BY DEF Screens
<1>2. InOnePlace(taken, sent)
  <2>1. taken.held \subseteq scr.held
    BY <1>1
  <2> QED BY <1>1, <2>1, Fewer
<1>3. PICK h \in scr.held : h.segment = s
  BY DEF Held
<1>4. Unseen(scr, sent, s, TRUE) /\ \A t \in scr.waiting : t.segment # s
  BY <1>3 DEF InOnePlace
<1>5. Unseen(taken, sent, s, TRUE)
  BY <1>1, <1>4 DEF Unseen
<1>6. \A t \in taken.held \union taken.waiting : t.segment # s
  BY <1>1, <1>4 DEF Held
<1> QED BY <1>1, <1>2, <1>5, <1>6

LEMMA HeldReleased ==
  ASSUME sent \in Sendings, NEW scr \in Screens, InOnePlace(scr, sent), NEW s \in Segments
  PROVE  /\ ReleaseHeld(scr, s) \in Screens /\ InOnePlace(ReleaseHeld(scr, s), sent)
         /\ ReleaseHeld(scr, s).waiting = scr.waiting
<1>1. CASE Held(scr, s) = {}
  BY <1>1 DEF ReleaseHeld
<1>2. CASE Held(scr, s) # {}
  <2> DEFINE taken == [scr EXCEPT !.held = @ \ Held(scr, s)]
  <2>1. /\ taken \in Screens /\ InOnePlace(taken, sent) /\ taken.waiting = scr.waiting
        /\ Unseen(taken, sent, s, TRUE)
        /\ \A t \in taken.held \union taken.waiting : t.segment # s
    BY <1>2, TakenFromHeld
  <2>2. ReleaseHeld(scr, s) = Release(taken, s)
    BY <1>2 DEF ReleaseHeld
  <2> HIDE DEF taken
  <2> QED BY <2>1, <2>2, Released
<1> QED BY <1>1, <1>2

LEMMA VoiceScheduled ==
  ASSUME sent \in Sendings, NEW scr \in Screens, InOnePlace(scr, sent),
         NEW s \in Segments, NEW delay \in Nat
  PROVE  /\ TtsScheduled(scr, s, delay) \in Screens
         /\ InOnePlace(TtsScheduled(scr, s, delay), sent)
         /\ TtsScheduled(scr, s, delay).waiting
              \subseteq scr.waiting \union {[segment |-> s, left |-> delay]}
<1>1. CASE Held(scr, s) = {}
  BY <1>1 DEF TtsScheduled
<1>2. CASE Held(scr, s) # {}
  <2> DEFINE taken == [scr EXCEPT !.held = @ \ Held(scr, s)]
             timer == [segment |-> s, left |-> delay]
             new == [taken EXCEPT !.waiting = @ \union {timer}]
  <2>1. /\ taken \in Screens /\ InOnePlace(taken, sent) /\ taken.waiting = scr.waiting
        /\ Unseen(taken, sent, s, TRUE)
        /\ \A t \in taken.held \union taken.waiting : t.segment # s
    BY <1>2, TakenFromHeld
  <2>2. TtsScheduled(scr, s, delay) = IF delay = 0 THEN Release(taken, s) ELSE new
    BY <1>2 DEF TtsScheduled
  <2> HIDE DEF taken
  <2>3. timer \in [segment : Segments, left : Nat] /\ timer.segment = s
    OBVIOUS
  <2> HIDE DEF timer
  <2>4. /\ new \in Screens /\ new.held = taken.held /\ new.queue = taken.queue
        /\ new.waiting = taken.waiting \union {timer} /\ new.shown = taken.shown
    BY <2>1, <2>3 DEF Screens
  <2> HIDE DEF new
  <2>5. \A r, synced : Unseen(new, sent, r, synced) <=> Unseen(taken, sent, r, synced)
    BY <2>4 DEF Unseen
  <2>6. InOnePlace(new, sent)
    BY <2>1, <2>3, <2>4, <2>5 DEF InOnePlace
  <2> QED BY <2>1, <2>2, <2>4, <2>6, Released DEF timer
<1> QED BY <1>1, <1>2

LEMMA SyncCleared ==
  ASSUME NEW st, NEW scr \in Screens, InOnePlace(scr, st)
  PROVE  /\ ClearSync(scr) \in Screens /\ InOnePlace(ClearSync(scr), st)
         /\ ClearSync(scr).waiting = {}
<1> DEFINE gone == {x.segment : x \in scr.held \union scr.waiting}
           less == Forget(scr, gone)
           new == [less EXCEPT !.held = {}, !.waiting = {}]
<1>1. gone \in SUBSET Segments
  BY DEF Screens
<1>2. less \in Screens /\ InOnePlace(less, st)
  BY <1>1, Forgotten
<1>3. new = ClearSync(scr)
  BY DEF ClearSync
<1> HIDE DEF less
<1>4. /\ new \in Screens /\ new.held = {} /\ new.waiting = {} /\ new.queue = less.queue
      /\ new.shown = less.shown
  BY <1>2 DEF Screens
<1> HIDE DEF new
<1>5. InOnePlace(new, st)
  BY <1>2, <1>4, Fewer
<1> QED BY <1>3, <1>4, <1>5
-----------------------------------------------------------------------------
(* The mixer and the receiver of streamed voices.                           *)
Sources == [segment : Segments, from : Nat, upto : Nat]
Openings == [segment : Segments, dropped : BOOLEAN, scheduledFirst : BOOLEAN]

LEMMA SourceAdded ==
  ASSUME TypeOK, Voices(playing, backlog, voicing), NEW s \in Segments,
         NEW length \in 1..MaxLength, NEW v \in Nat, voicing <= v, streaming => s = v,
         Schedule(s, length)
  PROVE  /\ backlog' = backlog + length /\ playing' \in SUBSET Sources
         /\ Voices(playing', backlog', v)
         /\ playing' = playing \union {Source(s, length)}
         /\ Source(s, length).segment = s /\ Source(s, length).from = backlog
<1> DEFINE new == Source(s, length)
<1>1. backlog \in Nat /\ length \in Nat /\ length > 0 /\ voicing \in Nat
  BY VoiceAssumption DEF TypeOK
<1>2. /\ new \in Sources /\ new.segment = s /\ new.from = backlog
      /\ new.upto = backlog + length
  BY <1>1 DEF Source, Sources
<1>3. playing' = playing \union {new} /\ backlog' = backlog + length
  BY DEF Schedule
<1>4. playing \in SUBSET Sources
  BY DEF TypeOK, Sources
<1> HIDE DEF new
<1>5. \A p \in playing' : p.from < p.upto /\ p.upto <= backlog'
  BY <1>1, <1>2, <1>3, <1>4 DEF Voices, Sources
<1>6. \A p, q \in playing' : p # q => p.upto <= q.from \/ q.upto <= p.from
  BY <1>1, <1>2, <1>3 DEF Voices
<1>7. ASSUME streaming PROVE \A p \in playing' : p.segment <= v
  BY <1>1, <1>2, <1>3, <1>4, <1>7 DEF Voices, Sources, Segments
<1>8. ASSUME streaming
      PROVE  \A p, q \in playing' : p.upto <= q.from => p.segment <= q.segment
  <2> SUFFICES ASSUME NEW p \in playing', NEW q \in playing', p.upto <= q.from
               PROVE  p.segment <= q.segment
    OBVIOUS
  <2>1. CASE p \in playing /\ q \in playing
    BY <1>8, <2>1 DEF Voices
  <2>2. CASE q = new
    BY <1>2, <1>7, <1>8, <2>2
  <2>3. CASE p = new /\ q \in playing
    <3>1. q.upto <= backlog /\ q.from < q.upto /\ q.from \in Nat /\ q.upto \in Nat
      BY <1>4, <2>3 DEF Voices, Sources
    <3> QED BY <1>1, <1>2, <2>3, <3>1
  <2> QED BY <1>3, <2>1, <2>2, <2>3
<1>9. Voices(playing', backlog', v)
  BY <1>5, <1>6, <1>7, <1>8 DEF Voices
<1> QED BY <1>2, <1>3, <1>4, <1>9 DEF new

LEMMA VoicesMore ==
  ASSUME TypeOK, Voices(playing, backlog, voicing), NEW v \in Nat, voicing <= v
  PROVE  Voices(playing, backlog, v)
<1>1. \A p \in playing : p.segment \in Int
  BY DEF TypeOK, Segments
<1>2. voicing \in Int
  BY DEF TypeOK
<1> QED BY <1>1, <1>2 DEF Voices

LEMMA TimedMore ==
  ASSUME NEW waiting, NEW pl, NEW more, NEW new, NEW s, NEW length,
         Timed(waiting, pl), pl \subseteq more, Source(s, length) \in more,
         new \subseteq waiting \union {[segment |-> s, left |-> backlog]}
  PROVE  Timed(new, more)
<1>1. Source(s, length).segment = s /\ Source(s, length).from = backlog
  BY DEF Source
<1> SUFFICES ASSUME NEW w \in new, w.left > 0
             PROVE  \E p \in more : p.segment = w.segment /\ p.from = w.left
  BY DEF Timed
<1>2. CASE w \in waiting
  BY <1>2 DEF Timed
<1>3. CASE w = [segment |-> s, left |-> backlog]
  BY <1>1, <1>3
<1> QED BY <1>2, <1>3

LEMMA PartSent ==
  ASSUME TypeOK, NEW s \in Segments, NextPart(s)
  PROVE  /\ s \in 1..Len(sent) /\ voicing' = s /\ voicing <= s /\ part' \in 1..MaxParts
         /\ (voicing = s /\ part' = part + 1) \/ voicing < s
         /\ UNCHANGED <<streaming, sent, heardOf>>
<1>1. Len(sent) \in Nat /\ voicing \in Nat /\ part \in Nat /\ s \in Nat /\ s >= 1
  BY DEF TypeOK, Segments
<1>2. MaxParts \in Nat /\ MaxParts >= 1
  BY VoiceAssumption
<1> QED BY <1>1, <1>2 DEF NextPart

(* How far the lag may grow with the n-th part of a voice.                  *)
LEMMA Lags ==
  ASSUME NEW n \in 1..MaxParts
  PROVE  /\ n * MaxLength \in Nat /\ MaxLength <= n * MaxLength
         /\ n * MaxLength <= MaxParts * MaxLength
         /\ (n + 1) * MaxLength = n * MaxLength + MaxLength
<1>1. n \in Nat /\ MaxLength \in Nat /\ n >= 1 /\ MaxParts \in Nat /\ n <= MaxParts
  BY VoiceAssumption
<1>2. n * MaxLength \in Nat
  BY <1>1
<1>3. (n + 1) * MaxLength = n * MaxLength + MaxLength
  BY <1>1
<1>4. MaxLength <= n * MaxLength
  BY <1>1, Z3
<1>5. n * MaxLength <= MaxParts * MaxLength
  BY <1>1, Z3
<1> QED BY <1>2, <1>3, <1>4, <1>5

(* What every step leaves of the sound and of the screen, v being the last  *)
(* segment with a voice and n its parts.                                    *)
Heard(v, n) ==
  /\ backlog' \in Nat /\ playing' \in SUBSET Sources /\ open' \in SUBSET Openings
  /\ Voices(playing', backlog', v)
  /\ backlog' <= MaxBacklog + MaxParts * MaxLength
  /\ Growing(open', backlog', v, n)

Seen ==
  /\ screen' \in Screens /\ InOnePlace(screen', sent)
  /\ Timed(screen'.waiting, playing')

LEMMA Invariants ==
  ASSUME VoiceInv
  PROVE  /\ sent \in Sendings /\ screen \in Screens /\ InOnePlace(screen, sent)
         /\ Timed(screen.waiting, playing) /\ Voices(playing, backlog, voicing)
         /\ Growing(open, backlog, voicing, part)
         /\ backlog \in Nat /\ playing \in SUBSET Sources /\ open \in SUBSET Openings
         /\ screen.waiting \in SUBSET [segment : Segments, left : Nat]
BY DEF VoiceInv, Lag, TypeOK, Sendings, Sources, Openings, Screens

LEMMA PieceHeard ==
  ASSUME VoiceInv, streaming, NEW o \in Openings, ~o.dropped, voicing <= o.segment,
         NEW length \in 0..MaxLength, NEW final \in BOOLEAN, NEW n \in 1..MaxParts,
         backlog + MaxLength <= MaxBacklog + n * MaxLength,
         NEW others \in SUBSET Openings, \A x \in others : x.segment <= o.segment,
         PieceOf(o, others, length, final)
  PROVE  Heard(o.segment, n) /\ Seen
<1> DEFINE s == o.segment
<1>0. TypeOK /\ s \in Segments /\ s \in Nat
  BY DEF VoiceInv, Openings, Segments
<1>1. MaxLength \in Nat /\ MaxBacklog \in Nat /\ n * MaxLength \in Nat
      /\ MaxParts * MaxLength \in Nat /\ n * MaxLength <= MaxParts * MaxLength
  <2>1. MaxParts \in 1..MaxParts
    BY VoiceAssumption
  <2> QED BY <2>1, VoiceAssumption, Lags
<1>2. /\ backlog' \in Nat /\ playing' \in SUBSET Sources /\ Voices(playing', backlog', s)
      /\ backlog' <= backlog + MaxLength /\ playing \subseteq playing'
      /\ length > 0 => Source(s, length) \in playing'
  <2>1. CASE length = 0
    BY <1>0, <1>1, <2>1, Invariants, VoicesMore DEF PieceOf
  <2>2. CASE length # 0
    <3>1. length \in 1..MaxLength /\ Schedule(s, length)
      BY <1>1, <2>2 DEF PieceOf
    <3> QED BY <1>0, <1>1, <3>1, Invariants, SourceAdded
  <2> QED BY <2>1, <2>2
<1>3. backlog' <= MaxBacklog + n * MaxLength
  BY <1>1, <1>2, Invariants
<1>4. open' \in SUBSET Openings /\ \A x \in open' : x.segment <= s
  <2> DEFINE next == [o EXCEPT !.scheduledFirst = @ \/ length > 0]
  <2>1. next \in Openings /\ next.segment = s
    BY DEF Openings
  <2>2. open' = others \/ open' = others \union {next}
    BY DEF PieceOf
  <2> HIDE DEF next
  <2> QED BY <1>0, <2>1, <2>2
<1>5. Growing(open', backlog', s, n)
  BY <1>3, <1>4 DEF Growing
<1>6. Heard(s, n)
  BY <1>1, <1>2, <1>3, <1>4, <1>5 DEF Heard
<1>7. CASE ~o.scheduledFirst /\ length > 0
  <2>1. screen' = TtsScheduled(screen, s, backlog)
    BY <1>7 DEF PieceOf
  <2>2. /\ screen' \in Screens /\ InOnePlace(screen', sent)
        /\ screen'.waiting \subseteq screen.waiting \union {[segment |-> s, left |-> backlog]}
    BY <1>0, <2>1, Invariants, VoiceScheduled
  <2>3. Timed(screen'.waiting, playing')
    BY <1>2, <1>7, <2>2, Invariants, TimedMore
  <2> QED BY <1>6, <2>2, <2>3 DEF Seen
<1>8. CASE o.scheduledFirst \/ ~(length > 0)
  <2>1. screen' = TtsDropped(screen, s) \/ screen' = screen
    BY <1>8 DEF PieceOf
  <2>2. screen' \in Screens /\ InOnePlace(screen', sent) /\ screen'.waiting = screen.waiting
    BY <1>0, <2>1, Invariants, HeldReleased DEF TtsDropped
  <2>3. Timed(screen'.waiting, playing')
    BY <1>2, <2>2, Invariants DEF Timed
  <2> QED BY <1>6, <2>2, <2>3 DEF Seen
<1> QED BY <1>7, <1>8

LEMMA DroppedSeen ==
  ASSUME VoiceInv, NEW s \in Segments, screen' = TtsDropped(screen, s),
         playing \subseteq playing'
  PROVE  Seen
<1>1. screen' \in Screens /\ InOnePlace(screen', sent) /\ screen'.waiting = screen.waiting
  BY Invariants, HeldReleased DEF TtsDropped
<1>2. Timed(screen'.waiting, playing')
  BY <1>1, Invariants DEF Timed
<1> QED BY <1>1, <1>2 DEF Seen

LEMMA SameSeen ==
  ASSUME VoiceInv, UNCHANGED screen, playing \subseteq playing'
  PROVE  Seen
BY Invariants DEF Seen, Timed

(* A message about segment s without a sound.                               *)
LEMMA SilentHeard ==
  ASSUME VoiceInv, NEW s \in Segments, NextPart(s), UNCHANGED <<backlog, playing>>,
         streaming, open' \in SUBSET Openings,
         \A x \in open' : x \in open \/ (x.segment = s /\ x.dropped)
  PROVE  Heard(s, part')
<1>0. TypeOK /\ Voices(playing, backlog, voicing)
  BY DEF VoiceInv
<1>1. /\ s \in 1..Len(sent) /\ voicing' = s /\ voicing <= s /\ part' \in 1..MaxParts
      /\ (voicing = s /\ part' = part + 1) \/ voicing < s
  BY <1>0, PartSent
<1>2. /\ s \in Nat /\ voicing \in Nat /\ backlog \in Nat /\ part \in 0..MaxParts
      /\ playing \in SUBSET Sources /\ MaxBacklog \in Nat /\ MaxLength \in Nat /\ MaxParts \in Nat
  BY <1>0, VoiceAssumption DEF TypeOK, Sources, Segments
<1>3. Voices(playing, backlog, s)
  BY <1>0, <1>1, <1>2, VoicesMore
<1>4. backlog <= MaxBacklog + MaxParts * MaxLength
  BY DEF VoiceInv, Lag, BacklogBounded
<1>5. ASSUME NEW x \in open' PROVE x.segment <= s
  <2>1. x.segment \in Int
    BY DEF Openings, Segments
  <2> QED BY <1>1, <1>2, <1>5, <2>1, Invariants DEF Growing
<1>6. ASSUME NEW x \in open', x.segment = s, ~x.dropped
      PROVE  backlog <= MaxBacklog + part' * MaxLength
  <2>1. x \in open /\ x.segment <= voicing
    BY <1>6, Invariants DEF Growing
  <2>2. voicing = s /\ part' = part + 1
    BY <1>1, <1>2, <1>6, <2>1
  <2>3. backlog <= MaxBacklog + part * MaxLength
    BY <1>6, <2>1, <2>2, Invariants DEF Growing
  <2>4. part * MaxLength <= part' * MaxLength /\ part * MaxLength \in Nat /\ part' * MaxLength \in Nat
    BY <1>2, <2>2
  <2> QED BY <1>2, <2>3, <2>4
<1>7. Growing(open', backlog', s, part')
  BY <1>5, <1>6 DEF Growing
<1> QED BY <1>2, <1>3, <1>4, <1>7 DEF Heard

LEMMA HandleHeard ==
  ASSUME VoiceInv, streaming, NEW s \in Segments, NextPart(s),
         NEW length \in 0..MaxLength, NEW final \in BOOLEAN, Handle(s, length, final)
  PROVE  Heard(s, part') /\ Seen
<1> DEFINE new == OpenSegment(s)
           opened == Newest(open \union {new})
<1>0. TypeOK
  BY DEF VoiceInv
<1>1. /\ s \in 1..Len(sent) /\ voicing' = s /\ voicing <= s /\ part' \in 1..MaxParts
      /\ (voicing = s /\ part' = part + 1) \/ voicing < s
  BY <1>0, PartSent
<1>2. /\ s \in Nat /\ voicing \in Nat /\ backlog \in Nat /\ part \in 0..MaxParts
      /\ open \in SUBSET Openings /\ MaxBacklog \in Nat /\ MaxLength \in Nat
  BY <1>0, VoiceAssumption DEF TypeOK, Openings, Segments
<1>3. new \in Openings /\ new.segment = s /\ (new.dropped <=> backlog > MaxBacklog)
  <2>1. (backlog > MaxBacklog) \in BOOLEAN
    BY <1>2
  <2>2. ASSUME NEW late \in BOOLEAN, new = [segment |-> s, dropped |-> late, scheduledFirst |-> FALSE]
        PROVE  new \in Openings /\ new.segment = s /\ (new.dropped <=> late)
    BY <2>2 DEF Openings
  <2>3. new = [segment |-> s, dropped |-> backlog > MaxBacklog, scheduledFirst |-> FALSE]
    BY DEF OpenSegment, IsTtsBacklogTooLong
  <2> HIDE DEF new
  <2> QED BY <2>1, <2>2, <2>3
<1> HIDE DEF new
<1>4. opened \in SUBSET Openings /\ \A x \in opened : x \in open \/ x = new
  BY <1>2, <1>3 DEF Newest
<1> HIDE DEF opened
<1>5. \A x \in open : x.segment \in Int /\ x.segment <= s
  <2>1. \A x \in open : x.segment \in Int
    BY <1>2 DEF Openings, Segments
  <2> QED BY <1>1, <1>2, <2>1, Invariants DEF Growing
<1>6. CASE OpenOf(s) = {} /\ final /\ UNCHANGED <<backlog, playing, open, screen>>
  BY <1>2, <1>6, SilentHeard, SameSeen
<1>7. CASE /\ OpenOf(s) = {} /\ ~final /\ new.dropped
           /\ open' = opened /\ screen' = TtsDropped(screen, s)
           /\ UNCHANGED <<backlog, playing>>
  <2>1. \A x \in open' : x \in open \/ (x.segment = s /\ x.dropped)
    BY <1>3, <1>4, <1>7
  <2> QED BY <1>4, <1>7, <2>1, SilentHeard, DroppedSeen
<1>8. CASE /\ OpenOf(s) = {} /\ ~final /\ ~new.dropped
           /\ PieceOf(new, opened \ {new}, length, final)
  <2>1. backlog <= MaxBacklog
    BY <1>2, <1>3, <1>8
  <2>2. part' * MaxLength \in Nat /\ MaxLength <= part' * MaxLength
    BY <1>1, Lags
  <2>3. backlog + MaxLength <= MaxBacklog + part' * MaxLength
    BY <1>2, <2>1, <2>2
  <2>4. \A x \in opened \ {new} : x.segment <= s
    BY <1>4, <1>5
  <2>5. opened \ {new} \in SUBSET Openings
    BY <1>4
  <2> HIDE DEF Heard, Seen
  <2> QED BY <1>1, <1>3, <1>8, <2>3, <2>4, <2>5, PieceHeard
<1>9. CASE \E o \in OpenOf(s) :
             \/ /\ o.dropped /\ open' = IF final THEN open \ {o} ELSE open
                /\ UNCHANGED <<backlog, playing, screen>>
             \/ ~o.dropped /\ PieceOf(o, open \ {o}, length, final)
  <2> PICK o \in OpenOf(s) :
             \/ /\ o.dropped /\ open' = IF final THEN open \ {o} ELSE open
                /\ UNCHANGED <<backlog, playing, screen>>
             \/ ~o.dropped /\ PieceOf(o, open \ {o}, length, final)
    BY <1>9
  <2>0. o \in open /\ o \in Openings /\ o.segment = s
    BY <1>2 DEF OpenOf
  <2>1. CASE /\ o.dropped /\ open' = IF final THEN open \ {o} ELSE open
             /\ UNCHANGED <<backlog, playing, screen>>
    <3>1. open' \in SUBSET Openings /\ \A x \in open' : x \in open
      BY <1>2, <2>1
    <3> QED BY <2>1, <3>1, SilentHeard, SameSeen
  <2>2. CASE ~o.dropped /\ PieceOf(o, open \ {o}, length, final)
    <3>1. voicing = s /\ part' = part + 1
      BY <1>1, <1>2, <2>0, Invariants DEF Growing
    <3>2. backlog <= MaxBacklog + part * MaxLength
      BY <2>0, <2>2, <3>1, Invariants DEF Growing
    <3>3. part * MaxLength \in Nat /\ part' * MaxLength = part * MaxLength + MaxLength
      BY <1>2, <3>1
    <3>4. backlog + MaxLength <= MaxBacklog + part' * MaxLength
      BY <1>2, <3>2, <3>3
    <3>5. open \ {o} \in SUBSET Openings /\ \A x \in open \ {o} : x.segment <= s
      BY <1>2, <1>5
    <3> QED BY <1>1, <2>0, <2>2, <3>4, <3>5, PieceHeard
  <2> QED BY <2>1, <2>2
<1>10. \/ OpenOf(s) = {} /\ final /\ UNCHANGED <<backlog, playing, open, screen>>
       \/ /\ OpenOf(s) = {} /\ ~final /\ new.dropped
          /\ open' = opened /\ screen' = TtsDropped(screen, s)
          /\ UNCHANGED <<backlog, playing>>
       \/ /\ OpenOf(s) = {} /\ ~final /\ ~new.dropped
          /\ PieceOf(new, opened \ {new}, length, final)
       \/ \E o \in OpenOf(s) :
             \/ /\ o.dropped /\ open' = IF final THEN open \ {o} ELSE open
                /\ UNCHANGED <<backlog, playing, screen>>
             \/ ~o.dropped /\ PieceOf(o, open \ {o}, length, final)
  BY DEF Handle, new, opened
<1> QED BY <1>6, <1>7, <1>8, <1>9, <1>10
-----------------------------------------------------------------------------
(* Each action keeps the invariant.                                         *)
LEMMA PieceKeeps ==
  ASSUME VoiceInv, NEW s \in Segments, PieceArrives(s)
  PROVE  VoiceInv'
<1>0. TypeOK /\ streaming /\ NextPart(s) /\ UNCHANGED <<generation, stops, decoding>>
  BY DEF VoiceInv, PieceArrives
<1>1. /\ s \in 1..Len(sent) /\ voicing' = s /\ part' \in 1..MaxParts
      /\ UNCHANGED <<streaming, sent, heardOf>>
  BY <1>0, PartSent
<1>2. Heard(s, part') /\ Seen
  <2>1. CASE heardOf = generation
    <3>1. PICK length \in 0..MaxLength : Handle(s, length, part' = MaxParts)
      BY <2>1 DEF PieceArrives
    <3>2. (part' = MaxParts) \in BOOLEAN
      OBVIOUS
    <3> QED BY <1>0, <3>1, <3>2, HandleHeard
  <2>2. CASE heardOf # generation
    <3>1. UNCHANGED <<backlog, playing, open, screen>>
      BY <2>2 DEF PieceArrives
    <3> QED BY <1>0, <3>1, Invariants, SilentHeard, SameSeen
  <2> QED BY <2>1, <2>2
<1>3. TypeOK'
  BY <1>0, <1>1, <1>2 DEF TypeOK, Heard, Seen, Sources, Openings
<1>4. Voices(playing, backlog, voicing)'
  BY <1>1, <1>2 DEF Heard, Voices
<1>5. Lag'
  <2>1. decoding = {} /\ decoding' = {} /\ streaming'
    BY <1>0, <1>1 DEF VoiceInv, Lag
  <2>2. BacklogBounded'
    BY <1>2, <2>1 DEF BacklogBounded, Heard
  <2>3. Growing(open, backlog, voicing, part)'
    BY <1>1, <1>2 DEF Heard, Growing
  <2> QED BY <2>1, <2>2, <2>3 DEF Lag
<1>6. Timed(screen.waiting, playing)' /\ InOnePlace(screen, sent)'
  BY <1>1, <1>2 DEF Seen, Timed
<1>7. SeeksAreStops'
  BY <1>0 DEF VoiceInv, SeeksAreStops
<1> QED BY <1>3, <1>4, <1>5, <1>6, <1>7 DEF VoiceInv

LEMMA Assembled ==
  ASSUME VoiceInv, UNCHANGED backend, Heard(voicing, part), Seen,
         generation' \in 1..(MaxStops + 1), heardOf <= generation', stops' \in 0..MaxStops,
         generation' <= stops' + 1,
         decoding' \in SUBSET [segment : Segments, part : 1..MaxParts, fresh : BOOLEAN],
         IF streaming THEN decoding' = {}
                      ELSE open' = {} /\ backlog' <= MaxBacklog + MaxLength
  PROVE  VoiceInv'
<1>0. TypeOK /\ UNCHANGED <<streaming, sent, voicing, part, heardOf>>
  BY DEF VoiceInv, backend
<1>1. heardOf \in 1..generation' /\ generation' \in Nat
  BY <1>0, VoiceAssumption DEF TypeOK
<1>2. TypeOK'
  BY <1>0, <1>1 DEF TypeOK, Heard, Seen, Sources, Openings
<1>3. Voices(playing, backlog, voicing)'
  BY <1>0 DEF Heard, Voices
<1>4. Lag'
  <2>1. Growing(open, backlog, voicing, part)'
    BY <1>0 DEF Heard, Growing
  <2>2. BacklogBounded'
    BY <1>0 DEF BacklogBounded, Heard
  <2>3. (IF streaming THEN decoding = {} ELSE open = {})'
    BY <1>0
  <2> QED BY <2>1, <2>2, <2>3 DEF Lag
<1>5. Timed(screen.waiting, playing)' /\ InOnePlace(screen, sent)'
  BY <1>0 DEF Seen, Timed
<1> QED BY <1>2, <1>3, <1>4, <1>5 DEF VoiceInv, SeeksAreStops

LEMMA SameHeard ==
  ASSUME VoiceInv, UNCHANGED <<backlog, playing, open>>
  PROVE  /\ Heard(voicing, part)
         /\ ~streaming => open' = {} /\ backlog' <= MaxBacklog + MaxLength
<1>1. MaxLength \in Nat /\ MaxParts \in Nat /\ MaxBacklog \in Nat /\ MaxLength <= MaxParts * MaxLength
  <2>1. MaxParts \in 1..MaxParts
    BY VoiceAssumption
  <2> QED BY <2>1, VoiceAssumption, Lags
<1>2. backlog <= MaxBacklog + MaxParts * MaxLength
  <2>1. backlog \in Nat /\ MaxParts * MaxLength \in Nat
    BY <1>1, Invariants
  <2> QED BY <1>1, <2>1 DEF VoiceInv, Lag, BacklogBounded
<1>3. Heard(voicing, part)
  BY <1>2, Invariants DEF Heard
<1>4. ~streaming => open' = {} /\ backlog' <= MaxBacklog + MaxLength
  BY DEF VoiceInv, Lag, BacklogBounded
<1> QED BY <1>3, <1>4

(* Steps of the screen alone.                                               *)
LEMMA ScreenKeeps ==
  ASSUME VoiceInv, Seen, UNCHANGED <<backend, generation, stops, sound>>
  PROVE  VoiceInv'
<1>1. UNCHANGED <<backlog, playing, open, decoding>>
  BY DEF sound
<1>2. /\ generation' \in 1..(MaxStops + 1) /\ heardOf <= generation' /\ stops' \in 0..MaxStops
      /\ generation' <= stops' + 1
      /\ decoding' \in SUBSET [segment : Segments, part : 1..MaxParts, fresh : BOOLEAN]
  BY <1>1 DEF VoiceInv, TypeOK, SeeksAreStops
<1>3. streaming => decoding' = {}
  BY <1>1 DEF VoiceInv, Lag
<1> HIDE DEF Seen
<1> QED BY <1>1, <1>2, <1>3, SameHeard, Assembled

LEMMA TimersKeep ==
  ASSUME VoiceInv, Timers
  PROVE  VoiceInv'
<1>0. UNCHANGED <<backend, generation, stops, sound>>
  BY DEF Timers, FallbackExpires, VoiceBegins, CueExpires
<1>1. playing' = playing
  BY <1>0 DEF sound
<1>2. ASSUME NEW h \in screen.held, FallbackExpires(h) PROVE Seen
  <2>1. h.segment \in Segments /\ screen' = TtsDropped(screen, h.segment)
    BY <1>2, Invariants DEF FallbackExpires, TtsDropped, Screens
  <2> QED BY <1>1, <2>1, DroppedSeen
<1>3. ASSUME NEW w \in screen.waiting, VoiceBegins(w) PROVE Seen
  <2> DEFINE s == w.segment
             rest == [screen EXCEPT !.waiting = @ \ {w}]
  <2>1. s \in Segments /\ screen' = Release(rest, s)
    BY <1>3, Invariants DEF VoiceBegins, Screens
  <2>2. /\ rest \in Screens /\ rest.held = screen.held /\ rest.waiting = screen.waiting \ {w}
        /\ rest.shown = screen.shown /\ rest.queue = screen.queue
    BY Invariants DEF Screens
  <2> HIDE DEF rest
  <2>3. InOnePlace(rest, sent)
    <3>1. rest.waiting \subseteq screen.waiting /\ rest.held \subseteq screen.held
      BY <2>2
    <3> QED BY <2>2, <3>1, Fewer, Invariants
  <2>4. Unseen(rest, sent, s, TRUE)
    BY <2>2, Invariants DEF InOnePlace, Unseen
  <2>5. \A t \in rest.held \union rest.waiting : t.segment # s
    BY <2>2, Invariants DEF InOnePlace
  <2>6. screen' \in Screens /\ InOnePlace(screen', sent) /\ screen'.waiting = rest.waiting
    BY <2>1, <2>2, <2>3, <2>4, <2>5, Invariants, Released
  <2>7. Timed(screen'.waiting, playing')
    BY <1>1, <2>2, <2>6, Invariants DEF Timed
  <2> QED BY <2>6, <2>7 DEF Seen
<1>4. ASSUME CueExpires PROVE Seen
  <2>1. screen' \in Screens /\ InOnePlace(screen', sent) /\ screen'.waiting = screen.waiting
    BY <1>4, Invariants, NextShown DEF CueExpires
  <2>2. Timed(screen'.waiting, playing')
    BY <1>1, <2>1, Invariants DEF Timed
  <2> QED BY <2>1, <2>2 DEF Seen
<1>5. Seen
  <2> HIDE DEF Seen
  <2> QED BY <1>2, <1>3, <1>4 DEF Timers
<1> QED BY <1>0, <1>5, ScreenKeeps

LEMMA DecodedKeeps ==
  ASSUME VoiceInv, NEW d \in decoding, Decoded(d)
  PROVE  VoiceInv'
<1>0. TypeOK /\ decoding' = decoding \ {d} /\ UNCHANGED <<backend, generation, stops, open>>
  BY DEF Decoded, VoiceInv
<1>1. /\ ~streaming /\ open = {} /\ open' = {} /\ d.segment \in Segments
      /\ voicing \in Nat /\ backlog \in Nat
  BY <1>0 DEF VoiceInv, Lag, TypeOK
<1>2. /\ generation' \in 1..(MaxStops + 1) /\ heardOf <= generation' /\ stops' \in 0..MaxStops
      /\ generation' <= stops' + 1
      /\ decoding' \in SUBSET [segment : Segments, part : 1..MaxParts, fresh : BOOLEAN]
  BY <1>0 DEF TypeOK, VoiceInv, SeeksAreStops
<1>3. CASE ~d.fresh \/ IsTtsBacklogTooLong
  <2>1. UNCHANGED <<backlog, playing, open>>
    BY <1>0, <1>3 DEF Decoded
  <2>2. screen' = screen \/ screen' = TtsDropped(screen, d.segment)
    BY <1>3 DEF Decoded
  <2>3. Seen
    BY <1>1, <2>1, <2>2, DroppedSeen, SameSeen
  <2> HIDE DEF Seen
  <2> QED BY <1>0, <1>1, <1>2, <2>1, <2>3, SameHeard, Assembled
<1>4. CASE d.fresh /\ ~IsTtsBacklogTooLong
  <2>1. PICK length \in 1..MaxLength : Schedule(d.segment, length)
    BY <1>4 DEF Decoded
  <2>2. screen' = TtsScheduled(screen, d.segment, backlog)
    BY <1>4 DEF Decoded
  <2>3. /\ backlog' = backlog + length /\ playing' \in SUBSET Sources
        /\ Voices(playing', backlog', voicing)
        /\ playing' = playing \union {Source(d.segment, length)}
    BY <1>0, <1>1, <2>1, Invariants, SourceAdded
  <2>4. MaxLength \in Nat /\ MaxBacklog \in Nat /\ MaxLength <= MaxParts * MaxLength
        /\ MaxParts * MaxLength \in Nat
    <3>1. MaxParts \in 1..MaxParts
      BY VoiceAssumption
    <3> QED BY <3>1, VoiceAssumption, Lags
  <2>5. backlog <= MaxBacklog
    BY <1>1, <1>4, <2>4 DEF IsTtsBacklogTooLong
  <2>6. backlog' \in Nat /\ backlog' <= MaxBacklog + MaxLength
        /\ backlog' <= MaxBacklog + MaxParts * MaxLength
    BY <1>1, <2>3, <2>4, <2>5
  <2>7. Heard(voicing, part)
    BY <1>1, <2>3, <2>6 DEF Heard, Growing
  <2>8. /\ screen' \in Screens /\ InOnePlace(screen', sent)
        /\ screen'.waiting \subseteq screen.waiting \union {[segment |-> d.segment, left |-> backlog]}
    BY <1>1, <2>2, Invariants, VoiceScheduled
  <2>9. Timed(screen'.waiting, playing')
    BY <2>3, <2>8, Invariants, TimedMore
  <2>10. Seen
    BY <2>8, <2>9 DEF Seen
  <2> HIDE DEF Heard, Seen
  <2> QED BY <1>0, <1>1, <1>2, <2>6, <2>7, <2>10, Assembled
<1> QED BY <1>3, <1>4

LEMMA FailureKeeps ==
  ASSUME VoiceInv, NEW d \in decoding, DecodingFails(d)
  PROVE  VoiceInv'
<1>1. /\ TypeOK /\ decoding' = decoding \ {d} /\ screen' = TtsDropped(screen, d.segment)
      /\ UNCHANGED <<backend, generation, stops, backlog, playing, open>>
  BY DEF DecodingFails, VoiceInv
<1>2. /\ generation' \in 1..(MaxStops + 1) /\ heardOf <= generation' /\ stops' \in 0..MaxStops
      /\ generation' <= stops' + 1
      /\ decoding' \in SUBSET [segment : Segments, part : 1..MaxParts, fresh : BOOLEAN]
      /\ d.segment \in Segments
  BY <1>1 DEF TypeOK, VoiceInv, SeeksAreStops
<1>3. ~streaming
  BY DEF VoiceInv, Lag
<1>4. Seen
  BY <1>1, <1>2, DroppedSeen
<1> HIDE DEF Seen
<1> QED BY <1>1, <1>2, <1>3, <1>4, SameHeard, Assembled

LEMMA PartKeeps ==
  ASSUME VoiceInv, NEW s \in Segments, PartArrives(s)
  PROVE  VoiceInv'
<1>0. /\ TypeOK /\ ~streaming /\ NextPart(s)
      /\ UNCHANGED <<generation, stops, backlog, playing, open, screen>>
  BY DEF VoiceInv, PartArrives
<1>1. /\ s \in 1..Len(sent) /\ voicing' = s /\ voicing <= s /\ part' \in 1..MaxParts
      /\ UNCHANGED <<streaming, sent, heardOf>>
  BY <1>0, PartSent
<1>2. open = {} /\ open' = {}
  BY <1>0 DEF VoiceInv, Lag
<1>3. decoding' \in SUBSET [segment : Segments, part : 1..MaxParts, fresh : BOOLEAN]
  <2>1. [segment |-> s, part |-> part', fresh |-> TRUE]
          \in [segment : Segments, part : 1..MaxParts, fresh : BOOLEAN]
    BY <1>1
  <2>2. \/ decoding' = decoding \union {[segment |-> s, part |-> part', fresh |-> TRUE]}
        \/ decoding' = decoding
    BY DEF PartArrives
  <2> QED BY <1>0, <2>1, <2>2 DEF TypeOK
<1>4. TypeOK'
  BY <1>0, <1>1, <1>3 DEF TypeOK
<1>5. Voices(playing, backlog, voicing)'
  BY <1>0, <1>1 DEF VoiceInv, Voices
<1>6. Lag'
  BY <1>0, <1>1, <1>2 DEF VoiceInv, Lag, Growing, BacklogBounded
<1>7. Timed(screen.waiting, playing)' /\ InOnePlace(screen, sent)'
  BY <1>0, <1>1 DEF VoiceInv, Timed
<1>8. SeeksAreStops'
  BY <1>0 DEF VoiceInv, SeeksAreStops
<1> QED BY <1>4, <1>5, <1>6, <1>7, <1>8 DEF VoiceInv

LEMMA SubtitleKeeps ==
  ASSUME VoiceInv, SubtitleArrives
  PROVE  VoiceInv'
<1> DEFINE s == Len(sent) + 1
<1>0. /\ TypeOK /\ Len(sent) < MaxSegments
      /\ UNCHANGED <<streaming, voicing, part, heardOf, generation, stops>>
      /\ UNCHANGED <<decoding, backlog, playing, open>>
  BY DEF VoiceInv, SubtitleArrives, sound
<1>1. PICK synced \in BOOLEAN :
        /\ sent' = Append(sent, [generation |-> heardOf, synced |-> synced])
        /\ screen' = IF synced THEN Offer(screen, s) ELSE Push(screen, s, heardOf)
  BY DEF SubtitleArrives
<1>2. heardOf \in Nat /\ Len(sent) \in Nat /\ MaxSegments \in Nat
  BY <1>0, VoiceAssumption DEF TypeOK
<1>3. [generation |-> heardOf, synced |-> synced] \in [generation : Nat, synced : BOOLEAN]
  BY <1>2
<1>4. /\ sent' \in Sendings /\ InOnePlace(screen, sent') /\ s \in Segments
      /\ Unseen(screen, sent', s, synced)
      /\ \A t \in screen.held \union screen.waiting : t.segment # s
      /\ s \notin In(screen.queue)
  BY <1>0, <1>1, <1>3, Invariants, Arrived
<1>5. screen' \in Screens /\ InOnePlace(screen', sent') /\ screen'.waiting = screen.waiting
  <2>1. CASE synced
    <3>1. screen' = Offer(screen, s) /\ synced = TRUE
      BY <1>1, <2>1
    <3> HIDE DEF s
    <3> QED BY <1>4, <3>1, Invariants, Offered
  <2>2. CASE ~synced
    <3>1. screen' = Push(screen, s, heardOf) /\ synced = FALSE
      BY <1>1, <2>2
    <3> HIDE DEF s
    <3>2. /\ sent' \in Sendings /\ screen \in Screens /\ InOnePlace(screen, sent')
          /\ s \in Segments /\ heardOf \in Nat /\ Unseen(screen, sent', s, FALSE)
          /\ \A t \in screen.held \union screen.waiting : t.segment # s
          /\ s \notin In(screen.queue)
      BY <1>2, <1>4, <3>1, Invariants
    <3> QED BY <3>1, <3>2, Pushed
  <2> QED BY <2>1, <2>2
<1>6. Len(sent') = Len(sent) + 1 /\ sent' \in Seq([generation : Nat, synced : BOOLEAN])
  BY <1>1, <1>4, Invariants DEF Sendings
<1>7. voicing \in 0..Len(sent')
  BY <1>0, <1>2, <1>6 DEF TypeOK
<1>8. TypeOK'
  <2>1. sent' \in Seq([generation : Nat, synced : BOOLEAN]) /\ Len(sent') <= MaxSegments
    BY <1>0, <1>2, <1>6
  <2> QED BY <1>0, <1>5, <1>7, <2>1 DEF TypeOK
<1>9. Voices(playing, backlog, voicing)' /\ Lag'
  BY <1>0 DEF VoiceInv, Voices, Lag, Growing, BacklogBounded
<1>10. Timed(screen.waiting, playing)' /\ InOnePlace(screen, sent)'
  BY <1>0, <1>5 DEF VoiceInv, Timed
<1>11. SeeksAreStops'
  BY <1>0 DEF VoiceInv, SeeksAreStops
<1> QED BY <1>8, <1>9, <1>10, <1>11 DEF VoiceInv

LEMMA SilenceHeard ==
  ASSUME VoiceInv, Silence
  PROVE  /\ Heard(voicing, part) /\ Seen
         /\ decoding' \in SUBSET [segment : Segments, part : 1..MaxParts, fresh : BOOLEAN]
         /\ IF streaming THEN decoding' = {} ELSE open' = {} /\ backlog' <= MaxBacklog + MaxLength
<1>1. playing' = {} /\ backlog' = 0 /\ open' = {} /\ screen' = ClearSync(screen)
  BY DEF Silence
<1>2. decoding' \in SUBSET [segment : Segments, part : 1..MaxParts, fresh : BOOLEAN]
  BY DEF Silence, VoiceInv, TypeOK
<1>3. streaming => decoding' = {}
  BY DEF Silence, VoiceInv, Lag
<1>4. MaxLength \in Nat /\ MaxBacklog \in Nat /\ MaxParts \in Nat /\ MaxParts * MaxLength \in Nat
  BY VoiceAssumption
<1>5. Heard(voicing, part)
  BY <1>1, <1>4 DEF Heard, Voices, Growing
<1>6. screen' \in Screens /\ InOnePlace(screen', sent) /\ screen'.waiting = {}
  BY <1>1, Invariants, SyncCleared
<1>7. Seen
  BY <1>6 DEF Seen, Timed
<1>8. backlog' <= MaxBacklog + MaxLength
  BY <1>1, <1>4
<1> QED BY <1>1, <1>2, <1>3, <1>5, <1>7, <1>8

LEMMA StopKeeps ==
  ASSUME VoiceInv, Pause \/ Seek
  PROVE  VoiceInv'
<1>1. /\ Silence /\ UNCHANGED backend /\ stops < MaxStops /\ stops' = stops + 1
      /\ (generation' = generation \/ generation' = generation + 1)
  BY DEF Pause, Seek
<1>2. TypeOK /\ MaxStops \in Nat
  BY VoiceAssumption DEF VoiceInv
<1>3. stops' \in 0..MaxStops
  BY <1>1, <1>2 DEF TypeOK
<1>4. heardOf <= generation'
  BY <1>1, <1>2 DEF TypeOK
<1>5. generation' <= stops' + 1 /\ generation' \in 1..(MaxStops + 1)
  BY <1>1, <1>2 DEF TypeOK, VoiceInv, SeeksAreStops
<1> QED BY <1>1, <1>3, <1>4, <1>5, SilenceHeard, Assembled

LEMMA HearingKeeps ==
  ASSUME VoiceInv, BackendHearsSeek
  PROVE  VoiceInv'
<1>1. /\ heardOf' = generation /\ UNCHANGED <<streaming, sent, voicing, part, generation, stops>>
      /\ UNCHANGED <<decoding, backlog, playing, open, screen>>
  BY DEF BackendHearsSeek, sound
<1>2. TypeOK'
  BY <1>1 DEF VoiceInv, TypeOK
<1> QED BY <1>1, <1>2 DEF VoiceInv, SeeksAreStops, Voices, Lag, Growing, BacklogBounded, Timed

LEMMA LessLater ==
  ASSUME NEW n \in Nat
  PROVE  Less(n) \in Nat /\ Less(n) <= n /\ (n > 0 => Less(n) = n - 1) /\ (n = 0 => Less(n) = 0)
BY DEF Less

LEMMA LaterOf ==
  ASSUME NEW timers, NEW w \in Later(timers)
  PROVE  \E t \in timers : w = [t EXCEPT !.left = Less(@)]
BY Zenon DEF Later

LEMMA LaterScreen ==
  ASSUME NEW st \in Sendings, NEW scr \in Screens, InOnePlace(scr, st),
         NEW new, new = [scr EXCEPT !.held = Later(@), !.waiting = Later(@)]
  PROVE  new \in Screens /\ InOnePlace(new, st) /\ new.waiting = Later(scr.waiting)
<1>1. /\ new.held = Later(scr.held) /\ new.waiting = Later(scr.waiting)
      /\ new.shown = scr.shown /\ new.queue = scr.queue
  BY DEF Screens
<1>2. ASSUME NEW t \in scr.held
      PROVE  [t EXCEPT !.left = Less(@)] \in [segment : Segments, left : 0..Fallback]
  <2>1. t \in [segment : Segments, left : 0..Fallback] /\ t.left \in Nat
    BY VoiceAssumption DEF Screens
  <2>2. Less(t.left) \in 0..Fallback
    BY <2>1, LessLater, VoiceAssumption
  <2> QED BY <2>1, <2>2
<1>3. ASSUME NEW t \in scr.waiting
      PROVE  [t EXCEPT !.left = Less(@)] \in [segment : Segments, left : Nat]
  <2>1. t \in [segment : Segments, left : Nat]
    BY DEF Screens
  <2>2. Less(t.left) \in Nat
    BY <2>1, LessLater
  <2> QED BY <2>1, <2>2
<1>4. /\ Later(scr.held) \in SUBSET [segment : Segments, left : 0..Fallback]
      /\ Later(scr.waiting) \in SUBSET [segment : Segments, left : Nat]
  BY <1>2, <1>3 DEF Later
<1>5. new \in Screens
  BY <1>4 DEF Screens
<1>6. /\ \A h \in new.held : \E t \in scr.held : h.segment = t.segment
      /\ \A w \in new.waiting : \E t \in scr.waiting :
           w.segment = t.segment /\ w = [t EXCEPT !.left = Less(@)]
  <2>1. \A t \in scr.held \union scr.waiting : [t EXCEPT !.left = Less(@)].segment = t.segment
    BY DEF Screens
  <2>2. ASSUME NEW h \in new.held
        PROVE  \E t \in scr.held : h.segment = t.segment
    <3>1. h \in Later(scr.held)
      BY <1>1
    <3>2. PICK t \in scr.held : h = [t EXCEPT !.left = Less(@)]
      BY <3>1, LaterOf
    <3> QED BY <2>1, <3>2
  <2>3. ASSUME NEW w \in new.waiting
        PROVE  \E t \in scr.waiting :
                 w.segment = t.segment /\ w = [t EXCEPT !.left = Less(@)]
    <3>1. w \in Later(scr.waiting)
      BY <1>1
    <3>2. PICK t \in scr.waiting : w = [t EXCEPT !.left = Less(@)]
      BY <3>1, LaterOf
    <3> QED BY <2>1, <3>2
  <2> QED BY <2>2, <2>3
<1>7. \A s, synced : Unseen(new, st, s, synced) <=> Unseen(scr, st, s, synced)
  BY <1>1 DEF Unseen
<1>8. InOnePlace(new, st)
  <2>1. \A h \in new.held : Unseen(new, st, h.segment, TRUE)
    BY <1>6, <1>7 DEF InOnePlace
  <2>2. \A w \in new.waiting : Unseen(new, st, w.segment, TRUE)
    BY <1>6, <1>7 DEF InOnePlace
  <2>3. \A w \in new.waiting, h \in new.held : w.segment # h.segment
    BY <1>6 DEF InOnePlace
  <2>4. \A w, x \in new.waiting : w.segment = x.segment => w = x
    BY <1>6 DEF InOnePlace
  <2>5. /\ (\A s \in Segments : new.shown[s] <= 1) /\ Apart(new.queue)
        /\ (\A s \in Segments : s > Len(st) => new.shown[s] = 0)
        /\ (\A s \in In(new.queue) : Unseen(new, st, s, FALSE))
    BY <1>1, <1>7 DEF InOnePlace
  <2> QED BY <2>1, <2>2, <2>3, <2>4, <2>5 DEF InOnePlace
<1> QED BY <1>1, <1>5, <1>8

LEMMA TickKeeps ==
  ASSUME VoiceInv, Tick
  PROVE  VoiceInv'
<1> DEFINE Next1(p) == [p EXCEPT !.from = Less(@), !.upto = Less(@)]
<1>1. /\ TypeOK /\ UNCHANGED <<backend, generation, stops, decoding, open>>
      /\ backlog' = Less(backlog)
      /\ playing' = {Next1(p) : p \in {q \in playing : q.upto > 1}}
      /\ screen' = [screen EXCEPT !.held = Later(@), !.waiting = Later(@)]
  BY DEF VoiceInv, Tick
<1>2. backlog \in Nat /\ backlog' \in Nat /\ backlog' <= backlog
  BY <1>1, LessLater DEF TypeOK
<1>3. ASSUME NEW p \in playing, p.upto > 1
      PROVE  /\ Next1(p) \in Sources /\ Next1(p).segment = p.segment
             /\ Next1(p).from = Less(p.from) /\ Next1(p).upto = p.upto - 1
             /\ p.from \in Nat /\ p.upto \in Nat
  <2>1. p \in Sources /\ p.from \in Nat /\ p.upto \in Nat
    BY Invariants DEF Sources
  <2>2. Less(p.from) \in Nat /\ Less(p.upto) = p.upto - 1 /\ Less(p.upto) \in Nat
    BY <1>3, <2>1, LessLater
  <2> QED BY <2>1, <2>2 DEF Sources
<1>4. \A x \in playing' : \E p \in playing : p.upto > 1 /\ x = Next1(p)
  BY <1>1
<1>5. ASSUME NEW p \in playing, p.upto > 1 PROVE Next1(p) \in playing'
  BY <1>1, <1>5
<1> HIDE DEF Next1
<1>6. playing' \in SUBSET Sources
  BY <1>3, <1>4
<1>7. \A x \in playing' : x.from < x.upto /\ x.upto <= backlog'
  <2> SUFFICES ASSUME NEW x \in playing' PROVE x.from < x.upto /\ x.upto <= backlog'
    OBVIOUS
  <2>1. PICK p \in playing : p.upto > 1 /\ x = Next1(p)
    BY <1>4
  <2>2. x.from = Less(p.from) /\ x.upto = p.upto - 1 /\ p.from \in Nat /\ p.upto \in Nat
    BY <1>3, <2>1
  <2>3. p.from < p.upto /\ p.upto <= backlog
    BY Invariants DEF Voices
  <2>4. backlog' = backlog - 1
    BY <1>1, <1>2, <2>1, <2>2, <2>3, LessLater
  <2> QED BY <1>2, <2>1, <2>2, <2>3, <2>4, LessLater
<1>8. ASSUME NEW x \in playing', NEW y \in playing'
      PROVE  /\ x # y => x.upto <= y.from \/ y.upto <= x.from
             /\ streaming /\ x.upto <= y.from => x.segment <= y.segment
             /\ streaming => x.segment <= voicing
  <2>1. PICK p \in playing : p.upto > 1 /\ x = Next1(p)
    BY <1>4
  <2>2. PICK q \in playing : q.upto > 1 /\ y = Next1(q)
    BY <1>4
  <2>3. /\ x.from = Less(p.from) /\ x.upto = p.upto - 1 /\ p.from \in Nat /\ p.upto \in Nat
        /\ y.from = Less(q.from) /\ y.upto = q.upto - 1 /\ q.from \in Nat /\ q.upto \in Nat
        /\ x.segment = p.segment /\ y.segment = q.segment
    BY <1>3, <2>1, <2>2
  <2>4. /\ p # q => p.upto <= q.from \/ q.upto <= p.from
        /\ streaming /\ p.upto <= q.from => p.segment <= q.segment
        /\ streaming => p.segment <= voicing
    BY Invariants DEF Voices
  <2>5. /\ (p.from > 0 => x.from = p.from - 1) /\ (p.from = 0 => x.from = 0)
        /\ (q.from > 0 => y.from = q.from - 1) /\ (q.from = 0 => y.from = 0)
    BY <2>3, LessLater
  <2>6. x.upto <= y.from => p.upto <= q.from
    BY <2>1, <2>2, <2>3, <2>5
  <2>7. /\ (p.upto <= q.from => x.upto <= y.from)
        /\ (q.upto <= p.from => y.upto <= x.from)
    BY <2>1, <2>2, <2>3, <2>5
  <2> QED BY <2>1, <2>2, <2>3, <2>4, <2>6, <2>7
<1>9. Voices(playing', backlog', voicing)
  BY <1>7, <1>8 DEF Voices
<1>10. /\ Heard(voicing, part)
       /\ ~streaming => open' = {} /\ backlog' <= MaxBacklog + MaxLength
  <2>1. /\ MaxBacklog \in Nat /\ MaxLength \in Nat /\ MaxParts * MaxLength \in Nat
        /\ part * MaxLength \in Nat
    <3>1. MaxBacklog \in Nat /\ MaxLength \in Nat /\ MaxParts \in Nat
      BY VoiceAssumption
    <3>2. part \in Nat
      BY <1>1 DEF TypeOK
    <3>3. MaxParts * MaxLength \in Nat /\ part * MaxLength \in Nat
      BY <3>1, <3>2
    <3> QED BY <3>1, <3>3
  <2>2. open' = open /\ open \in SUBSET Openings
    BY <1>1, Invariants
  <2>3. /\ backlog <= MaxBacklog + (IF streaming THEN MaxParts * MaxLength ELSE MaxLength)
        /\ (~streaming => open = {})
    BY DEF VoiceInv, Lag, BacklogBounded
  <2>4. MaxLength <= MaxParts * MaxLength
    <3>1. MaxParts \in 1..MaxParts
      BY VoiceAssumption
    <3> QED BY <3>1, Lags
  <2>5. backlog' <= MaxBacklog + MaxParts * MaxLength
    BY <1>2, <2>1, <2>3, <2>4
  <2>6. ~streaming => backlog' <= MaxBacklog + MaxLength
    BY <1>2, <2>1, <2>3
  <2>7. Growing(open', backlog', voicing, part)
    BY <1>2, <2>1, <2>2, Invariants DEF Growing
  <2> QED BY <1>2, <1>6, <1>9, <2>2, <2>3, <2>5, <2>6, <2>7 DEF Heard
<1>11. /\ screen' \in Screens /\ InOnePlace(screen', sent)
       /\ screen'.waiting = Later(screen.waiting)
  BY <1>1, Invariants, LaterScreen
<1>12. Timed(screen'.waiting, playing')
  <2> SUFFICES ASSUME NEW w \in screen'.waiting, w.left > 0
               PROVE  \E x \in playing' : x.segment = w.segment /\ x.from = w.left
    BY DEF Timed
  <2>1. PICK t \in screen.waiting : w = [t EXCEPT !.left = Less(@)]
    BY <1>11 DEF Later
  <2>2. t.left \in Nat /\ w.segment = t.segment /\ w.left = Less(t.left)
    BY <2>1, Invariants
  <2>3. t.left > 1 /\ w.left = t.left - 1
    BY <2>2, LessLater
  <2>4. PICK p \in playing : p.segment = t.segment /\ p.from = t.left
    BY <2>2, <2>3, Invariants DEF Timed
  <2>5. p.from < p.upto /\ p.from \in Nat /\ p.upto \in Nat
    BY Invariants DEF Voices, Sources
  <2>6. p.upto > 1
    BY <2>3, <2>4, <2>5
  <2>7. Next1(p) \in playing' /\ Next1(p).segment = p.segment /\ Next1(p).from = Less(p.from)
    BY <1>3, <1>5, <2>6
  <2> QED BY <2>2, <2>3, <2>4, <2>7
<1>13. Seen
  BY <1>11, <1>12 DEF Seen
<1>14. /\ generation' \in 1..(MaxStops + 1) /\ heardOf <= generation' /\ stops' \in 0..MaxStops
       /\ generation' <= stops' + 1
       /\ decoding' \in SUBSET [segment : Segments, part : 1..MaxParts, fresh : BOOLEAN]
       /\ (streaming => decoding' = {})
  BY <1>1 DEF VoiceInv, TypeOK, Lag, SeeksAreStops
<1> HIDE DEF Heard, Seen
<1> QED BY <1>1, <1>10, <1>13, <1>14, Assembled
-----------------------------------------------------------------------------
LEMMA InitVoice == Init => VoiceInv
<1> SUFFICES ASSUME Init PROVE VoiceInv
  OBVIOUS
<1>1. MaxStops \in Nat /\ MaxBacklog \in Nat /\ MaxLength \in Nat /\ MaxParts \in Nat
      /\ MaxSegments \in Nat /\ MaxParts * MaxLength \in Nat /\ part = 0
  BY VoiceAssumption DEF Init
<1>2. <<>> \in Seq(Segments) /\ <<>> \in Seq(Seq(Segments)) /\ In(<<>>) = {} /\ Apart(<<>>)
      /\ <<>> \in Seq([generation : Nat, synced : BOOLEAN]) /\ Len(<<>>) = 0
  BY DEF In, Apart
<1>3. screen \in Screens
  BY <1>2 DEF Init, Screens
<1>4. TypeOK
  BY <1>1, <1>2, <1>3 DEF Init, TypeOK
<1>5. InOnePlace(screen, sent)
  <2>1. screen.held = {} /\ screen.waiting = {} /\ screen.queue = <<>>
    BY DEF Init
  <2>2. screen.shown = [s \in Segments |-> 0]
    BY DEF Init
  <2>3. \A s \in Segments : screen.shown[s] = 0
    BY <2>2
  <2>4. \A s \in Segments : screen.shown[s] <= 1 /\ (s > Len(sent) => screen.shown[s] = 0)
    BY <2>3
  <2>5. In(screen.queue) = {} /\ Apart(screen.queue)
    BY <1>2, <2>1
  <2> HIDE DEF Init
  <2> QED BY <2>1, <2>4, <2>5 DEF InOnePlace
<1>6. SeeksAreStops /\ Voices(playing, backlog, voicing) /\ Timed(screen.waiting, playing)
  BY DEF Init, SeeksAreStops, Voices, Timed
<1>7. Lag
  BY <1>1 DEF Init, Lag, Growing, BacklogBounded
<1> QED BY <1>4, <1>5, <1>6, <1>7 DEF VoiceInv

LEMMA StepVoice == VoiceInv /\ [Next]_vars => VoiceInv'
<1> SUFFICES ASSUME VoiceInv, [Next]_vars PROVE VoiceInv'
  OBVIOUS
<1>1. CASE SubtitleArrives
  BY <1>1, SubtitleKeeps
<1>2. CASE Pause \/ Seek
  BY <1>2, StopKeeps
<1>3. CASE BackendHearsSeek
  BY <1>3, HearingKeeps
<1>4. CASE \E s \in Segments : PartArrives(s) \/ PieceArrives(s)
  BY <1>4, PartKeeps, PieceKeeps
<1>5. CASE \E d \in decoding : Decoded(d) \/ DecodingFails(d)
  BY <1>5, DecodedKeeps, FailureKeeps
<1>6. CASE Timers
  BY <1>6, TimersKeep
<1>7. CASE Tick
  BY <1>7, TickKeeps
<1>8. CASE UNCHANGED vars
  <2>1. /\ UNCHANGED <<streaming, sent, voicing, part, heardOf, generation, stops>>
        /\ UNCHANGED <<decoding, backlog, playing, open, screen>>
    BY <1>8 DEF vars, backend, sound
  <2>2. TypeOK'
    BY <2>1 DEF VoiceInv, TypeOK
  <2> QED BY <2>1, <2>2 DEF VoiceInv, SeeksAreStops, Voices, Lag, Growing, BacklogBounded, Timed
<1> QED BY <1>1, <1>2, <1>3, <1>4, <1>5, <1>6, <1>7, <1>8 DEF Next

LEMMA AlwaysVoice == Spec => []VoiceInv
BY InitVoice, StepVoice, PTL DEF Spec

(* However whole and streamed voices, failures, pauses and seeks mix, two   *)
(* voices are never heard at once and streamed ones are heard in order      *)
(* (AudioMixer.scheduleTTSBuffer and scheduleStreamPiece).                  *)
THEOREM OneVoiceAtATime == Spec => []VoicesInTurn
<1>1. VoiceInv => VoicesInTurn
  BY Invariants DEF Voices, VoicesInTurn
<1> QED BY <1>1, AlwaysVoice, PTL

(* The dubbing never lags further behind the video than the limit at which  *)
(* voices are refused and the one voice let in before it                    *)
(* (isTtsBacklogTooLong, TtsStreamReceiver.openSegment).                    *)
THEOREM DubbingKeepsUp == Spec => []BacklogBounded
<1>1. VoiceInv => BacklogBounded
  BY DEF VoiceInv, Lag
<1> QED BY <1>1, AlwaysVoice, PTL

(* A subtitle released by its voice waits for exactly the start of a source *)
(* of its segment, and none is displayed twice: TtsSubtitleSync has it in   *)
(* one place only, and a queue of cues holds each segment once.             *)
THEOREM ShownOnceWithItsVoice == Spec => []SubtitleWithVoice
<1>1. VoiceInv => SubtitleWithVoice
  BY Invariants DEF VoiceInv, SubtitleWithVoice, Timed, InOnePlace
<1> QED BY <1>1, AlwaysVoice, PTL
=============================================================================
