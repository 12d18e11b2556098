------------------------- MODULE PlaybackSyncProofs -------------------------
(***************************************************************************)
(* Proofs about PlaybackSync: what is heard belongs to the present session  *)
(* and position, the two counters of seeks agree, and what is shown in      *)
(* Firefox is of the running session or waits for a clean-up to hide it.    *)
(***************************************************************************)
EXTENDS PlaybackSync, FiniteSetTheorems, TLAPS

(* The number of seeks on their way in a socket.                            *)
Count(q) == Cardinality(Seeks(q))

(* Nothing has happened on the socket of session s.                         *)
Untouched(s) ==
  /\ gateway[s] = "none" /\ serverGeneration[s] = 1 /\ inPipeline[s] = {}
  /\ toServer[s] = <<>> /\ toClient[s] = <<>>

PhaseFits == session = 0 <=> phase = "none"

NotYet ==
  \A s \in Sessions :
    s > started \/ (s = session /\ (phase = "connecting" \/ Cleanup("connecting") \in ending))
      => Untouched(s)

(* The clean-ups under way: one for a session that is over or whose start   *)
(* has failed.                                                              *)
EndingFits ==
  \A e \in ending :
    /\ e.session <= started /\ (e.session = session => phase = "failing")
    /\ \A d \in ending : d.session = e.session => d = e

(* A start is the first message of its socket.                              *)
StartFirst ==
  \A s \in Sessions : \A i \in DOMAIN toServer[s] :
    toServer[s][i].kind = "start" => i = 1 /\ gateway[s] = "none"

NoAnswerYet == \A s \in Sessions : gateway[s] = "none" => toClient[s] = <<>>

NotStopped ==
  session # 0 /\ phase # "failing" =>
    \A i \in DOMAIN toServer[session] : toServer[session][i].kind # "stop"

(* SESSION_READY, received or on its way, means the gateway is listening.   *)
ReadyIsActive ==
  /\ phase = "ready" => gateway[session] = "active"
  /\ session # 0 /\ phase # "failing" =>
       \A i \in DOMAIN toClient[session] :
         toClient[session][i].kind = "ready" => gateway[session] = "active"

(* The backend is never ahead of the extension.                             *)
NeverAhead ==
  \A s \in Sessions :
    LET known == serverGeneration[s] + Count(toServer[s])
    IN  known <= MaxGeneration /\ (s = session => known <= generation)

(* In Chrome no seek is lost.                                               *)
NothingLost ==
  browser = "chrome" /\ session # 0 =>
    /\ generation = serverGeneration[session] + Count(toServer[session])
    /\ phase # "ready" => generation = 1

SocketInv ==
  /\ PhaseFits /\ EndingFits /\ NotYet /\ StartFirst /\ NoAnswerYet /\ NotStopped
  /\ ReadyIsActive /\ NeverAhead /\ NothingLost

(* The sentences and generations in flight are some the pipeline had.       *)
AnswersFit ==
  \A s \in Sessions : \A i \in DOMAIN toClient[s] :
    /\ toClient[s][i].generation <= MaxGeneration
    /\ toClient[s][i].kind \in {"subtitle", "syncedSubtitle", "tts"}
       => toClient[s][i].sentence \in Sentences

AudioFits ==
  \A s \in Sessions : \A i \in DOMAIN toServer[s] :
    toServer[s][i].kind = "audio" => toServer[s][i].sentence \in Sentences

HeldFits == \A c \in held : c.generation <= MaxGeneration

(* Before SESSION_READY a session has heard and said nothing.               *)
NothingSaidYet ==
  session # 0 /\ phase # "ready" =>
    /\ inPipeline[session] = {}
    /\ \A i \in DOMAIN toServer[session] : toServer[session][i].kind # "audio"
    /\ \A i \in DOMAIN toClient[session] : toClient[session][i].kind \in {"ready", "error"}
    /\ browser = "firefox" => \A c \in cues \union held : c.session # session

PlayInv ==
  /\ VoiceOfThisPosition /\ CueHasOwner /\ NothingSaidYet
  /\ AnswersFit /\ AudioFits /\ HeldFits

SyncInv == SocketInv /\ PlayInv
-----------------------------------------------------------------------------
(* Counting the seeks of a queue.                                           *)

LEMMA SeeksFinite ==
  ASSUME NEW q \in Seq(Requests)
  PROVE  IsFiniteSet(Seeks(q)) /\ Count(q) \in Nat
<1>1. Len(q) \in Nat /\ Seeks(q) \in SUBSET (1..Len(q))
  BY DEF Seeks
<1>2. IsFiniteSet(1..Len(q))
  BY <1>1, FS_Interval
<1> QED BY <1>1, <1>2, FS_Subset, FS_CardinalityType DEF Count

LEMMA CountEmpty == Count(<<>>) = 0
<1>1. Seeks(<<>>) = {}
  BY DEF Seeks
<1> QED BY <1>1, FS_EmptySet DEF Count

LEMMA CountAppend ==
  ASSUME NEW q \in Seq(Requests), NEW m \in Requests
  PROVE  Count(Append(q, m)) = Count(q) + (IF m.kind = "seek" THEN 1 ELSE 0)
<1>1. IsFiniteSet(Seeks(q)) /\ Count(q) \in Nat
  BY SeeksFinite
<1>2. /\ Append(q, m) \in Seq(Requests) /\ Len(Append(q, m)) = Len(q) + 1
      /\ Append(q, m)[Len(q) + 1] = m
      /\ \A i \in 1..Len(q) : Append(q, m)[i] = q[i]
  OBVIOUS
<1>3. CASE m.kind = "seek"
  <2>1. Seeks(Append(q, m)) = Seeks(q) \cup {Len(q) + 1}
    BY <1>2, <1>3 DEF Seeks
  <2>2. Len(q) + 1 \notin Seeks(q)
    BY DEF Seeks
  <2> QED BY <1>1, <1>3, <2>1, <2>2, FS_AddElement DEF Count
<1>4. CASE m.kind # "seek"
  <2>1. Seeks(Append(q, m)) = Seeks(q)
    BY <1>2, <1>4 DEF Seeks
  <2> QED BY <1>1, <1>4, <2>1 DEF Count
<1> QED BY <1>3, <1>4

LEMMA CountTail ==
  ASSUME NEW q \in Seq(Requests), q # <<>>
  PROVE  Count(q) = Count(Tail(q)) + (IF Head(q).kind = "seek" THEN 1 ELSE 0)
<1> DEFINE T == Seeks(Tail(q))
           U == Seeks(q) \ {1}
           f == [i \in T |-> i + 1]
<1>1. /\ Tail(q) \in Seq(Requests) /\ Len(q) \in Nat \ {0} /\ Len(Tail(q)) = Len(q) - 1
      /\ Head(q) = q[1] /\ \A i \in 1..(Len(q) - 1) : Tail(q)[i] = q[i + 1]
  OBVIOUS
<1>2. T \subseteq 1..(Len(q) - 1) /\ U \subseteq 2..Len(q)
  BY <1>1 DEF Seeks
<1>3. \A i \in T : f[i] \in U
  BY <1>1 DEF Seeks
<1>4. \A j \in U : j - 1 \in T /\ f[j - 1] = j
  BY <1>1 DEF Seeks
<1>5. \A i, j \in T : f[i] = f[j] => i = j
  BY <1>2
<1>6. f \in [T -> U]
  BY <1>3
<1>7. f \in Bijection(T, U)
  BY <1>4, <1>5, <1>6 DEF Bijection, Injection, Surjection, IsInjective
<1>8. IsFiniteSet(T) /\ Count(Tail(q)) \in Nat
  BY <1>1, SeeksFinite
<1>9. Cardinality(U) = Count(Tail(q)) /\ IsFiniteSet(U)
  BY <1>7, <1>8, FS_Bijection DEF ExistsBijection, Count
<1>10. CASE Head(q).kind = "seek"
  <2>1. Seeks(q) = U \cup {1} /\ 1 \notin U
    BY <1>1, <1>10 DEF Seeks
  <2> QED BY <1>9, <1>10, <2>1, FS_AddElement DEF Count
<1>11. CASE Head(q).kind # "seek"
  <2>1. Seeks(q) = U
    BY <1>1, <1>11 DEF Seeks
  <2>2. Count(q) = Count(Tail(q))
    BY <1>9, <2>1 DEF Count
  <2> QED BY <1>8, <1>11, <2>2
<1> QED BY <1>10, <1>11

(* What Append, Tail and concatenation do to the messages of a queue.       *)
LEMMA AppendFacts ==
  ASSUME NEW S, NEW q \in Seq(S), NEW m \in S
  PROVE  /\ Append(q, m) \in Seq(S) /\ Append(q, m) # <<>>
         /\ DOMAIN Append(q, m) = 1..(Len(q) + 1) /\ DOMAIN q = 1..Len(q) /\ Len(q) \in Nat
         /\ Append(q, m)[Len(q) + 1] = m
         /\ \A i \in 1..Len(q) : Append(q, m)[i] = q[i]
OBVIOUS

LEMMA TailFacts ==
  ASSUME NEW S, NEW q \in Seq(S), q # <<>>
  PROVE  /\ Tail(q) \in Seq(S) /\ Head(q) \in S /\ Head(q) = q[1] /\ 1 \in DOMAIN q
         /\ \A i \in DOMAIN Tail(q) :
              i + 1 \in DOMAIN q /\ i + 1 # 1 /\ Tail(q)[i] = q[i + 1]
OBVIOUS
-----------------------------------------------------------------------------
(* What an action leaves alone stays in order.                              *)

socket == <<browser, session, started, phase, ending, generation, toServer, toClient, gateway,
            serverGeneration, inPipeline>>

LEMMA SocketKept ==
  ASSUME SocketInv, UNCHANGED socket
  PROVE  SocketInv'
BY DEF SocketInv, socket, PhaseFits, EndingFits, NotYet, Cleanup, Untouched, StartFirst, NoAnswerYet, NotStopped,
       ReadyIsActive, NeverAhead, NothingLost

LEMMA QuietKept ==
  ASSUME NothingSaidYet, UNCHANGED <<browser, session, phase, inPipeline, toServer, toClient>>,
         cues' \union held' \subseteq cues \union held
  PROVE  NothingSaidYet'
BY DEF NothingSaidYet

(* A message other than the start does not put a start out of place.        *)
LEMMA StartStaysFirst ==
  ASSUME TypeOK, StartFirst, NEW s \in Sessions, NEW m \in Requests, m.kind # "start",
         toServer' = [toServer EXCEPT ![s] = Append(@, m)], UNCHANGED gateway
  PROVE  StartFirst'
<1>1. toServer[s] \in Seq(Requests)
  BY DEF TypeOK
<1>2. /\ DOMAIN Append(toServer[s], m) = 1..(Len(toServer[s]) + 1)
      /\ DOMAIN toServer[s] = 1..Len(toServer[s]) /\ Len(toServer[s]) \in Nat
      /\ Append(toServer[s], m)[Len(toServer[s]) + 1] = m
      /\ \A i \in 1..Len(toServer[s]) : Append(toServer[s], m)[i] = toServer[s][i]
  BY <1>1, AppendFacts
<1>3. /\ toServer'[s] = Append(toServer[s], m)
      /\ \A r \in Sessions : r # s => toServer'[r] = toServer[r]
  BY DEF TypeOK
<1>4. \A i \in DOMAIN toServer'[s] :
        toServer'[s][i].kind = "start" => i = 1 /\ gateway[s] = "none"
  BY <1>2, <1>3 DEF StartFirst
<1> QED BY <1>3, <1>4 DEF StartFirst

(* The same of the sentences on their way.                                  *)
LEMMA AudioStaysFit ==
  ASSUME TypeOK, AudioFits, NEW s \in Sessions, NEW m \in Requests,
         m.kind = "audio" => m.sentence \in Sentences,
         toServer' = [toServer EXCEPT ![s] = Append(@, m)]
  PROVE  AudioFits'
<1>1. toServer[s] \in Seq(Requests)
  BY DEF TypeOK
<1>2. /\ DOMAIN Append(toServer[s], m) = 1..(Len(toServer[s]) + 1)
      /\ DOMAIN toServer[s] = 1..Len(toServer[s]) /\ Len(toServer[s]) \in Nat
      /\ Append(toServer[s], m)[Len(toServer[s]) + 1] = m
      /\ \A i \in 1..Len(toServer[s]) : Append(toServer[s], m)[i] = toServer[s][i]
  BY <1>1, AppendFacts
<1>3. /\ toServer'[s] = Append(toServer[s], m)
      /\ \A r \in Sessions : r # s => toServer'[r] = toServer[r]
  BY DEF TypeOK
<1>4. \A i \in DOMAIN toServer'[s] :
        toServer'[s][i].kind = "audio" => toServer'[s][i].sentence \in Sentences
  BY <1>2, <1>3 DEF AudioFits
<1> QED BY <1>3, <1>4 DEF AudioFits
-----------------------------------------------------------------------------
(* The beginning, and the actions of the extension.                         *)

LEMMA InitInv ==
  Init => SyncInv
<1> SUFFICES ASSUME Init PROVE SyncInv
  OBVIOUS
<1> USE PlaybackAssumption
<1>0. MaxSessions \in Nat /\ MaxSentences \in Nat /\ 1 \in 1..MaxGeneration
  OBVIOUS
<1>1. TypeOK
  <2>1. toServer \in [Sessions -> Seq(Requests)] /\ toClient \in [Sessions -> Seq(Messages)]
    BY DEF Init
  <2>2. /\ gateway \in [Sessions -> {"none", "starting", "active", "closed"}]
        /\ serverGeneration \in [Sessions -> 1..MaxGeneration]
        /\ inPipeline \in [Sessions -> SUBSET Sentences]
    BY <1>0 DEF Init
  <2>3. /\ decoding \subseteq Voices /\ audio \subseteq Voices
        /\ held \subseteq Cues /\ cues \subseteq Cues /\ refused \subseteq Cues
    BY DEF Init
  <2>4. /\ session \in {0, started} /\ started \in 0..MaxSessions /\ generation \in 1..MaxGeneration
        /\ cueGeneration \in 0..MaxGeneration /\ heard \in 0..MaxSentences /\ playbackEpoch \in Nat
    BY <1>0 DEF Init
  <2>5. /\ browser \in {"chrome", "firefox"} /\ paused \in BOOLEAN /\ ending \subseteq Cleanups
        /\ phase \in {"none", "connecting", "opening", "ready", "failing"}
    BY DEF Init
  <2> QED BY <2>1, <2>2, <2>3, <2>4, <2>5 DEF TypeOK
<1>2. \A s \in Sessions : serverGeneration[s] + Count(toServer[s]) = 1
  BY CountEmpty DEF Init
<1>3. SocketInv
  BY <1>2 DEF Init, SocketInv, PhaseFits, EndingFits, NotYet, Cleanup, Untouched, StartFirst, NoAnswerYet,
       NotStopped, ReadyIsActive, NeverAhead, NothingLost, Sessions
<1>4. PlayInv
  BY <1>1 DEF Init, PlayInv, VoiceOfThisPosition, CueHasOwner, NothingSaidYet, AnswersFit,
       AudioFits, HeldFits
<1> QED BY <1>3, <1>4 DEF SyncInv

LEMMA StartInv ==
  ASSUME SyncInv, StartSession
  PROVE  SyncInv'
<1> USE PlaybackAssumption
<1>1. TypeOK /\ TypeOK'
  BY DEF SyncInv, PlayInv, VoiceOfThisPosition, TypeOK, StartSession, sound, subtitles, server,
       wires, Sessions
<1>2. session' \in Sessions /\ Untouched(session') /\ session' > started
  BY <1>1 DEF SyncInv, SocketInv, NotYet, Cleanup, StartSession, TypeOK, Sessions
<1>3. serverGeneration[session'] + Count(toServer[session']) = 1
  BY <1>2, CountEmpty DEF Untouched
<1>4. SocketInv'
  <2>1. PhaseFits' /\ EndingFits'
    <3>1. /\ started' = started + 1 /\ started \in Nat /\ session' = started + 1
          /\ phase' = "connecting" /\ ending' = ending
      BY <1>1 DEF StartSession, TypeOK
    <3>2. \A e \in ending : e.session \in Nat /\ e.session <= started
      BY <1>1 DEF SyncInv, SocketInv, EndingFits, TypeOK, Cleanups, Sessions
    <3>3. \A e \in ending : e.session <= started' /\ e.session # session'
      BY <3>1, <3>2
    <3>4. EndingFits'
      BY <3>1, <3>3 DEF SyncInv, SocketInv, EndingFits
    <3> QED BY <3>1, <3>4 DEF PhaseFits
  <2>2. NotYet'
    BY <1>1, <1>2 DEF SyncInv, SocketInv, StartSession, NotYet, Cleanup, Untouched, server, wires, TypeOK,
      Sessions
  <2>3. StartFirst' /\ NoAnswerYet'
    BY DEF SyncInv, SocketInv, StartSession, StartFirst, NoAnswerYet, server, wires
  <2>4. NotStopped' /\ ReadyIsActive'
    BY <1>2 DEF StartSession, NotStopped, ReadyIsActive, Untouched, server, wires
  <2>5. NeverAhead'
    BY <1>1, <1>2, <1>3 DEF SyncInv, SocketInv, StartSession, NeverAhead, server, wires
  <2>6. NothingLost'
    BY <1>2, <1>3 DEF StartSession, NothingLost, server, wires
  <2> QED BY <2>1, <2>2, <2>3, <2>4, <2>5, <2>6 DEF SocketInv
<1>5. /\ audio = {} /\ session = 0 /\ \A c \in cues \union held : c.session # 0
      /\ \A e \in ending : e.session # session'
  <2>1. audio = {} /\ session = 0 /\ \A c \in cues \union held : c.session # 0
    BY <1>1 DEF SyncInv, PlayInv, VoiceOfThisPosition, StartSession, TypeOK, Voices, Cues, Sessions
  <2>2. \A e \in ending : e.session \in Nat /\ e.session <= started
    BY <1>1 DEF SyncInv, SocketInv, EndingFits, TypeOK, Cleanups, Sessions
  <2> QED
    BY <1>1, <1>2, <2>1, <2>2 DEF TypeOK, Sessions
<1>6. VoiceOfThisPosition' /\ CueHasOwner'
  BY <1>1, <1>5 DEF SyncInv, PlayInv, StartSession, VoiceOfThisPosition, CueHasOwner, sound,
     subtitles
<1>7. NothingSaidYet'
  <2>1. browser = "firefox" => \A c \in cues \union held : c.session # session'
    BY <1>1, <1>2, <1>5 DEF SyncInv, PlayInv, CueHasOwner, TypeOK, Cleanups, Sessions
  <2> QED
    BY <1>2, <2>1 DEF StartSession, NothingSaidYet, Untouched, server, wires, subtitles
<1>8. AnswersFit' /\ AudioFits' /\ HeldFits'
  BY DEF SyncInv, PlayInv, AnswersFit, AudioFits, HeldFits, StartSession, wires, subtitles
<1> QED BY <1>4, <1>6, <1>7, <1>8 DEF SyncInv, PlayInv

LEMMA OpenInv ==
  ASSUME SyncInv, SocketOpens
  PROVE  SyncInv'
<1> DEFINE m == Request("start")
<1>1. m \in Requests /\ m.kind = "start"
  BY PlaybackAssumption DEF Request, Requests
<1>2. /\ TypeOK /\ session \in Sessions /\ Untouched(session) /\ session # 0
      /\ \/ phase = "connecting" /\ phase' = "opening" /\ ending' = ending
         \/ /\ phase = "failing" /\ phase' = "failing" /\ Cleanup("connecting") \in ending
            /\ ending' = (ending \ {Cleanup("connecting")}) \union {Cleanup("open")}
      /\ UNCHANGED <<browser, session, started, generation, playbackEpoch, paused, sound,
                     subtitles, server, toClient>>
  <2>1. TypeOK /\ NotYet /\ session # 0
    BY DEF SyncInv, SocketInv, PlayInv, VoiceOfThisPosition, PhaseFits, SocketOpens
  <2>2. session \in Sessions
    BY <2>1 DEF TypeOK, Sessions
  <2>3. Untouched(session)
    BY <2>1, <2>2 DEF NotYet, SocketOpens
  <2> QED
    BY <2>1, <2>2, <2>3 DEF SocketOpens
<1>3. /\ toServer' = [toServer EXCEPT ![session] = <<m>>]
      /\ toServer[session] = <<>>
  BY <1>2 DEF SocketOpens, Untouched
<1>4. TypeOK'
  <2>1. ending' \subseteq Cleanups
    BY <1>2 DEF TypeOK, Cleanup, Cleanups
  <2>2. <<m>> \in Seq(Requests)
    BY <1>1
  <2>3. toServer' \in [Sessions -> Seq(Requests)]
    BY <1>2, <1>3, <2>2 DEF TypeOK
  <2> QED
    BY <1>2, <2>1, <2>3 DEF TypeOK, sound, subtitles, server
<1>5. Count(<<m>>) = 0
  <2>1. <<>> \in Seq(Requests) /\ Append(<<>>, m) = <<m>>
    OBVIOUS
  <2>2. Count(Append(<<>>, m)) = Count(<<>>) + 0
    BY <1>1, <2>1, CountAppend
  <2> HIDE DEF m
  <2> QED BY <2>1, <2>2, CountEmpty
<1>6. SocketInv'
  <2>1. PhaseFits' /\ EndingFits'
    <3>1. EndingFits /\ PhaseFits
      BY DEF SyncInv, SocketInv
    <3>2. Cleanup("connecting").session = session /\ Cleanup("open").session = session
      BY DEF Cleanup
    <3>3. CASE phase = "connecting"
      BY <1>2, <3>1, <3>3 DEF PhaseFits, EndingFits
    <3>4. CASE phase = "failing"
      BY <1>2, <3>1, <3>2, <3>4 DEF PhaseFits, EndingFits
    <3> QED
      BY <1>2, <3>3, <3>4
  <2>2. NotYet'
    <3>1. phase' # "connecting" /\ Cleanup("connecting")' \notin ending'
      BY <1>2 DEF SyncInv, SocketInv, EndingFits, Cleanup
    <3>2. \A s \in Sessions : s > started => s # session
      BY <1>2 DEF TypeOK, Sessions
    <3> QED
      BY <1>2, <1>3, <3>1, <3>2 DEF SyncInv, SocketInv, NotYet, Untouched, server, TypeOK
  <2>3. StartFirst' /\ NoAnswerYet'
    BY <1>1, <1>2, <1>3 DEF SyncInv, SocketInv, StartFirst, NoAnswerYet, server, TypeOK, Untouched
  <2>4. NotStopped' /\ ReadyIsActive'
    <3>1. toServer'[session] = <<m>> /\ toClient'[session] = <<>> /\ phase' # "ready"
      BY <1>2, <1>3 DEF TypeOK, Untouched
    <3> HIDE DEF m
    <3> QED
      BY <1>1, <1>2, <3>1 DEF NotStopped, ReadyIsActive
  <2>5. \A s \in Sessions : Count(toServer'[s]) = Count(toServer[s])
    BY <1>2, <1>3, <1>5, CountEmpty DEF TypeOK
  <2>6. NeverAhead' /\ NothingLost'
    BY <1>2, <2>5 DEF SyncInv, SocketInv, NeverAhead, NothingLost, server
  <2> QED BY <2>1, <2>2, <2>3, <2>4, <2>6 DEF SocketInv
<1>7. VoiceOfThisPosition' /\ AnswersFit' /\ HeldFits'
  BY <1>2, <1>4 DEF SyncInv, PlayInv, VoiceOfThisPosition, AnswersFit, HeldFits, sound, subtitles
<1>8. AudioFits'
  BY <1>1, <1>2, <1>3 DEF SyncInv, PlayInv, AudioFits, TypeOK
<1>9. CueHasOwner'
  BY <1>2 DEF SyncInv, PlayInv, CueHasOwner, Cleanup, subtitles
<1>10. NothingSaidYet'
  <2>1. /\ toServer'[session] = <<m>> /\ toClient'[session] = <<>> /\ inPipeline'[session] = {}
        /\ browser = "firefox" => \A c \in cues \union held : c.session # session
    BY <1>2, <1>3 DEF SyncInv, PlayInv, NothingSaidYet, TypeOK, Untouched, server
  <2> HIDE DEF m
  <2> QED
    BY <1>1, <1>2, <2>1 DEF NothingSaidYet, subtitles
<1> QED BY <1>6, <1>7, <1>8, <1>9, <1>10 DEF SyncInv, PlayInv

(* What the extension sends in the middle of a session.                     *)
LEMMA Sends ==
  ASSUME TypeOK, NEW s \in Sessions, NEW m \in Requests,
         toServer' = [toServer EXCEPT ![s] = Append(@, m)]
  PROVE  /\ toServer' \in [Sessions -> Seq(Requests)] /\ toServer'[s] # <<>>
         /\ \A r \in Sessions : r # s => toServer'[r] = toServer[r]
         /\ \A r \in Sessions : Count(toServer[r]) \in Nat
         /\ Count(toServer'[s]) = Count(toServer[s]) + (IF m.kind = "seek" THEN 1 ELSE 0)
<1>1. \A r \in Sessions : toServer[r] \in Seq(Requests)
  BY DEF TypeOK
<1>2. toServer'[s] = Append(toServer[s], m) /\ \A r \in Sessions : r # s => toServer'[r] = toServer[r]
  BY DEF TypeOK
<1>3. Append(toServer[s], m) \in Seq(Requests) /\ Append(toServer[s], m) # <<>>
  BY <1>1, AppendFacts
<1>4. toServer' \in [Sessions -> Seq(Requests)]
  BY <1>3 DEF TypeOK
<1>5. Count(toServer'[s]) = Count(toServer[s]) + (IF m.kind = "seek" THEN 1 ELSE 0)
  BY <1>1, <1>2, CountAppend
<1> QED BY <1>1, <1>2, <1>3, <1>4, <1>5, SeeksFinite

LEMMA SendsOther ==
  ASSUME TypeOK, NEW s \in Sessions, NEW m \in Requests, m.kind # "seek",
         toServer' = [toServer EXCEPT ![s] = Append(@, m)]
  PROVE  /\ toServer' \in [Sessions -> Seq(Requests)] /\ toServer'[s] # <<>>
         /\ \A r \in Sessions : r # s => toServer'[r] = toServer[r]
         /\ \A r \in Sessions : Count(toServer'[r]) = Count(toServer[r])
<1>1. /\ toServer' \in [Sessions -> Seq(Requests)] /\ toServer'[s] # <<>>
      /\ \A r \in Sessions : r # s => toServer'[r] = toServer[r]
      /\ \A r \in Sessions : Count(toServer[r]) \in Nat
      /\ Count(toServer'[s]) = Count(toServer[s]) + 0
  BY Sends
<1>2. Count(toServer'[s]) = Count(toServer[s])
  BY <1>1
<1> QED BY <1>1, <1>2

LEMMA NotStoppedStays ==
  ASSUME TypeOK, NotStopped, session \in Sessions, NEW m \in Requests, m.kind # "stop",
         toServer' = [toServer EXCEPT ![session] = Append(@, m)], UNCHANGED <<session, phase>>
  PROVE  NotStopped'
<1>1. toServer[session] \in Seq(Requests) /\ session # 0
  BY DEF TypeOK, Sessions
<1>2. /\ DOMAIN Append(toServer[session], m) = 1..(Len(toServer[session]) + 1)
      /\ DOMAIN toServer[session] = 1..Len(toServer[session]) /\ Len(toServer[session]) \in Nat
      /\ Append(toServer[session], m)[Len(toServer[session]) + 1] = m
      /\ \A i \in 1..Len(toServer[session]) :
           Append(toServer[session], m)[i] = toServer[session][i]
  BY <1>1, AppendFacts
<1>3. toServer'[session] = Append(toServer[session], m)
  BY DEF TypeOK
<1> QED BY <1>1, <1>2, <1>3 DEF NotStopped

LEMMA QuietSends ==
  ASSUME TypeOK, NothingSaidYet, NEW r \in Sessions, NEW m \in Requests, m.kind # "audio",
         toServer' = [toServer EXCEPT ![r] = Append(@, m)],
         UNCHANGED <<browser, session, phase, inPipeline, toClient>>,
         cues' \union held' \subseteq cues \union held
  PROVE  NothingSaidYet'
<1>1. toServer[r] \in Seq(Requests)
  BY DEF TypeOK
<1>2. /\ DOMAIN Append(toServer[r], m) = 1..(Len(toServer[r]) + 1)
      /\ DOMAIN toServer[r] = 1..Len(toServer[r]) /\ Len(toServer[r]) \in Nat
      /\ Append(toServer[r], m)[Len(toServer[r]) + 1] = m
      /\ \A i \in 1..Len(toServer[r]) : Append(toServer[r], m)[i] = toServer[r][i]
  BY <1>1, AppendFacts
<1>3. session # 0 => session \in Sessions
  BY DEF TypeOK, Sessions
<1>4. /\ toServer'[r] = Append(toServer[r], m)
      /\ \A x \in Sessions : x # r => toServer'[x] = toServer[x]
  BY DEF TypeOK
<1>5. CASE session = r
  BY <1>2, <1>4, <1>5 DEF NothingSaidYet
<1>6. CASE session # r
  BY <1>3, <1>4, <1>6 DEF NothingSaidYet
<1> QED
  BY <1>5, <1>6

LEMMA SeekInv ==
  ASSUME SyncInv, Seek
  PROVE  SyncInv'
<1> DEFINE m == Request("seek")
<1>1. m \in Requests /\ m.kind = "seek"
  BY PlaybackAssumption DEF Request, Requests
<1>2. TypeOK /\ session \in Sessions /\ session # 0 /\ PhaseFits
  BY DEF SyncInv, SocketInv, PlayInv, VoiceOfThisPosition, TypeOK, Seek, Sessions
<1>3. ASSUME ~(phase \in {"opening", "ready"} \/ Cleanup("open") \in ending)
      PROVE  /\ SocketInv' /\ AudioFits' /\ toServer' \in [Sessions -> Seq(Requests)]
             /\ NothingSaidYet'
  <2>1. browser = "firefox" /\ toServer' = toServer
    BY <1>3 DEF Seek
  <2>2. PhaseFits' /\ EndingFits' /\ NotYet' /\ StartFirst' /\ NoAnswerYet' /\ NotStopped' /\ ReadyIsActive'
    BY <2>1 DEF SyncInv, SocketInv, Seek, PhaseFits, EndingFits, NotYet, Cleanup, Untouched, StartFirst,
       NoAnswerYet, NotStopped, ReadyIsActive, server
  <2>3. \A s \in Sessions : Count(toServer[s]) \in Nat
    BY <1>2, SeeksFinite DEF TypeOK
  <2>4. NeverAhead' /\ NothingLost'
    <3>1. /\ UNCHANGED <<browser, session, serverGeneration, toServer>> /\ generation' = generation + 1
          /\ generation \in Nat /\ \A s \in Sessions : serverGeneration[s] \in Nat
      BY <1>2, <2>1, PlaybackAssumption DEF Seek, server, TypeOK
    <3> QED
      BY <2>1, <2>3, <3>1 DEF SyncInv, SocketInv, NeverAhead, NothingLost
  <2>5. toServer' \in [Sessions -> Seq(Requests)] /\ AudioFits' /\ NothingSaidYet'
    BY <1>2, <2>1 DEF TypeOK, SyncInv, PlayInv, AudioFits, NothingSaidYet, Seek, Silence, server
  <2> QED BY <2>2, <2>4, <2>5 DEF SocketInv
<1>4. ASSUME phase \in {"opening", "ready"} \/ Cleanup("open") \in ending
      PROVE  /\ SocketInv' /\ AudioFits' /\ toServer' \in [Sessions -> Seq(Requests)]
             /\ NothingSaidYet'
  <2>1. toServer' = [toServer EXCEPT ![session] = Append(@, m)]
    BY <1>4 DEF Seek
  <2>0. phase # "connecting" /\ Cleanup("connecting") \notin ending
    BY <1>4 DEF SyncInv, SocketInv, EndingFits, Cleanup
  <2> HIDE DEF m
  <2>2. /\ toServer' \in [Sessions -> Seq(Requests)] /\ toServer'[session] # <<>>
        /\ \A r \in Sessions : r # session => toServer'[r] = toServer[r]
        /\ \A r \in Sessions : Count(toServer[r]) \in Nat
        /\ Count(toServer'[session]) = Count(toServer[session]) + 1
    BY <1>1, <1>2, <2>1, Sends
  <2>3. StartFirst' /\ NotStopped'
    BY <1>1, <1>2, <2>1, StartStaysFirst, NotStoppedStays
       DEF SyncInv, SocketInv, Seek, server
  <2>4. PhaseFits' /\ EndingFits' /\ NotYet' /\ NoAnswerYet' /\ ReadyIsActive'
    <3>1. UNCHANGED <<session, started, phase, ending, gateway, serverGeneration, inPipeline, toClient>>
      BY DEF Seek, server
    <3>2. PhaseFits' /\ EndingFits' /\ NoAnswerYet' /\ ReadyIsActive'
      BY <3>1 DEF SyncInv, SocketInv, PhaseFits, EndingFits, NoAnswerYet, ReadyIsActive
    <3>3. session <= started
      BY <1>2 DEF TypeOK, Sessions
    <3>4. ASSUME NEW s \in Sessions,
                 s > started \/ (s = session /\ (phase = "connecting" \/ Cleanup("connecting") \in ending))
          PROVE  Untouched(s)'
      <4>1. s > started /\ s # session
        BY <1>2, <2>0, <3>3, <3>4 DEF TypeOK, Sessions
      <4>2. Untouched(s)
        BY <4>1 DEF SyncInv, SocketInv, NotYet
      <4> QED
        BY <2>2, <3>1, <4>1, <4>2 DEF Untouched
    <3>5. NotYet'
      BY <3>1, <3>4 DEF NotYet, Cleanup
    <3> QED
      BY <3>2, <3>5
  <2>5. NeverAhead'
    <3>1. /\ \A s \in Sessions : serverGeneration[s] \in Nat
          /\ generation \in Nat /\ MaxGeneration \in Nat
          /\ generation + 1 <= MaxGeneration /\ generation' = generation + 1
          /\ session' = session /\ serverGeneration' = serverGeneration
      BY <1>2, PlaybackAssumption DEF Seek, server, TypeOK
    <3>2. serverGeneration[session] + Count(toServer[session]) <= generation
      BY <1>2 DEF SyncInv, SocketInv, NeverAhead
    <3>3. serverGeneration[session] + Count(toServer'[session]) <= generation + 1
      BY <1>2, <2>2, <3>1, <3>2
    <3>4. \A s \in Sessions : s # session =>
            serverGeneration[s] + Count(toServer'[s]) <= MaxGeneration
      BY <2>2 DEF SyncInv, SocketInv, NeverAhead
    <3>5. serverGeneration[session] + Count(toServer'[session]) <= MaxGeneration
      BY <1>2, <2>2, <3>1, <3>3
    <3> QED BY <3>1, <3>3, <3>4, <3>5 DEF NeverAhead
  <2>6. NothingLost'
    BY <1>2, <2>2 DEF SyncInv, SocketInv, Seek, NothingLost, server, TypeOK
  <2>7. AudioFits'
    BY <1>1, <1>2, <2>1, AudioStaysFit DEF SyncInv, PlayInv
  <2>8. NothingSaidYet'
    BY <1>1, <1>2, <2>1, QuietSends DEF SyncInv, PlayInv, Seek, Silence, server
  <2> QED BY <2>2, <2>3, <2>4, <2>5, <2>6, <2>7, <2>8 DEF SocketInv
<1>5. SocketInv' /\ AudioFits' /\ NothingSaidYet' /\ toServer' \in [Sessions -> Seq(Requests)]
  BY <1>3, <1>4
<1>6. TypeOK'
  <2>1. generation' \in 1..MaxGeneration /\ playbackEpoch' \in Nat
    BY <1>2, PlaybackAssumption DEF TypeOK, Seek
  <2>2. UNCHANGED server
    BY DEF Seek
  <2> QED BY <1>2, <1>5, <2>1, <2>2 DEF TypeOK, Seek, Silence, server
<1>7. VoiceOfThisPosition' /\ CueHasOwner' /\ AnswersFit' /\ HeldFits'
  BY <1>6 DEF SyncInv, PlayInv, VoiceOfThisPosition, CueHasOwner, AnswersFit, HeldFits,
     Seek, Silence
<1> QED BY <1>5, <1>6, <1>7 DEF SyncInv, PlayInv

LEMMA PauseInv ==
  ASSUME SyncInv, Pause
  PROVE  SyncInv'
<1>1. SocketInv'
  BY SocketKept DEF SyncInv, Pause, socket, server, wires
<1>2. TypeOK'
  BY DEF SyncInv, PlayInv, VoiceOfThisPosition, TypeOK, Pause, Silence, server, wires
<1>3. VoiceOfThisPosition' /\ CueHasOwner'
  BY <1>2 DEF SyncInv, PlayInv, VoiceOfThisPosition, CueHasOwner, Pause, Silence
<1>4. AnswersFit' /\ AudioFits' /\ HeldFits'
  BY DEF SyncInv, PlayInv, AnswersFit, AudioFits, HeldFits, Pause, Silence, wires
<1>5. NothingSaidYet'
  BY QuietKept DEF SyncInv, PlayInv, Pause, Silence, server, wires
<1> QED BY <1>1, <1>3, <1>4, <1>5 DEF SyncInv, PlayInv

LEMMA ResumeInv ==
  ASSUME SyncInv, Resume
  PROVE  SyncInv'
<1>1. SocketInv'
  BY SocketKept DEF SyncInv, Resume, socket, server, wires
<1>2. TypeOK'
  BY DEF SyncInv, PlayInv, VoiceOfThisPosition, TypeOK, Resume, sound, subtitles, server, wires
<1>3. VoiceOfThisPosition' /\ CueHasOwner'
  BY <1>2 DEF SyncInv, PlayInv, VoiceOfThisPosition, CueHasOwner, Resume, sound, subtitles
<1>4. AnswersFit' /\ AudioFits' /\ HeldFits'
  BY DEF SyncInv, PlayInv, AnswersFit, AudioFits, HeldFits, Resume, subtitles, wires
<1>5. NothingSaidYet'
  BY QuietKept DEF SyncInv, PlayInv, Resume, subtitles, server, wires
<1> QED BY <1>1, <1>3, <1>4, <1>5 DEF SyncInv, PlayInv

LEMMA CaptureInv ==
  ASSUME SyncInv, Capture
  PROVE  SyncInv'
<1> DEFINE m == Audio(heard + 1)
<1>1. /\ TypeOK /\ session \in Sessions /\ session # 0 /\ PhaseFits
      /\ heard + 1 \in Sentences
  BY PlaybackAssumption DEF SyncInv, SocketInv, PlayInv, VoiceOfThisPosition, PhaseFits, TypeOK,
     Capture, Sessions, Sentences
<1>2. m \in Requests /\ m.kind = "audio" /\ m.sentence \in Sentences
  BY <1>1, PlaybackAssumption DEF Audio, Requests, Sentences
<1>3. toServer' = [toServer EXCEPT ![session] = Append(@, m)]
  BY DEF Capture
<1> HIDE DEF m
<1>4. /\ toServer' \in [Sessions -> Seq(Requests)] /\ toServer'[session] # <<>>
      /\ \A r \in Sessions : r # session => toServer'[r] = toServer[r]
      /\ \A r \in Sessions : Count(toServer'[r]) = Count(toServer[r])
  BY <1>1, <1>2, <1>3, SendsOther
<1>5. TypeOK'
  <2>1. heard' \in 0..MaxSentences
    BY <1>1, PlaybackAssumption DEF Capture, Sentences
  <2> QED BY <1>1, <1>4, <2>1 DEF TypeOK, Capture, player, sound, subtitles
<1>6. SocketInv'
  <2>1. StartFirst' /\ NotStopped'
    BY <1>1, <1>2, <1>3, StartStaysFirst, NotStoppedStays DEF SyncInv, SocketInv, Capture, player
  <2>2. PhaseFits' /\ EndingFits' /\ NotYet' /\ NoAnswerYet' /\ ReadyIsActive'
    BY <1>1, <1>4 DEF SyncInv, SocketInv, Capture, PhaseFits, EndingFits, NotYet, Cleanup, Untouched, NoAnswerYet,
       ReadyIsActive, player, TypeOK, Sessions
  <2>4. NeverAhead' /\ NothingLost'
    BY <1>1, <1>4 DEF SyncInv, SocketInv, Capture, NeverAhead, NothingLost, player
  <2> QED BY <2>1, <2>2, <2>4 DEF SocketInv
<1>7. VoiceOfThisPosition' /\ CueHasOwner' /\ AnswersFit' /\ HeldFits'
  BY <1>5 DEF SyncInv, PlayInv, VoiceOfThisPosition, CueHasOwner, AnswersFit, HeldFits,
     Capture, player, sound, subtitles
<1>8. AudioFits'
  BY <1>1, <1>2, <1>3, AudioStaysFit DEF SyncInv, PlayInv
<1>9. NothingSaidYet'
  BY DEF NothingSaidYet, Capture, player
<1> QED BY <1>6, <1>7, <1>8, <1>9 DEF SyncInv, PlayInv

(* The half of an end before the await, while the last message of the       *)
(* session is being handled or not.                                         *)
LEMMA CleanupFits ==
  ASSUME SyncInv, session # 0, CleanupBegins, phase' = "failing" \/ session' = 0,
         session' \in {0, session}, UNCHANGED started
  PROVE  /\ ending' \subseteq Cleanups /\ EndingFits' /\ ending \subseteq ending'
         /\ phase = "failing" \/ \E e \in ending' : e.session = session
         /\ \A e \in ending' : e.session = session /\ e.ws = "connecting" =>
              phase = "connecting" \/ Cleanup("connecting") \in ending
<1> DEFINE ws == IF phase = "connecting" THEN "connecting" ELSE "open"
           new == Cleanup(ws)
<1>1. /\ TypeOK /\ EndingFits /\ session \in Sessions /\ session <= started
  BY DEF SyncInv, SocketInv, PlayInv, VoiceOfThisPosition, TypeOK, Sessions
<1>2. /\ new \in Cleanups /\ new.session = session /\ new.ws = ws
  BY <1>1 DEF Cleanup, Cleanups
<1>3. CASE phase = "failing"
  <2>1. ending' = ending
    BY <1>3 DEF CleanupBegins
  <2>2. \A e \in ending : e.session = session /\ e.ws = "connecting" => e = Cleanup("connecting")
    BY <1>1 DEF TypeOK, Cleanup, Cleanups
  <2>3. \A e \in ending : e.session # 0
    BY <1>1 DEF TypeOK, Cleanups, Sessions
  <2> QED
    BY <1>1, <1>3, <2>1, <2>2, <2>3 DEF TypeOK, EndingFits
<1>4. CASE phase # "failing"
  <2>1. ending' = ending \union {new} /\ \A e \in ending : e.session # session
    BY <1>1, <1>4 DEF CleanupBegins, EndingFits
  <2>2. \A e \in ending' : e.session # 0
    BY <1>1, <1>2, <2>1 DEF TypeOK, Cleanups, Sessions
  <2> HIDE DEF new
  <2> QED
    BY <1>1, <1>2, <1>4, <2>1, <2>2 DEF TypeOK, EndingFits
<1> QED BY <1>3, <1>4

LEMMA FailInv ==
  ASSUME SyncInv, StartFails,
         toClient' \in [Sessions -> Seq(Messages)], AnswersFit',
         \A s \in Sessions : toClient[s] = <<>> => toClient'[s] = <<>>,
         \A s \in Sessions : \A i \in DOMAIN toClient'[s] :
           \E j \in DOMAIN toClient[s] : toClient'[s][i] = toClient[s][j]
  PROVE  SyncInv'
<1>1. /\ TypeOK /\ session \in Sessions /\ session # 0 /\ phase \in {"connecting", "opening"}
      /\ phase' = "failing" /\ CleanupBegins
      /\ UNCHANGED <<browser, session, started, generation, playbackEpoch, paused, decoding,
                     subtitles, server, toServer>>
  BY DEF SyncInv, SocketInv, PhaseFits, PlayInv, VoiceOfThisPosition, TypeOK, StartFails, Sessions
<1>2. /\ ending' \subseteq Cleanups /\ EndingFits' /\ ending \subseteq ending'
      /\ \A e \in ending' : e.session = session /\ e.ws = "connecting" =>
           phase = "connecting" \/ Cleanup("connecting") \in ending
  BY <1>1, CleanupFits
<1>3. TypeOK'
  <2>1. audio' \subseteq Voices /\ phase' \in {"none", "connecting", "opening", "ready", "failing"}
    BY <1>1 DEF CleanupBegins
  <2> QED
    BY <1>1, <1>2, <2>1 DEF TypeOK, subtitles, server
<1>4. SocketInv'
  <2>1. PhaseFits' /\ NotStopped' /\ ReadyIsActive'
    BY <1>1 DEF PhaseFits, NotStopped, ReadyIsActive
  <2>2. ASSUME NEW s \in Sessions,
               s > started \/ (s = session /\ Cleanup("connecting") \in ending')
        PROVE  Untouched(s)'
    <3>1. s > started \/ (s = session /\ (phase = "connecting" \/ Cleanup("connecting") \in ending))
      BY <1>2, <2>2 DEF Cleanup
    <3>2. Untouched(s)
      BY <3>1 DEF SyncInv, SocketInv, NotYet
    <3> QED
      BY <1>1, <3>2 DEF Untouched, server
  <2>3. NotYet'
    BY <1>1, <2>2 DEF NotYet, Cleanup
  <2>4. StartFirst' /\ NoAnswerYet' /\ NeverAhead' /\ NothingLost'
    BY <1>1 DEF SyncInv, SocketInv, StartFirst, NoAnswerYet, NeverAhead, NothingLost, server
  <2> QED BY <1>2, <2>1, <2>3, <2>4 DEF SocketInv
<1>5. VoiceOfThisPosition' /\ CueHasOwner' /\ AudioFits' /\ HeldFits'
  BY <1>1, <1>2, <1>3 DEF SyncInv, PlayInv, VoiceOfThisPosition, CueHasOwner, AudioFits, HeldFits,
     CleanupBegins, subtitles
<1>6. NothingSaidYet'
  BY <1>1 DEF SyncInv, PlayInv, NothingSaidYet, server, subtitles
<1> QED BY <1>4, <1>5, <1>6 DEF SyncInv, PlayInv

LEMMA EndInv ==
  ASSUME SyncInv, session # 0, EndSession,
         toClient' \in [Sessions -> Seq(Messages)], AnswersFit',
         \A s \in Sessions : toClient[s] = <<>> => toClient'[s] = <<>>
  PROVE  SyncInv'
<1>1. /\ TypeOK /\ session \in Sessions /\ session = started
      /\ session' = 0 /\ phase' = "none" /\ playbackEpoch' = playbackEpoch + 1 /\ CleanupBegins
      /\ held' \subseteq held
      /\ UNCHANGED <<browser, started, generation, paused, decoding, cues, cueGeneration,
                     refused, server, toServer>>
  BY DEF SyncInv, PlayInv, VoiceOfThisPosition, TypeOK, EndSession, Sessions
<1>2. /\ ending' \subseteq Cleanups /\ EndingFits' /\ ending \subseteq ending'
      /\ phase = "failing" \/ \E e \in ending' : e.session = session
  BY <1>1, CleanupFits
<1>3. TypeOK'
  <2>1. audio' \subseteq Voices /\ held' \subseteq Cues /\ playbackEpoch' \in Nat
    BY <1>1 DEF TypeOK, CleanupBegins
  <2> QED
    BY <1>1, <1>2, <2>1 DEF TypeOK, server
<1>4. SocketInv'
  <2>1. PhaseFits' /\ NotStopped' /\ ReadyIsActive' /\ NothingLost' /\ NothingSaidYet'
    BY <1>1 DEF PhaseFits, NotStopped, ReadyIsActive, NothingLost, NothingSaidYet
  <2>2. NotYet'
    BY <1>1 DEF SyncInv, SocketInv, NotYet, Untouched, server, Sessions
  <2>3. StartFirst' /\ NoAnswerYet'
    BY <1>1 DEF SyncInv, SocketInv, StartFirst, NoAnswerYet, server
  <2>4. NeverAhead'
    BY <1>1 DEF SyncInv, SocketInv, NeverAhead, server, Sessions
  <2> QED BY <1>2, <2>1, <2>2, <2>3, <2>4 DEF SocketInv
<1>5. CueHasOwner'
  <2>1. browser = "firefox" /\ phase = "failing" => \A c \in cues \union held : c.session # session
    BY DEF SyncInv, PlayInv, NothingSaidYet
  <2> QED
    BY <1>1, <1>2, <2>1 DEF SyncInv, PlayInv, CueHasOwner
<1>6. VoiceOfThisPosition' /\ HeldFits' /\ AudioFits' /\ NothingSaidYet'
  BY <1>1, <1>3 DEF SyncInv, PlayInv, VoiceOfThisPosition, HeldFits, AudioFits, NothingSaidYet,
     CleanupBegins
<1> QED BY <1>4, <1>5, <1>6 DEF SyncInv, PlayInv

-----------------------------------------------------------------------------
(* Voices and cues.                                                         *)

LEMMA DecodedInv ==
  ASSUME SyncInv, NEW v \in decoding, Decoded(v)
  PROVE  SyncInv'
<1>1. SocketInv'
  BY SocketKept DEF SyncInv, Decoded, socket, player, server, wires
<1>2. TypeOK' /\ audio' \subseteq audio \union {x \in {v} :
        x.session = session /\ x.generation = generation /\ x.epoch = playbackEpoch}
  BY DEF SyncInv, PlayInv, VoiceOfThisPosition, TypeOK, Decoded, player, subtitles, server, wires
<1>3. VoiceOfThisPosition' /\ CueHasOwner'
  BY <1>2 DEF SyncInv, PlayInv, VoiceOfThisPosition, CueHasOwner, Decoded, player,
     subtitles
<1>4. AnswersFit' /\ AudioFits' /\ HeldFits'
  BY DEF SyncInv, PlayInv, AnswersFit, AudioFits, HeldFits, Decoded, subtitles, wires
<1>5. NothingSaidYet'
  BY QuietKept DEF SyncInv, PlayInv, Decoded, player, subtitles, server, wires
<1> QED BY <1>1, <1>3, <1>4, <1>5 DEF SyncInv, PlayInv

LEMMA AudioEndsInv ==
  ASSUME SyncInv, NEW v \in audio, AudioEnds(v)
  PROVE  SyncInv'
<1>1. SocketInv'
  BY SocketKept DEF SyncInv, AudioEnds, socket, player, server, wires
<1>2. TypeOK'
  BY DEF SyncInv, PlayInv, VoiceOfThisPosition, TypeOK, AudioEnds, player, subtitles, server,
     wires
<1>3. VoiceOfThisPosition' /\ CueHasOwner'
  BY <1>2 DEF SyncInv, PlayInv, VoiceOfThisPosition, CueHasOwner, AudioEnds, player,
     subtitles
<1>4. AnswersFit' /\ AudioFits' /\ HeldFits'
  BY DEF SyncInv, PlayInv, AnswersFit, AudioFits, HeldFits, AudioEnds, subtitles, wires
<1>5. NothingSaidYet'
  BY QuietKept DEF SyncInv, PlayInv, AudioEnds, player, subtitles, server, wires
<1> QED BY <1>1, <1>3, <1>4, <1>5 DEF SyncInv, PlayInv

LEMMA ReleaseInv ==
  ASSUME SyncInv, NEW c \in held, Release(c)
  PROVE  SyncInv'
<1>1. SocketInv'
  BY SocketKept DEF SyncInv, Release, socket, player, server, wires
<1>2. TypeOK /\ c \in Cues /\ c.generation \in 0..MaxGeneration /\ held' \subseteq held
  <2>1. TypeOK /\ c \in Cues
    BY DEF SyncInv, PlayInv, VoiceOfThisPosition, TypeOK
  <2>2. c.generation <= MaxGeneration /\ c.generation \in Nat
    BY <2>1 DEF SyncInv, PlayInv, HeldFits, Cues
  <2>3. held' \subseteq held
    BY DEF Release
  <2> QED BY <2>1, <2>2, <2>3, PlaybackAssumption
<1>3. /\ cues' \subseteq cues \/ cues' = {c}
      /\ cues' \subseteq Cues /\ refused' \subseteq Cues /\ cueGeneration' \in 0..MaxGeneration
  BY <1>2 DEF TypeOK, Release, ShowNow
<1>4. TypeOK'
  BY <1>2, <1>3 DEF TypeOK, Release, player, sound, server, wires
<1>5. VoiceOfThisPosition' /\ CueHasOwner'
  BY <1>2, <1>3, <1>4 DEF SyncInv, PlayInv, VoiceOfThisPosition, CueHasOwner, Release,
     player, sound
<1>6. AnswersFit' /\ AudioFits' /\ HeldFits'
  BY <1>2 DEF SyncInv, PlayInv, AnswersFit, AudioFits, HeldFits, Release, wires
<1>7. NothingSaidYet'
  BY <1>2, <1>3, QuietKept DEF SyncInv, PlayInv, Release, player, server, wires
<1> QED BY <1>1, <1>5, <1>6, <1>7 DEF SyncInv, PlayInv

LEMMA CueEndsInv ==
  ASSUME SyncInv, NEW c \in cues, CueEnds(c)
  PROVE  SyncInv'
<1>1. SocketInv'
  BY SocketKept DEF SyncInv, CueEnds, socket, player, server, wires
<1>2. TypeOK'
  BY DEF SyncInv, PlayInv, VoiceOfThisPosition, TypeOK, CueEnds, player, sound, server, wires
<1>3. VoiceOfThisPosition' /\ CueHasOwner'
  BY <1>2 DEF SyncInv, PlayInv, VoiceOfThisPosition, CueHasOwner, CueEnds, player, sound
<1>4. AnswersFit' /\ AudioFits' /\ HeldFits'
  BY DEF SyncInv, PlayInv, AnswersFit, AudioFits, HeldFits, CueEnds, wires
<1>5. NothingSaidYet'
  BY QuietKept DEF SyncInv, PlayInv, CueEnds, player, server, wires
<1> QED BY <1>1, <1>3, <1>4, <1>5 DEF SyncInv, PlayInv
-----------------------------------------------------------------------------
(* Messages from the backend.                                               *)

LEMMA ClientInv ==
  ASSUME SyncInv, NEW s \in Sessions, ClientReceives(s)
  PROVE  SyncInv'
<1> DEFINE q == toClient[s]
           m == Head(toClient[s])
           cue == [session |-> s, sentence |-> m.sentence, generation |-> m.generation]
<1>1. /\ TypeOK /\ q \in Seq(Messages) /\ q # <<>> /\ m \in Messages /\ m = q[1] /\ 1 \in DOMAIN q
      /\ Tail(q) \in Seq(Messages)
      /\ \A i \in DOMAIN Tail(q) : i + 1 \in DOMAIN q /\ Tail(q)[i] = q[i + 1]
  BY TailFacts DEF SyncInv, PlayInv, VoiceOfThisPosition, TypeOK, ClientReceives
<1>2. toClient' = [toClient EXCEPT ![s] = Tail(q)] /\ toClient' \in [Sessions -> Seq(Messages)]
  BY <1>1 DEF ClientReceives, TypeOK
<1>3. AnswersFit'
  <2>1. /\ toClient'[s] = Tail(q) /\ \A r \in Sessions : r # s => toClient'[r] = toClient[r]
    BY <1>1, <1>2 DEF TypeOK
  <2>2. \A i \in DOMAIN Tail(q) :
          /\ Tail(q)[i].generation <= MaxGeneration
          /\ Tail(q)[i].kind \in {"subtitle", "syncedSubtitle", "tts"}
             => Tail(q)[i].sentence \in Sentences
    BY <1>1 DEF SyncInv, PlayInv, AnswersFit
  <2> HIDE DEF q
  <2> QED BY <2>1, <2>2 DEF SyncInv, PlayInv, AnswersFit
<1>4. \A r \in Sessions : toClient[r] = <<>> => toClient'[r] = <<>>
  BY <1>1, <1>2 DEF TypeOK
(* What the queue loses keeps the socket in order.                          *)
<1>5. ASSUME UNCHANGED <<browser, session, started, ending, generation, toServer, gateway,
                         serverGeneration, inPipeline>>,
             \/ phase' = phase
             \/ phase = "opening" /\ phase' = "ready" /\ s = session /\ m.kind = "ready"
      PROVE  SocketInv'
  <2>1. PhaseFits' /\ EndingFits'
    BY <1>5 DEF SyncInv, SocketInv, PhaseFits, EndingFits
  <2>2. NotYet'
    BY <1>4, <1>5 DEF SyncInv, SocketInv, NotYet, Cleanup, Untouched
  <2>3. StartFirst' /\ NoAnswerYet' /\ NotStopped' /\ NeverAhead'
    BY <1>4, <1>5
       DEF SyncInv, SocketInv, StartFirst, NoAnswerYet, NotStopped, NeverAhead
  <2>4. session # 0 /\ phase # "failing" => \A i \in DOMAIN toClient'[session] :
          toClient'[session][i].kind = "ready" => gateway[session] = "active"
    <3>1. CASE s = session
      <4>1. toClient'[session] = Tail(q)
        BY <1>1, <1>2, <3>1 DEF TypeOK
      <4> QED BY <1>1, <3>1, <4>1 DEF SyncInv, SocketInv, ReadyIsActive
    <3>2. CASE s # session
      <4>1. session # 0 => toClient'[session] = toClient[session]
        BY <1>1, <1>2, <3>2 DEF TypeOK, Sessions
      <4> QED BY <4>1 DEF SyncInv, SocketInv, ReadyIsActive
    <3> QED BY <3>1, <3>2
  <2>5. phase' = "ready" => gateway[session] = "active"
    BY <1>1, <1>5 DEF SyncInv, SocketInv, ReadyIsActive, Sessions
  <2>6. ReadyIsActive'
    BY <1>5, <2>4, <2>5 DEF ReadyIsActive
  <2>7. NothingLost'
    BY <1>5 DEF SyncInv, SocketInv, NothingLost
  <2> QED BY <2>1, <2>2, <2>3, <2>6, <2>7 DEF SocketInv
<1>a. ASSUME UNCHANGED <<browser, session, inPipeline, toServer>>, phase' \in {phase, "ready"},
             phase = "ready" \/ cues' \union held' \subseteq cues \union held
      PROVE  NothingSaidYet'
  <2>1. session # 0 => session \in Sessions
    BY <1>1 DEF TypeOK, Sessions
  <2>2. /\ toClient'[s] = Tail(q) /\ \A r \in Sessions : r # s => toClient'[r] = toClient[r]
    BY <1>1, <1>2 DEF TypeOK
  <2>3. ASSUME session # 0, phase # "ready", NEW i \in DOMAIN toClient'[session]
        PROVE  toClient'[session][i].kind \in {"ready", "error"}
    <3>1. \A j \in DOMAIN toClient[session] : toClient[session][j].kind \in {"ready", "error"}
      BY <2>3 DEF SyncInv, PlayInv, NothingSaidYet
    <3>2. CASE s = session
      <4>1. i \in DOMAIN Tail(q) /\ toClient'[session][i] = Tail(q)[i]
        BY <2>2, <2>3, <3>2
      <4>2. Tail(q)[i] = q[i + 1] /\ i + 1 \in DOMAIN q
        BY <1>1, <4>1
      <4> QED BY <3>1, <3>2, <4>1, <4>2
    <3>3. CASE s # session
      BY <2>1, <2>2, <2>3, <3>1, <3>3
    <3> QED BY <3>2, <3>3
  <2> QED BY <1>a, <2>3 DEF SyncInv, PlayInv, NothingSaidYet
<1>b. m.kind \in {"subtitle", "syncedSubtitle", "tts"} /\ s = session => phase = "ready"
  BY <1>1 DEF SyncInv, PlayInv, NothingSaidYet, Sessions
<1>6. (cue \in Cues /\ m.generation \in 0..MaxGeneration) \/ m.kind \in {"ready", "error"}
  BY <1>1, PlaybackAssumption DEF Messages, Cues, SyncInv, PlayInv, AnswersFit
<1>7. CASE s # session
  <2>1. UNCHANGED <<player, sound, subtitles, server, toServer>>
    BY <1>7 DEF ClientReceives
  <2>2. SocketInv'
    BY <1>5, <2>1 DEF player, server
  <2>3. TypeOK'
    BY <1>1, <1>2, <2>1 DEF TypeOK, player, sound, subtitles, server
  <2>4. VoiceOfThisPosition' /\ CueHasOwner' /\ AudioFits' /\ HeldFits'
    BY <2>1, <2>3 DEF SyncInv, PlayInv, VoiceOfThisPosition, CueHasOwner, AudioFits,
       HeldFits, player, sound, subtitles
  <2>5. NothingSaidYet'
    BY <1>a, <2>1 DEF player, subtitles, server
  <2> QED BY <1>3, <2>2, <2>4, <2>5 DEF SyncInv, PlayInv
<1>8. CASE s = session /\ m.kind = "ready"
  <2>1. /\ phase' = IF phase = "opening" THEN "ready" ELSE phase
        /\ UNCHANGED <<browser, session, started, ending, generation, playbackEpoch,
                       paused, sound, subtitles, server, toServer>>
    BY <1>8 DEF ClientReceives
  <2>2. SocketInv'
    BY <1>5, <1>8, <2>1 DEF server
  <2>3. TypeOK'
    BY <1>1, <1>2, <2>1 DEF TypeOK, sound, subtitles, server
  <2>4. VoiceOfThisPosition' /\ CueHasOwner' /\ AudioFits' /\ HeldFits'
    BY <2>1, <2>3 DEF SyncInv, PlayInv, VoiceOfThisPosition, CueHasOwner, AudioFits,
       HeldFits, sound, subtitles
  <2>5. NothingSaidYet'
    BY <1>a, <2>1 DEF subtitles, server
  <2> QED BY <1>3, <2>2, <2>4, <2>5 DEF SyncInv, PlayInv
<1>9. CASE s = session /\ m.kind = "error"
  <2>1. StartFails \/ EndSession
    BY <1>9 DEF ClientReceives
  <2>2. session # 0
    BY <1>9 DEF Sessions
  <2>3. ASSUME NEW r \in Sessions, NEW i \in DOMAIN toClient'[r]
        PROVE  \E j \in DOMAIN toClient[r] : toClient'[r][i] = toClient[r][j]
    <3>1. CASE r = s
      <4>1. toClient'[r] = Tail(q)
        BY <1>1, <1>2, <3>1 DEF TypeOK
      <4> QED BY <1>1, <2>3, <3>1, <4>1
    <3>2. CASE r # s
      <4>1. toClient'[r] = toClient[r]
        BY <1>1, <1>2, <3>2 DEF TypeOK
      <4> QED BY <2>3, <4>1
    <3> QED BY <3>1, <3>2
  <2>4. CASE StartFails
    BY <1>2, <1>3, <1>4, <2>3, <2>4, FailInv
  <2>5. CASE EndSession
    BY <1>2, <1>3, <1>4, <2>2, <2>5, EndInv
  <2> QED BY <2>1, <2>4, <2>5
<1>10. CASE s = session /\ m.kind = "subtitle"
  <2>1. Push(cue) /\ UNCHANGED <<player, sound, held, server, toServer>>
    BY <1>10 DEF ClientReceives
  <2>2. SocketInv'
    BY <1>5, <2>1 DEF player, server
  <2>3. cue \in Cues /\ cue.generation \in 0..MaxGeneration /\ cue.session = session
    BY <1>6, <1>10
  <2> HIDE DEF cue
  <2>4. /\ cues' \subseteq cues \union {cue} /\ refused' \subseteq Cues
        /\ cueGeneration' \in 0..MaxGeneration
    BY <1>1, <2>1, <2>3 DEF Push, TypeOK
  <2>5. TypeOK'
    BY <1>1, <1>2, <2>1, <2>3, <2>4 DEF TypeOK, player, sound, server
  <2>6. VoiceOfThisPosition' /\ CueHasOwner' /\ AudioFits' /\ HeldFits'
    BY <2>1, <2>3, <2>4, <2>5 DEF SyncInv, PlayInv, VoiceOfThisPosition, CueHasOwner,
       AudioFits, HeldFits, player, sound
  <2>7. NothingSaidYet'
    BY <1>10, <1>a, <1>b, <2>1 DEF player, server
  <2> QED BY <1>3, <2>2, <2>6, <2>7 DEF SyncInv, PlayInv
<1>11. CASE s = session /\ m.kind = "syncedSubtitle"
  <2>1. /\ held' = held \union {cue}
        /\ UNCHANGED <<player, sound, cues, cueGeneration, refused, server, toServer>>
    BY <1>11 DEF ClientReceives
  <2>2. SocketInv'
    BY <1>5, <2>1 DEF player, server
  <2>3. cue \in Cues /\ cue.generation \in 0..MaxGeneration /\ cue.session = session
    BY <1>6, <1>11
  <2> HIDE DEF cue
  <2>4. TypeOK'
    BY <1>1, <1>2, <2>1, <2>3 DEF TypeOK, player, sound, server
  <2>5. HeldFits'
    BY <2>1, <2>3, PlaybackAssumption DEF SyncInv, PlayInv, HeldFits
  <2>6. VoiceOfThisPosition' /\ CueHasOwner' /\ AudioFits'
    BY <2>1, <2>3, <2>4 DEF SyncInv, PlayInv, VoiceOfThisPosition, CueHasOwner,
       AudioFits, player, sound
  <2>7. NothingSaidYet'
    BY <1>11, <1>a, <1>b, <2>1 DEF player, server
  <2> QED BY <1>3, <2>2, <2>5, <2>6, <2>7 DEF SyncInv, PlayInv
<1>12. CASE s = session /\ m.kind = "tts"
  <2> DEFINE voice == [session |-> s, sentence |-> m.sentence, generation |-> m.generation,
                       epoch |-> playbackEpoch]
  <2>1. /\ decoding' \subseteq decoding \union {voice}
        /\ UNCHANGED <<player, audio, subtitles, server, toServer>>
    BY <1>12 DEF ClientReceives
  <2>2. SocketInv'
    BY <1>5, <2>1 DEF player, server
  <2>3. voice \in Voices
    BY <1>1, <1>6, <1>12 DEF Voices, Cues, TypeOK
  <2> HIDE DEF voice
  <2>4. TypeOK'
    BY <1>1, <1>2, <2>1, <2>3 DEF TypeOK, player, subtitles, server
  <2>5. VoiceOfThisPosition' /\ CueHasOwner' /\ AudioFits' /\ HeldFits'
    BY <2>1, <2>4 DEF SyncInv, PlayInv, VoiceOfThisPosition, CueHasOwner, AudioFits,
       HeldFits, player, subtitles
  <2>6. NothingSaidYet'
    BY <1>a, <2>1 DEF player, subtitles, server
  <2> QED BY <1>3, <2>2, <2>5, <2>6 DEF SyncInv, PlayInv
<1> QED BY <1>1, <1>7, <1>8, <1>9, <1>10, <1>11, <1>12 DEF Messages

LEMMA GatewayInv ==
  ASSUME SyncInv, NEW s \in Sessions, GatewayReceives(s)
  PROVE  SyncInv'
<1> DEFINE q == toServer[s]
           m == Head(toServer[s])
<1>1. /\ TypeOK /\ q \in Seq(Requests) /\ q # <<>> /\ m \in Requests /\ m = q[1] /\ 1 \in DOMAIN q
      /\ Tail(q) \in Seq(Requests)
      /\ \A i \in DOMAIN Tail(q) : i + 1 \in DOMAIN q /\ i + 1 # 1 /\ Tail(q)[i] = q[i + 1]
  BY TailFacts DEF SyncInv, PlayInv, VoiceOfThisPosition, TypeOK, GatewayReceives
<1>2. /\ toServer' = [toServer EXCEPT ![s] = Tail(q)] /\ toServer' \in [Sessions -> Seq(Requests)]
      /\ UNCHANGED <<player, sound, subtitles, heard, toClient>>
  BY <1>1 DEF GatewayReceives, TypeOK
<1>3. /\ toServer'[s] = Tail(q) /\ \A r \in Sessions : r # s => toServer'[r] = toServer[r]
  BY <1>1, <1>2 DEF TypeOK
<1>4. /\ Count(q) \in Nat /\ Count(Tail(q)) \in Nat
      /\ Count(q) = Count(Tail(q)) + (IF m.kind = "seek" THEN 1 ELSE 0)
  BY <1>1, SeeksFinite, CountTail
<1>5. AudioFits'
  <2>1. \A i \in DOMAIN Tail(q) : Tail(q)[i].kind = "audio" => Tail(q)[i].sentence \in Sentences
    BY <1>1 DEF SyncInv, PlayInv, AudioFits
  <2> HIDE DEF q
  <2> QED BY <1>3, <2>1 DEF SyncInv, PlayInv, AudioFits
<1>6. \A i \in DOMAIN Tail(q) : Tail(q)[i].kind # "start"
  BY <1>1 DEF SyncInv, SocketInv, StartFirst
<1>7. /\ s = session /\ phase # "failing" => \A i \in DOMAIN q : q[i].kind # "stop"
      /\ m.kind = "start" => gateway[s] = "none"
      /\ s <= started /\ ~(s = session /\ (phase = "connecting" \/ Cleanup("connecting") \in ending))
  BY <1>1 DEF SyncInv, SocketInv, NotStopped, StartFirst, NotYet, Cleanup, Untouched, TypeOK, Sessions
(* What every message leaves in order.                                      *)
<1>8. ASSUME \A r \in Sessions : r # s =>
               gateway'[r] = gateway[r] /\ serverGeneration'[r] = serverGeneration[r] /\ inPipeline'[r] = inPipeline[r],
             gateway'[s] = gateway[s] \/ m.kind \in {"start", "stop"},
             gateway'[s] # "none" \/ gateway'[s] = gateway[s],
             serverGeneration'[s] \in Nat,
             serverGeneration'[s] + Count(Tail(q)) <= serverGeneration[s] + Count(q),
             (m.kind = "seek" /\ gateway[s] = "active") \/ serverGeneration'[s] = serverGeneration[s],
             m.kind = "seek" /\ gateway[s] = "active" => serverGeneration'[s] = serverGeneration[s] + 1
      PROVE  SocketInv'
  <2>1. PhaseFits' /\ EndingFits' /\ NotYet'
    <3>1. UNCHANGED <<session, phase, started, ending>>
      BY <1>2 DEF player
    <3>2. PhaseFits' /\ EndingFits'
      BY <3>1 DEF SyncInv, SocketInv, PhaseFits, EndingFits
    <3>3. ASSUME NEW r \in Sessions,
                 \/ r > started
                 \/ r = session /\ (phase = "connecting" \/ Cleanup("connecting") \in ending)
          PROVE  Untouched(r)'
      <4>1. r # s
        BY <1>1, <1>7, <3>3 DEF TypeOK, Sessions
      <4>2. Untouched(r)
        BY <3>3 DEF SyncInv, SocketInv, NotYet
      <4>3. toServer'[r] = toServer[r] /\ toClient' = toClient
        BY <1>2, <1>3, <4>1
      <4> QED
        BY <1>8, <4>1, <4>2, <4>3 DEF Untouched
    <3> QED
      BY <3>1, <3>2, <3>3 DEF NotYet, Cleanup
  <2>2. StartFirst'
    BY <1>2, <1>3, <1>6, <1>8 DEF SyncInv, SocketInv, StartFirst
  <2>3. NoAnswerYet'
    BY <1>2, <1>8 DEF SyncInv, SocketInv, NoAnswerYet
  <2>4. NotStopped'
    <3>1. CASE s = session
      BY <1>1, <1>2, <1>3, <1>7, <3>1 DEF NotStopped, player
    <3>2. CASE s # session
      BY <1>1, <1>2, <1>3, <3>2 DEF SyncInv, SocketInv, NotStopped, player, TypeOK, Sessions
    <3> QED BY <3>1, <3>2
  <2>5. gateway[s] = "active" /\ s = session /\ phase # "failing" => gateway'[s] = "active"
    BY <1>1, <1>7, <1>8
  <2>6. ReadyIsActive'
    <3>1. session # 0 => session \in Sessions
      BY <1>1 DEF TypeOK, Sessions
    <3>2. phase = "ready" => session # 0
      BY DEF SyncInv, SocketInv, PhaseFits
    <3> QED BY <1>2, <1>8, <2>5, <3>1, <3>2 DEF SyncInv, SocketInv, ReadyIsActive, player
  <2>7. NeverAhead'
    <3>1. /\ MaxGeneration \in Nat /\ generation \in Nat /\ serverGeneration[s] \in Nat
          /\ Count(q) \in Nat /\ Count(Tail(q)) \in Nat
      <4>1. /\ MaxGeneration \in Nat /\ generation \in Nat /\ serverGeneration[s] \in Nat
        BY <1>1, PlaybackAssumption DEF TypeOK
      <4> QED BY <1>4, <4>1
    <3>2. serverGeneration[s] + Count(q) <= MaxGeneration
      BY DEF SyncInv, SocketInv, NeverAhead
    <3>3. s = session => serverGeneration[s] + Count(q) <= generation
      BY DEF SyncInv, SocketInv, NeverAhead
    <3>4. /\ serverGeneration'[s] + Count(toServer'[s]) <= MaxGeneration
          /\ s = session => serverGeneration'[s] + Count(toServer'[s]) <= generation
      <4> HIDE DEF q
      <4> QED BY <1>3, <1>8, <3>1, <3>2, <3>3
    <3> QED BY <1>2, <1>3, <1>8, <3>4 DEF SyncInv, SocketInv, NeverAhead, player
  <2>8. NothingLost'
    <3>1. CASE s = session /\ browser = "chrome"
      <4>1. generation = serverGeneration[s] + Count(q) /\ (phase # "ready" => generation = 1)
        BY <3>1, <1>7 DEF SyncInv, SocketInv, NothingLost, Sessions
      <4>2. serverGeneration[s] \in 1..MaxGeneration /\ Count(q) \in Nat /\ Count(Tail(q)) \in Nat
        BY <1>1, <1>4 DEF TypeOK
      <4>3. m.kind = "seek" => phase = "ready"
        <5> HIDE DEF m, q
        <5> QED BY <1>4, <4>1, <4>2, PlaybackAssumption
      <4>4. m.kind = "seek" => gateway[s] = "active"
        BY <3>1, <4>3 DEF SyncInv, SocketInv, ReadyIsActive
      <4>5. generation = serverGeneration'[s] + Count(Tail(q))
        <5> HIDE DEF m, q
        <5> QED BY <1>4, <1>8, <4>1, <4>2, <4>4, PlaybackAssumption
      <4> QED BY <1>2, <1>3, <3>1, <4>1, <4>5 DEF NothingLost, player
    <3>2. CASE ~(s = session /\ browser = "chrome")
      BY <1>1, <1>2, <1>3, <1>8, <3>2 DEF SyncInv, SocketInv, NothingLost, player, TypeOK, Sessions
    <3> QED BY <3>1, <3>2
  <2> QED BY <2>1, <2>2, <2>3, <2>4, <2>6, <2>7, <2>8 DEF SocketInv
<1>9. serverGeneration' \in [Sessions -> 1..MaxGeneration]
      /\ gateway' \in [Sessions -> {"none", "starting", "active", "closed"}]
      /\ inPipeline' \in [Sessions -> SUBSET Sentences]
      => TypeOK'
  BY <1>1, <1>2 DEF TypeOK, player, sound, subtitles
<1>a. ASSUME \A r \in Sessions : r # s => inPipeline'[r] = inPipeline[r],
             m.kind = "audio" \/ inPipeline'[s] \subseteq inPipeline[s]
      PROVE  NothingSaidYet'
  <2>1. session # 0 => session \in Sessions
    BY <1>1 DEF TypeOK, Sessions
  <2>2. ASSUME session # 0, phase # "ready"
        PROVE  /\ inPipeline'[session] = {}
               /\ \A i \in DOMAIN toServer'[session] : toServer'[session][i].kind # "audio"
    <3>1. /\ inPipeline[session] = {}
          /\ \A i \in DOMAIN toServer[session] : toServer[session][i].kind # "audio"
      BY <2>2 DEF SyncInv, PlayInv, NothingSaidYet
    <3>2. CASE s = session
      <4>1. m.kind # "audio" /\ \A i \in DOMAIN Tail(q) : Tail(q)[i].kind # "audio"
        BY <1>1, <3>1, <3>2
      <4> HIDE DEF m, q
      <4> QED BY <1>3, <1>a, <3>1, <3>2, <4>1
    <3>3. CASE s # session
      BY <1>3, <1>a, <2>1, <2>2, <3>1, <3>3
    <3> QED BY <3>2, <3>3
  <2> QED BY <1>2, <2>2 DEF SyncInv, PlayInv, NothingSaidYet, player, subtitles
<1>10. TypeOK' /\ NothingSaidYet' => PlayInv'
  BY <1>2, <1>5 DEF SyncInv, PlayInv, VoiceOfThisPosition, CueHasOwner, AnswersFit, HeldFits,
     player, sound, subtitles
<1>11. /\ serverGeneration \in [Sessions -> 1..MaxGeneration]
       /\ gateway \in [Sessions -> {"none", "starting", "active", "closed"}]
       /\ inPipeline \in [Sessions -> SUBSET Sentences]
       /\ serverGeneration[s] \in Nat
  BY <1>1, PlaybackAssumption DEF TypeOK
<1>12. CASE m.kind \in {"start", "stop"}
  <2>1. /\ gateway' = [gateway EXCEPT ![s] = IF m.kind = "start" THEN "starting" ELSE "closed"]
        /\ UNCHANGED <<serverGeneration, inPipeline>>
    BY <1>12 DEF GatewayReceives
  <2> HIDE DEF m, q
  <2>2. Count(q) = Count(Tail(q))
    BY <1>4, <1>11, <1>12
  <2>3. SocketInv'
    BY <1>4, <1>8, <1>11, <1>12, <2>1, <2>2
  <2>4. NothingSaidYet'
    BY <1>a, <2>1
  <2> QED BY <1>9, <1>10, <1>11, <2>1, <2>3, <2>4 DEF SyncInv
<1>13. CASE m.kind = "seek" /\ gateway[s] = "active"
  <2>1. PipelineSeeks(s) /\ UNCHANGED gateway
    BY <1>13 DEF GatewayReceives, PipelineSeeks
  <2> HIDE DEF m, q
  <2>2. /\ Count(q) = Count(Tail(q)) + 1
        /\ serverGeneration'[s] = serverGeneration[s] + 1
        /\ \A r \in Sessions : r # s =>
             serverGeneration'[r] = serverGeneration[r] /\ inPipeline'[r] = inPipeline[r]
    BY <1>4, <1>11, <1>13, <2>1 DEF PipelineSeeks
  <2>3. SocketInv'
    BY <1>4, <1>8, <1>11, <1>13, <2>1, <2>2
  <2>4. serverGeneration[s] + Count(q) <= MaxGeneration
    BY DEF SyncInv, SocketInv, NeverAhead, q
  <2>5. serverGeneration[s] + 1 \in 1..MaxGeneration
    BY <1>4, <1>11, <2>2, <2>4, PlaybackAssumption
  <2>6. NothingSaidYet'
    BY <1>11, <1>a, <2>1, <2>2 DEF PipelineSeeks
  <2> QED BY <1>9, <1>10, <1>11, <2>1, <2>3, <2>5, <2>6 DEF SyncInv, PipelineSeeks
<1>14. CASE m.kind = "audio" /\ gateway[s] = "active"
  <2>1. /\ inPipeline' = [inPipeline EXCEPT ![s] = @ \union {m.sentence}]
        /\ UNCHANGED <<gateway, serverGeneration>>
    BY <1>14 DEF GatewayReceives
  <2>2. m.sentence \in Sentences
    BY <1>1, <1>14 DEF SyncInv, PlayInv, AudioFits
  <2> HIDE DEF m, q
  <2>3. Count(q) = Count(Tail(q))
    BY <1>4, <1>11, <1>14
  <2>4. SocketInv'
    BY <1>4, <1>8, <1>11, <1>14, <2>1, <2>3
  <2>5. NothingSaidYet'
    BY <1>11, <1>14, <1>a, <2>1
  <2> QED BY <1>9, <1>10, <1>11, <2>1, <2>2, <2>4, <2>5 DEF SyncInv
<1>15. CASE m.kind \in {"seek", "audio"} /\ gateway[s] # "active"
  <2>1. UNCHANGED <<gateway, serverGeneration, inPipeline>>
    BY <1>15 DEF GatewayReceives
  <2> HIDE DEF m, q
  <2>2. Count(Tail(q)) <= Count(q)
    BY <1>4, <1>11
  <2>3. SocketInv'
    BY <1>4, <1>8, <1>11, <1>15, <2>1, <2>2
  <2>4. NothingSaidYet'
    BY <1>a, <2>1
  <2> QED BY <1>9, <1>10, <1>11, <2>1, <2>3, <2>4 DEF SyncInv
<1> QED BY <1>1, <1>12, <1>13, <1>14, <1>15 DEF Requests

LEMMA ConcatFacts ==
  ASSUME NEW S, NEW q \in Seq(S), NEW r \in Seq(S)
  PROVE  /\ q \o r \in Seq(S)
         /\ \A i \in DOMAIN (q \o r) :
              \/ i \in DOMAIN q /\ (q \o r)[i] = q[i]
              \/ \E j \in DOMAIN r : (q \o r)[i] = r[j]
<1>1. /\ q \o r \in Seq(S) /\ Len(q) \in Nat /\ Len(r) \in Nat
      /\ DOMAIN q = 1..Len(q) /\ DOMAIN r = 1..Len(r) /\ DOMAIN (q \o r) = 1..(Len(q) + Len(r))
      /\ \A i \in 1..(Len(q) + Len(r)) :
           (q \o r)[i] = IF i <= Len(q) THEN q[i] ELSE r[i - Len(q)]
  OBVIOUS
<1>2. ASSUME NEW i \in 1..(Len(q) + Len(r)), ~(i <= Len(q))
      PROVE  i - Len(q) \in DOMAIN r /\ (q \o r)[i] = r[i - Len(q)]
  BY <1>1, <1>2
<1> QED BY <1>1, <1>2

LEMMA AnswersInv ==
  ASSUME SyncInv, NEW s \in Sessions, GatewayAnswers(s)
  PROVE  SyncInv'
<1>1. TypeOK /\ gateway[s] = "starting" /\ toClient[s] \in Seq(Messages)
      /\ UNCHANGED <<player, sound, subtitles, serverGeneration, inPipeline, heard, toServer>>
  BY DEF SyncInv, PlayInv, VoiceOfThisPosition, TypeOK, GatewayAnswers
<1>2. PICK state \in {"active", "closed"}, m \in {Sent("ready", 0, 0), Sent("error", 0, 0)} :
        /\ gateway' = [gateway EXCEPT ![s] = state]
        /\ toClient' = [toClient EXCEPT ![s] = Append(@, m)]
        /\ m.kind = "ready" => state = "active"
  <2>1. /\ Sent("ready", 0, 0).kind = "ready" /\ Sent("error", 0, 0).kind = "error"
    BY DEF Sent
  <2>2. CASE /\ gateway' = [gateway EXCEPT ![s] = "active"]
             /\ toClient' = [toClient EXCEPT ![s] = Append(@, Sent("ready", 0, 0))]
    BY <2>2
  <2>3. CASE /\ gateway' = [gateway EXCEPT ![s] = "closed"]
             /\ toClient' = [toClient EXCEPT ![s] = Append(@, Sent("error", 0, 0))]
    BY <2>1, <2>3
  <2> QED BY <2>2, <2>3 DEF GatewayAnswers
<1>3. m \in Messages /\ m.kind \in {"ready", "error"} /\ m.generation <= MaxGeneration
  BY PlaybackAssumption DEF Sent, Messages
<1>4. /\ toClient'[s] = Append(toClient[s], m) /\ gateway'[s] = state
      /\ \A r \in Sessions : r # s => toClient'[r] = toClient[r] /\ gateway'[r] = gateway[r]
  BY <1>1, <1>2 DEF TypeOK
<1>5. /\ Append(toClient[s], m) \in Seq(Messages) /\ Append(toClient[s], m) # <<>>
      /\ DOMAIN Append(toClient[s], m) = 1..(Len(toClient[s]) + 1)
      /\ DOMAIN toClient[s] = 1..Len(toClient[s]) /\ Len(toClient[s]) \in Nat
      /\ Append(toClient[s], m)[Len(toClient[s]) + 1] = m
      /\ \A i \in 1..Len(toClient[s]) : Append(toClient[s], m)[i] = toClient[s][i]
  BY <1>1, <1>3, AppendFacts
<1>6. TypeOK'
  BY <1>1, <1>2, <1>5 DEF TypeOK, player, sound, subtitles
<1>7. AnswersFit'
  <2>1. \A i \in DOMAIN toClient'[s] :
          /\ toClient'[s][i].generation <= MaxGeneration
          /\ toClient'[s][i].kind \in {"subtitle", "syncedSubtitle", "tts"}
             => toClient'[s][i].sentence \in Sentences
    BY <1>3, <1>4, <1>5 DEF SyncInv, PlayInv, AnswersFit
  <2> QED BY <1>4, <2>1 DEF SyncInv, PlayInv, AnswersFit
<1>8. ~Untouched(s)
  BY <1>1 DEF Untouched
<1>9. SocketInv'
  <2>1. PhaseFits' /\ EndingFits' /\ NotYet'
    BY <1>1, <1>4, <1>8
       DEF SyncInv, SocketInv, PhaseFits, EndingFits, NotYet, Cleanup, Untouched, player
  <2>2. StartFirst'
    BY <1>1, <1>4 DEF SyncInv, SocketInv, StartFirst
  <2>3. NoAnswerYet'
    BY <1>2, <1>4 DEF SyncInv, SocketInv, NoAnswerYet
  <2>4. NotStopped' /\ NeverAhead' /\ NothingLost'
    BY <1>1 DEF SyncInv, SocketInv, NotStopped, NeverAhead, NothingLost, player
  <2>5. ReadyIsActive'
    <3>1. CASE s = session
      <4>1. phase # "ready" /\ (phase # "failing" =>
              \A i \in DOMAIN toClient[s] : toClient[s][i].kind # "ready")
        BY <1>1, <3>1 DEF SyncInv, SocketInv, ReadyIsActive, Sessions
      <4>2. phase # "failing" =>
              \A i \in DOMAIN toClient'[s] : toClient'[s][i].kind = "ready" => state = "active"
        BY <1>2, <1>4, <1>5, <4>1
      <4> QED BY <1>1, <1>4, <3>1, <4>1, <4>2 DEF ReadyIsActive, player
    <3>2. CASE s # session
      BY <1>1, <1>4, <3>2 DEF SyncInv, SocketInv, ReadyIsActive, PhaseFits, TypeOK, Sessions, player
    <3> QED BY <3>1, <3>2
  <2> QED BY <2>1, <2>2, <2>3, <2>4, <2>5 DEF SocketInv
<1>10. VoiceOfThisPosition' /\ CueHasOwner' /\ AudioFits' /\ HeldFits'
  BY <1>1, <1>6 DEF SyncInv, PlayInv, VoiceOfThisPosition, CueHasOwner, AudioFits, HeldFits,
     player, sound, subtitles
<1>11. NothingSaidYet'
  <2>1. session # 0 => session \in Sessions
    BY <1>1 DEF TypeOK, Sessions
  <2>2. ASSUME session # 0, phase # "ready", NEW i \in DOMAIN toClient'[session]
        PROVE  toClient'[session][i].kind \in {"ready", "error"}
    <3>1. \A k \in DOMAIN toClient[session] : toClient[session][k].kind \in {"ready", "error"}
      BY <2>2 DEF SyncInv, PlayInv, NothingSaidYet
    <3>2. CASE s = session
      <4>1. toClient'[session][i] = m \/
              (i \in DOMAIN toClient[session] /\ toClient'[session][i] = toClient[session][i])
        BY <1>4, <1>5, <2>2, <3>2
      <4> QED BY <1>3, <3>1, <4>1
    <3>3. CASE s # session
      BY <1>4, <2>1, <2>2, <3>1, <3>3
    <3> QED BY <3>2, <3>3
  <2> QED BY <1>1, <2>2 DEF SyncInv, PlayInv, NothingSaidYet, player, subtitles
<1> QED BY <1>7, <1>9, <1>10, <1>11 DEF SyncInv, PlayInv

LEMMA SpeaksInv ==
  ASSUME SyncInv, NEW s \in Sessions, PipelineSpeaks(s)
  PROVE  SyncInv'
<1> DEFINE g == serverGeneration[s]
<1>1. /\ TypeOK /\ gateway[s] = "active" /\ toClient[s] \in Seq(Messages) /\ g \in 1..MaxGeneration
      /\ UNCHANGED <<player, sound, subtitles, gateway, serverGeneration, heard, toServer>>
  BY DEF SyncInv, PlayInv, VoiceOfThisPosition, TypeOK, PipelineSpeaks
<1>2. PICK n \in inPipeline[s] :
        /\ inPipeline' = [inPipeline EXCEPT ![s] = @ \ {n}]
        /\ \E said \in {<<Sent("subtitle", n, g)>>,
                        <<Sent("syncedSubtitle", n, g), Sent("tts", n, g)>>} :
             toClient' = [toClient EXCEPT ![s] = @ \o said]
  BY DEF PipelineSpeaks
<1>3. PICK said \in {<<Sent("subtitle", n, g)>>,
                     <<Sent("syncedSubtitle", n, g), Sent("tts", n, g)>>} :
        toClient' = [toClient EXCEPT ![s] = @ \o said]
  BY <1>2
<1>4. n \in Sentences
  BY <1>1, <1>2 DEF TypeOK
<1>5. /\ Sent("subtitle", n, g) \in Messages /\ Sent("syncedSubtitle", n, g) \in Messages
      /\ Sent("tts", n, g) \in Messages
  BY <1>1, <1>4, PlaybackAssumption DEF Sent, Messages, Sentences
<1>6. /\ said \in Seq(Messages)
      /\ \A j \in DOMAIN said : said[j].kind # "ready" /\ said[j].sentence = n /\ said[j].generation = g
  <2>1. CASE said = <<Sent("subtitle", n, g)>>
    BY <1>5, <2>1 DEF Sent
  <2>2. CASE said = <<Sent("syncedSubtitle", n, g), Sent("tts", n, g)>>
    BY <1>5, <2>2 DEF Sent
  <2> QED BY <2>1, <2>2
<1>7. /\ toClient[s] \o said \in Seq(Messages)
      /\ \A i \in DOMAIN (toClient[s] \o said) :
           \/ i \in DOMAIN toClient[s] /\ (toClient[s] \o said)[i] = toClient[s][i]
           \/ \E j \in DOMAIN said : (toClient[s] \o said)[i] = said[j]
  BY <1>1, <1>6, ConcatFacts
<1>8. /\ toClient'[s] = toClient[s] \o said
      /\ \A r \in Sessions : r # s => toClient'[r] = toClient[r] /\ inPipeline'[r] = inPipeline[r]
  BY <1>1, <1>2, <1>3 DEF TypeOK
<1>9. TypeOK'
  <2>1. toClient' \in [Sessions -> Seq(Messages)]
    BY <1>1, <1>3, <1>7 DEF TypeOK
  <2>2. inPipeline' \in [Sessions -> SUBSET Sentences]
    BY <1>1, <1>2 DEF TypeOK
  <2> QED BY <1>1, <2>1, <2>2 DEF TypeOK, player, sound, subtitles
<1>10. AnswersFit'
  <2>1. \A i \in DOMAIN toClient'[s] :
          /\ toClient'[s][i].generation <= MaxGeneration
          /\ toClient'[s][i].kind \in {"subtitle", "syncedSubtitle", "tts"}
             => toClient'[s][i].sentence \in Sentences
    <3>1. g <= MaxGeneration
      BY <1>1, PlaybackAssumption
    <3> QED BY <1>4, <1>6, <1>7, <1>8, <3>1 DEF SyncInv, PlayInv, AnswersFit
  <2> QED BY <1>8, <2>1 DEF SyncInv, PlayInv, AnswersFit
<1>11. SocketInv'
  <2>1. PhaseFits' /\ EndingFits' /\ NotYet'
    BY <1>1, <1>8
       DEF SyncInv, SocketInv, PhaseFits, EndingFits, NotYet, Cleanup, Untouched, player
  <2>2. StartFirst' /\ NotStopped' /\ NeverAhead' /\ NothingLost'
    BY <1>1 DEF SyncInv, SocketInv, StartFirst, NotStopped, NeverAhead, NothingLost, player
  <2>3. NoAnswerYet'
    BY <1>1, <1>8 DEF SyncInv, SocketInv, NoAnswerYet
  <2>4. ReadyIsActive'
    <3>1. CASE s = session
      BY <1>1, <3>1 DEF ReadyIsActive, player
    <3>2. CASE s # session
      BY <1>1, <1>8, <3>2 DEF SyncInv, SocketInv, ReadyIsActive, TypeOK, Sessions, player
    <3> QED BY <3>1, <3>2
  <2> QED BY <2>1, <2>2, <2>3, <2>4 DEF SocketInv
<1>12. VoiceOfThisPosition' /\ CueHasOwner' /\ AudioFits' /\ HeldFits'
  BY <1>1, <1>9 DEF SyncInv, PlayInv, VoiceOfThisPosition, CueHasOwner, AudioFits, HeldFits,
     player, sound, subtitles
<1>13. NothingSaidYet'
  <2>1. session # 0 => session \in Sessions
    BY <1>1 DEF TypeOK, Sessions
  <2>2. s = session => phase = "ready"
    BY <1>2 DEF SyncInv, PlayInv, NothingSaidYet, Sessions
  <2> QED BY <1>1, <1>8, <2>1, <2>2 DEF SyncInv, PlayInv, NothingSaidYet, player, subtitles
<1> QED BY <1>10, <1>11, <1>12, <1>13 DEF SyncInv, PlayInv
-----------------------------------------------------------------------------
(* The theorems.                                                            *)

LEMMA StopInv ==
  ASSUME SyncInv, StopSession
  PROVE  SyncInv'
<1>1. session # 0 /\ EndSession /\ toClient' = toClient
  BY DEF StopSession
<1>2. toClient' \in [Sessions -> Seq(Messages)] /\ AnswersFit'
  BY <1>1 DEF SyncInv, PlayInv, VoiceOfThisPosition, TypeOK, AnswersFit
<1> QED BY <1>1, <1>2, EndInv

(* The half of an end behind the await; the next session may be running.    *)
LEMMA CleanupInv ==
  ASSUME SyncInv, NEW e \in ending, CleanupContinues(e)
  PROVE  SyncInv'
<1> DEFINE m == Request("stop")
<1>1. m \in Requests /\ m.kind = "stop"
  BY PlaybackAssumption DEF Request, Requests
<1> HIDE DEF m
<1>2. /\ TypeOK /\ e.session \in Sessions /\ e.session <= started /\ EndingFits
      /\ e.session = session => phase = "failing"
      /\ session # 0 => session \in Sessions
  <2>1. TypeOK /\ EndingFits
    BY DEF SyncInv, SocketInv, PlayInv, VoiceOfThisPosition
  <2>2. e.session \in Sessions
    BY <2>1 DEF TypeOK, Cleanups
  <2> QED BY <2>1, <2>2 DEF EndingFits, TypeOK, Sessions
<1>3. /\ ending' = ending \ {e}
      /\ toServer' = [toServer EXCEPT ![e.session] = Append(@, m)] \/ toServer' = toServer
      /\ toServer' = toServer \/ e.ws = "open"
      /\ held' \subseteq held /\ cues' \subseteq cues /\ audio' \subseteq audio
      /\ browser = "firefox" => cues' = {} /\ \A c \in held' : c.session # e.session
      /\ UNCHANGED <<browser, session, started, phase, generation, playbackEpoch, paused,
                     decoding, cueGeneration, refused, server, toClient>>
  BY DEF CleanupContinues, m
<1>4. /\ toServer' \in [Sessions -> Seq(Requests)]
      /\ \A r \in Sessions : r # e.session => toServer'[r] = toServer[r]
      /\ \A r \in Sessions : Count(toServer'[r]) = Count(toServer[r])
  <2>1. CASE toServer' = [toServer EXCEPT ![e.session] = Append(@, m)]
    BY <1>1, <1>2, <2>1, SendsOther
  <2>2. CASE toServer' = toServer
    BY <1>2, <2>2 DEF TypeOK
  <2> QED BY <1>3, <2>1, <2>2
<1>5. StartFirst' /\ AudioFits' /\ NothingSaidYet'
  <2>1. UNCHANGED <<browser, session, phase, gateway, inPipeline, toClient>>
    BY <1>3 DEF server
  <2>2. CASE toServer' = [toServer EXCEPT ![e.session] = Append(@, m)]
    BY <1>1, <1>2, <1>3, <2>1, <2>2, StartStaysFirst, AudioStaysFit, QuietSends
       DEF SyncInv, SocketInv, PlayInv
  <2>3. CASE toServer' = toServer
    BY <1>3, <2>1, <2>3, QuietKept DEF SyncInv, SocketInv, PlayInv, StartFirst, AudioFits
  <2> QED BY <1>3, <2>2, <2>3
<1>6. TypeOK'
  <2>1. /\ ending' \subseteq Cleanups /\ audio' \subseteq Voices
        /\ held' \subseteq Cues /\ cues' \subseteq Cues
    BY <1>2, <1>3 DEF TypeOK
  <2> QED BY <1>2, <1>3, <1>4, <2>1 DEF TypeOK, server
<1>7. SocketInv'
  <2>1. PhaseFits' /\ EndingFits' /\ NoAnswerYet' /\ ReadyIsActive'
    BY <1>3 DEF SyncInv, SocketInv, PhaseFits, EndingFits, NoAnswerYet, ReadyIsActive, server
  <2>2. ASSUME NEW s \in Sessions,
               \/ s > started
               \/ s = session /\ (phase = "connecting" \/ Cleanup("connecting") \in ending')
        PROVE  Untouched(s)'
    <3>1. s # e.session
      <4>1. CASE s > started
        BY <1>2, <4>1 DEF TypeOK, Sessions
      <4>2. CASE s = session /\ phase = "connecting"
        BY <1>2, <4>2
      <4>3. CASE s = session /\ Cleanup("connecting") \in ending'
        BY <1>2, <1>3, <4>3 DEF EndingFits, Cleanup
      <4> QED BY <2>2, <4>1, <4>2, <4>3
    <3>2. Untouched(s)
      BY <1>3, <2>2 DEF SyncInv, SocketInv, NotYet
    <3> QED BY <1>3, <1>4, <3>1, <3>2 DEF Untouched, server
  <2>3. NotYet'
    BY <1>3, <2>2 DEF NotYet, Cleanup
  <2>4. NotStopped'
    BY <1>2, <1>3, <1>4 DEF SyncInv, SocketInv, NotStopped
  <2>5. NeverAhead' /\ NothingLost'
    BY <1>2, <1>3, <1>4 DEF SyncInv, SocketInv, NeverAhead, NothingLost, server
  <2> QED BY <1>5, <2>1, <2>3, <2>4, <2>5 DEF SocketInv
<1>8. VoiceOfThisPosition' /\ AnswersFit' /\ HeldFits'
  BY <1>3, <1>6 DEF SyncInv, PlayInv, VoiceOfThisPosition, AnswersFit, HeldFits
<1>9. CueHasOwner'
  BY <1>3 DEF SyncInv, PlayInv, CueHasOwner
<1> QED BY <1>5, <1>7, <1>8, <1>9 DEF SyncInv, PlayInv

LEMMA StutterInv ==
  ASSUME SyncInv, UNCHANGED vars
  PROVE  SyncInv'
<1>1. SocketInv'
  BY SocketKept DEF SyncInv, vars, player, server, wires, socket
<1>2. TypeOK'
  BY DEF SyncInv, PlayInv, VoiceOfThisPosition, TypeOK, vars, player, sound, subtitles, server, wires
<1>3. NothingSaidYet'
  BY QuietKept DEF SyncInv, PlayInv, vars, player, subtitles, server, wires
<1>4. PlayInv'
  BY <1>2, <1>3 DEF SyncInv, PlayInv, VoiceOfThisPosition, CueHasOwner, AnswersFit, AudioFits,
     HeldFits, vars, player, sound, subtitles, wires
<1> QED BY <1>1, <1>4 DEF SyncInv

LEMMA FailureInv ==
  ASSUME SyncInv, StartFails, UNCHANGED toClient
  PROVE  SyncInv'
<1>1. toClient' \in [Sessions -> Seq(Messages)] /\ AnswersFit'
  BY DEF SyncInv, PlayInv, VoiceOfThisPosition, TypeOK, AnswersFit
<1> QED BY <1>1, FailInv

(* The invariant is inductive: every step of the page, of the gateway and   *)
(* of the wires keeps it.                                                   *)
THEOREM SyncIsInvariant == Spec => []SyncInv
<1>1. SyncInv /\ [Next]_vars => SyncInv'
  <2> SUFFICES ASSUME SyncInv, [Next]_vars PROVE SyncInv'
    OBVIOUS
  <2>1. CASE StartSession
    BY <2>1, StartInv
  <2>2. CASE SocketOpens
    BY <2>2, OpenInv
  <2>3. CASE StopSession
    BY <2>3, StopInv
  <2>4. CASE Seek
    BY <2>4, SeekInv
  <2>5. CASE Pause
    BY <2>5, PauseInv
  <2>6. CASE Resume
    BY <2>6, ResumeInv
  <2>7. CASE Capture
    BY <2>7, CaptureInv
  <2>8. ASSUME NEW s \in Sessions,
               ClientReceives(s) \/ GatewayReceives(s) \/ GatewayAnswers(s) \/ PipelineSpeaks(s)
        PROVE  SyncInv'
    BY <2>8, ClientInv, GatewayInv, AnswersInv, SpeaksInv
  <2>9. ASSUME NEW v \in decoding, Decoded(v) PROVE SyncInv'
    BY <2>9, DecodedInv
  <2>10. ASSUME NEW v \in audio, AudioEnds(v) PROVE SyncInv'
    BY <2>10, AudioEndsInv
  <2>11. ASSUME NEW c \in held, Release(c) PROVE SyncInv'
    BY <2>11, ReleaseInv
  <2>12. ASSUME NEW c \in cues, CueEnds(c) PROVE SyncInv'
    BY <2>12, CueEndsInv
  <2>13. CASE StartFails /\ UNCHANGED toClient
    BY <2>13, FailureInv
  <2>14. ASSUME NEW e \in ending, CleanupContinues(e) PROVE SyncInv'
    BY <2>14, CleanupInv
  <2>15. CASE UNCHANGED vars
    BY <2>15, StutterInv
  <2> QED BY <2>1, <2>2, <2>3, <2>4, <2>5, <2>6, <2>7, <2>8, <2>9, <2>10, <2>11, <2>12, <2>13,
             <2>14, <2>15 DEF Next
<1> QED BY InitInv, <1>1, PTL DEF Spec

(* Besides the types: a voice that is being decoded or is scheduled when     *)
(* the user seeks, pauses or stops is not heard after it, nor is one still   *)
(* in the pipeline or the socket at a seek or a stop (content.ts,            *)
(* offscreen.ts: the checks on both sides of decodeAudioData).              *)
THEOREM VoicesAreCurrent == Spec => []VoiceOfThisPosition
<1>1. SyncInv => VoiceOfThisPosition
  BY DEF SyncInv, PlayInv
<1> QED BY SyncIsInvariant, <1>1, PTL

(* In Chrome the offscreen document and the pipeline count the same seeks   *)
(* but for those on their way: none is lost, none counted twice.            *)
THEOREM SeeksAgree == Spec => []GenerationsAgree
<1>1. SyncInv => GenerationsAgree
  BY DEF SyncInv, SocketInv, NothingLost, PhaseFits, GenerationsAgree, Count
<1> QED BY SyncIsInvariant, <1>1, PTL

(* In Firefox what appears is of the running session, and what stays on     *)
(* display or held across the await of a clean-up is of the session that    *)
(* clean-up will hide (content.ts: the two sides of the await in            *)
(* cleanupFirefoxSession).                                                  *)
THEOREM CuesAreOwn == Spec => CuesOfThisSession
<1>1. SyncInv => CueHasOwner
  BY DEF SyncInv, PlayInv
<1>2. SyncInv /\ [Next]_vars => [NoLateCue]_vars
  <2> SUFFICES ASSUME SyncInv, Next, NEW c \in cues' \ cues PROVE c.session = session
    BY DEF NoLateCue
  <2>1. (\E s \in Sessions : ClientReceives(s)) \/ (\E x \in held : Release(x))
    BY DEF Next, StartSession, SocketOpens, StopSession, EndSession, StartFails,
       CleanupContinues, Seek, Pause, Resume, Capture, GatewayReceives, GatewayAnswers,
       PipelineSpeaks, Decoded, AudioEnds, CueEnds, subtitles
  <2>2. ASSUME NEW s \in Sessions, ClientReceives(s) PROVE c.session = session
    <3> DEFINE m == Head(toClient[s])
               cue == [session |-> s, sentence |-> m.sentence, generation |-> m.generation]
    <3>1. m.kind \in {"ready", "error", "subtitle", "syncedSubtitle", "tts"}
      <4>1. toClient[s] \in Seq(Messages) /\ toClient[s] # <<>>
        BY <2>2 DEF SyncInv, PlayInv, VoiceOfThisPosition, TypeOK, ClientReceives
      <4>2. m \in Messages
        BY <4>1, TailFacts
      <4> QED BY <4>2 DEF Messages
    <3>2. CASE s = session /\ m.kind = "subtitle"
      <4>1. Push(cue)
        BY <2>2, <3>2 DEF ClientReceives
      <4>2. cue.session = s
        OBVIOUS
      <4> HIDE DEF cue
      <4> QED BY <3>2, <4>1, <4>2 DEF Push
    <3>3. CASE s = session /\ m.kind = "error"
      BY <2>2, <3>3 DEF ClientReceives, StartFails, EndSession, subtitles
    <3>4. CASE s # session \/ m.kind \in {"ready", "syncedSubtitle", "tts"}
      BY <2>2, <3>4 DEF ClientReceives, subtitles
    <3> QED BY <3>1, <3>2, <3>3, <3>4
  <2>3. ASSUME NEW x \in held, Release(x) PROVE c.session = session
    BY <2>3 DEF Release, ShowNow
  <2> QED BY <2>1, <2>2, <2>3
<1> QED BY SyncIsInvariant, <1>1, <1>2, PTL DEF Spec, CuesOfThisSession
=============================================================================
