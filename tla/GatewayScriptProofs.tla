---------------------------- MODULE GatewayScriptProofs ---------------------
(***************************************************************************)
(* Proofs about what the backend does for one page, for any number of       *)
(* sockets, sessions, workers and sentences.                                *)
(*                                                                          *)
(* Gateway, with the ModelStore below it: sessions keep within their limit  *)
(* and their owners, and SESSION_READY is said with the pinned model file   *)
(* only.  The invariant has two halves.  StoreInv is about the files: no    *)
(* hash is kept for a stamp the file has not had yet, so that a change of   *)
(* the file makes every hash of it old.  SessionInv is about the books of   *)
(* the gateway: what is written under a session id belongs to a connection  *)
(* of that id, and a session is active or starting, never both.             *)
(*                                                                          *)
(* ScriptDubbing: the voices of the captions stay in their places, no       *)
(* request is forgotten, and the pipeline's loop is sound.  ScriptInv says  *)
(* that the voices follow each other up to lastVoiceEnd; that each request  *)
(* in the socket is of the generation the pipeline will have when it reads  *)
(* it (Counted); that a sentence is asked for once in a generation, and in  *)
(* the mode the page is in unless it is excused; and that what is asked for *)
(* and not complete is coming.  Most lemmas are about one page, or one      *)
(* queue, before and after: the steps at the end put them together.         *)
(***************************************************************************)
EXTENDS Gateway, ScriptDubbing, SequenceTheorems, FiniteSetTheorems, WellFoundedInduction, TLAPS

AtMostOne(S) == S = {} \/ \E e : S = {e}

StoreInv ==
  /\ file \in [content : Contents, stamp : 0..MaxStamp]
  /\ manifestFile \in Manifests /\ manifest \in BOOLEAN
  /\ installing \in {"no", "downloading", "verified"}
  /\ hashCache \subseteq Entries /\ AtMostOne(hashCache)
  /\ hashFile \subseteq Entries /\ AtMostOne(hashFile)
  /\ \A e \in hashCache \union hashFile :
       /\ e.stamp <= file.stamp
       /\ e.stamp = file.stamp => e.sha = Sha(file.content)

Named(book) == {s \in SessionIds : book[s] # None}

(* Sockets, owned connections, sessions that are active, pipelines that run, *)
(* sessions that are starting and warm-ups under way agree.                 *)
BooksFit(sock, own, act, run, start, need) ==
  /\ sock \in [Conns -> {"open", "closing", "closed"}] /\ own \subseteq Conns
  /\ act \in [SessionIds -> Conns \union {None}] /\ start \in [SessionIds -> Conns \union {None}]
  /\ run \in [Conns -> Nat] /\ need \in [Conns -> (SUBSET Workers) \union {None}]
  /\ \A c \in Conns : run[c] = IF act[SessionOf[c]] = c THEN 1 ELSE 0
  /\ \A s \in Named(act) :
       SessionOf[act[s]] = s /\ sock[act[s]] # "closed" /\ act[s] \in own
  /\ \A s \in Named(start) :
       SessionOf[start[s]] = s /\ sock[start[s]] # "closed" /\ need[start[s]] # None
  /\ \A s \in SessionIds : act[s] = None \/ start[s] = None

Within(act, start) ==
  /\ IsFiniteSet(Named(act)) /\ IsFiniteSet(Named(start))
  /\ Cardinality(Named(act)) + Cardinality(Named(start)) <= MaxSessions

SessionInv ==
  /\ booting \in BOOLEAN /\ waiting \subseteq Conns
  /\ worker \in [Workers -> {"stopped", "starting", "ready", "error"}]
  /\ BooksFit(socket, owned, active, running, starting, needs)
  /\ Within(active, starting)

GatewayInv == StoreInv /\ SessionInv
-----------------------------------------------------------------------------
(* A file that was hashed is held to be the pinned one only if it is.       *)
LEMMA HashKeeps ==
  ASSUME StoreInv, ~Unhashed, Hash, UNCHANGED <<manifest, manifestFile, installing>>
  PROVE  /\ StoreInv'
         /\ \A e \in hashCache' : e.sha = "pinned" => file'.content = "genuine"
<1> DEFINE entry == [stamp |-> file.stamp, sha |-> Sha(file'.content)]
<1> USE DEF StoreInv
<1>1. /\ hashCache' = {entry} /\ hashFile' \in {hashFile, {entry}}
      /\ file' = file \/ \E c \in Contents : file' = Changed(c) /\ file.stamp < MaxStamp
  BY DEF Hash, SaveHashCache
<1>2. file.stamp \in 0..MaxStamp /\ file.content \in Contents
  OBVIOUS
<1>3. /\ file' \in [content : Contents, stamp : 0..MaxStamp]
      /\ file'.stamp = file.stamp + 1 \/ file' = file
  BY <1>1, <1>2, StampAssumption DEF Changed
<1>4. entry \in Entries
  BY <1>2 DEF Entries, Sha
<1>5. entry.stamp <= file'.stamp /\ entry.sha = Sha(file'.content)
  BY <1>2, <1>3
<1>6. \A e \in hashFile : e.stamp \in 0..MaxStamp
  BY DEF Entries
<1>7. ASSUME NEW e \in hashFile
      PROVE  e.stamp <= file'.stamp /\ (e.stamp = file'.stamp => e.sha = Sha(file'.content))
  BY <1>2, <1>3, <1>6
<1>8. AtMostOne(hashCache') /\ AtMostOne(hashFile')
  BY <1>1 DEF AtMostOne
<1>9. hashCache' \subseteq Entries /\ hashFile' \subseteq Entries
  BY <1>1, <1>4
<1>10. \A e \in hashCache' \union hashFile' :
         e.stamp <= file'.stamp /\ (e.stamp = file'.stamp => e.sha = Sha(file'.content))
  BY <1>1, <1>5, <1>7
<1>11. \A e \in hashCache' : e.sha = "pinned" => file'.content = "genuine"
  BY <1>1, <1>5 DEF Sha
<1> QED
  BY <1>3, <1>8, <1>9, <1>10, <1>11

(* checkComponent: an artifact passes only if it is the pinned one.         *)
LEMMA CheckComponentKeeps ==
  ASSUME StoreInv, NEW ok \in BOOLEAN, CheckComponent(ok)
  PROVE  StoreInv' /\ (ok => file'.content = "genuine")
<1>1. UNCHANGED <<manifest, manifestFile, installing>>
  BY DEF CheckComponent
<1>2. CASE ~manifest \/ Unhashed
  <2>1. UNCHANGED <<file, hashCache, hashFile>> /\ ~ok
    BY <1>2 DEF CheckComponent
  <2> QED
    BY <1>1, <2>1 DEF StoreInv
<1>3. CASE ~(~manifest \/ Unhashed) /\ Known
  <2>1. UNCHANGED <<file, hashCache, hashFile>> /\ (ok => \E e \in hashCache : e.sha = "pinned")
    BY <1>3 DEF CheckComponent, GetArtifactSha256
  <2>2. PICK e \in hashCache : e.stamp = file.stamp
    BY <1>3 DEF Known
  <2>3. hashCache = {e} /\ e.sha = Sha(file.content)
    BY <2>2 DEF StoreInv, AtMostOne
  <2>4. ok => file.content = "genuine"
    BY <2>1, <2>3 DEF Sha
  <2> QED
    BY <1>1, <2>1, <2>4 DEF StoreInv
<1>4. CASE ~(~manifest \/ Unhashed) /\ ~Known
  <2>1. Hash /\ (ok => \E e \in hashCache' : e.sha = "pinned")
    BY <1>4 DEF CheckComponent, GetArtifactSha256
  <2> QED
    BY <1>1, <1>4, <2>1, HashKeeps
<1> QED
  BY <1>2, <1>3, <1>4

(* The installation, and whoever else changes the file.                     *)
LEMMA StoreStepKeeps ==
  ASSUME StoreInv, StoreStep
  PROVE  StoreInv'
<1> USE DEF StoreInv
<1>1. UNCHANGED <<hashCache, hashFile, manifest>>
  BY DEF StoreStep, InstallStarts, DownloadEnds, WriteManifest, InstallDies, FileChanges
<1>2. manifestFile' \in Manifests /\ installing' \in {"no", "downloading", "verified"}
  BY DEF StoreStep, InstallStarts, DownloadEnds, WriteManifest, InstallDies, FileChanges, Manifests
<1>3. file' = file \/ \E c \in Contents : file' = Changed(c) /\ file.stamp < MaxStamp
  BY DEF StoreStep, InstallStarts, DownloadEnds, WriteManifest, InstallDies, FileChanges, Contents
<1>4. file.stamp \in 0..MaxStamp /\ \A e \in hashCache \union hashFile : e.stamp \in 0..MaxStamp
  BY DEF Entries
<1>5. /\ file' \in [content : Contents, stamp : 0..MaxStamp]
      /\ file'.stamp = file.stamp + 1 \/ file' = file
  BY <1>3, <1>4, StampAssumption DEF Changed
<1>6. \A e \in hashCache \union hashFile :
         e.stamp <= file'.stamp /\ (e.stamp = file'.stamp => e.sha = Sha(file'.content))
  BY <1>4, <1>5
<1> QED
  BY <1>1, <1>2, <1>5, <1>6

(* A new process reads the file of hashes.                                  *)
LEMMA OpenStoreKeeps ==
  ASSUME StoreInv, OpenStore, UNCHANGED disk
  PROVE  StoreInv'
BY DEF StoreInv, OpenStore, ReadManifest, disk
-----------------------------------------------------------------------------
(* Fewer sessions are within the limit too.                                 *)
LEMMA FewerAreWithin ==
  ASSUME NEW act, NEW start, Within(act, start), NEW newAct, NEW newStart,
         Named(newAct) \subseteq Named(act), Named(newStart) \subseteq Named(start)
  PROVE  Within(newAct, newStart)
<1>1. /\ IsFiniteSet(Named(newAct)) /\ Cardinality(Named(newAct)) <= Cardinality(Named(act))
      /\ IsFiniteSet(Named(newStart)) /\ Cardinality(Named(newStart)) <= Cardinality(Named(start))
  BY FS_Subset DEF Within
<1>2. /\ Cardinality(Named(act)) \in Nat /\ Cardinality(Named(start)) \in Nat
      /\ Cardinality(Named(newAct)) \in Nat /\ Cardinality(Named(newStart)) \in Nat
  BY <1>1, FS_CardinalityType DEF Within
<1> QED
  BY <1>1, <1>2, GatewayAssumption DEF Within

(* terminateSession.                                                        *)
LEMMA TerminateFits ==
  ASSUME NEW sock, NEW own, NEW start, NEW need,
         BooksFit(sock, own, active, running, start, need), NEW c \in Conns, Terminate(c)
  PROVE  /\ BooksFit(sock, own, active', running', start, need)
         /\ Named(active') \subseteq Named(active)
         /\ active'[SessionOf[c]] # c
         /\ \A s \in SessionIds : active'[s] \in {active[s], None}
<1> DEFINE t == SessionOf[c]
<1> USE DEF BooksFit
<1>1. t \in SessionIds /\ c # None
  BY GatewayAssumption
<1>2. CASE active[t] = c
  <2>1. running' = [running EXCEPT ![c] = @ - 1] /\ active' = [active EXCEPT ![t] = None]
    BY <1>2 DEF Terminate
  <2>2. /\ active' \in [SessionIds -> Conns \union {None}] /\ active'[t] = None
        /\ \A s \in SessionIds \ {t} : active'[s] = active[s]
    BY <1>1, <2>1
  <2>3. running' \in [Conns -> Nat] /\ running'[c] = 0 /\ \A d \in Conns \ {c} : running'[d] = running[d]
    BY <1>2, <2>1
  <2>4. ASSUME NEW d \in Conns PROVE running'[d] = IF active'[SessionOf[d]] = d THEN 1 ELSE 0
    <3>1. SessionOf[d] \in SessionIds /\ d # None
      BY GatewayAssumption
    <3>2. CASE d = c
      BY <1>1, <2>2, <2>3, <3>2
    <3>3. CASE d # c
      BY <1>1, <1>2, <2>2, <2>3, <3>1, <3>3
    <3> QED
      BY <3>2, <3>3
  <2>5. Named(active') = Named(active) \ {t}
    BY <2>2 DEF Named
  <2>6. \A s \in Named(active') : s \in Named(active) /\ active'[s] = active[s]
    BY <2>2, <2>5 DEF Named
  <2> QED
    BY <1>1, <2>2, <2>3, <2>4, <2>5, <2>6
<1>3. CASE active[t] # c
  BY <1>3 DEF Terminate
<1> QED
  BY <1>2, <1>3

(* The end of startSession for some connections.                            *)
LEMMA LeavesFits ==
  ASSUME NEW sock, NEW own, NEW act, NEW run,
         BooksFit(sock, own, act, run, starting, needs), NEW cs \in SUBSET Conns, Leaves(cs)
  PROVE  /\ BooksFit(sock, own, act, run, starting', needs')
         /\ Named(starting') \subseteq Named(starting)
         /\ \A s \in SessionIds : starting[s] \in cs => starting'[s] = None
<1> USE DEF BooksFit, Leaves
<1>1. None \notin cs
  BY GatewayAssumption
<1>2. \A s \in SessionIds : starting'[s] = IF starting[s] \in cs THEN None ELSE starting[s]
  OBVIOUS
<1>3. Named(starting') \subseteq Named(starting)
  BY <1>2 DEF Named
<1>4. \A s \in Named(starting') :
        /\ s \in Named(starting) /\ starting'[s] = starting[s]
        /\ starting[s] \notin cs /\ starting[s] \in Conns
  BY <1>2, <1>3 DEF Named
<1>5. \A s \in Named(starting') : needs'[starting'[s]] # None
  BY <1>4
<1>6. starting' \in [SessionIds -> Conns \union {None}]
  OBVIOUS
<1>7. needs' \in [Conns -> (SUBSET Workers) \union {None}]
  OBVIOUS
<1>8. \A s \in Named(starting') :
        SessionOf[starting'[s]] = s /\ sock[starting'[s]] # "closed"
  BY <1>4
<1>9. \A s \in SessionIds : act[s] = None \/ starting'[s] = None
  BY <1>2
<1> QED
  BY <1>2, <1>3, <1>5, <1>6, <1>7, <1>8, <1>9

(* JsonLineWorkerClient.start.                                              *)
LEMMA StartKeeps ==
  ASSUME worker \in [Workers -> {"stopped", "starting", "ready", "error"}], NEW ws, Start(ws)
  PROVE  worker' \in [Workers -> {"stopped", "starting", "ready", "error"}]
BY DEF Start

(* A session that is warmed up is counted as starting: the limit was looked *)
(* at in the same step.                                                     *)
LEMMA WarmUpKeeps ==
  ASSUME GatewayInv, NEW c \in Conns, socket[c] = "open", WarmUp(c),
         starting[SessionOf[c]] = None, active'[SessionOf[c]] = None,
         BooksFit(socket, owned, active', running', starting, needs),
         Within(active', starting),
         Cardinality(Named(active')) + Cardinality(Named(starting)) < MaxSessions,
         UNCHANGED <<booting, socket, owned>>
  PROVE  GatewayInv'
<1> DEFINE t == SessionOf[c]
<1> USE DEF GatewayInv, SessionInv
<1>0. t \in SessionIds /\ c # None
  BY GatewayAssumption
<1>1. PICK ok \in BOOLEAN :
        /\ CheckComponent(ok)
        /\ IF ok
           THEN /\ Start(Workers)
                /\ starting' = [starting EXCEPT ![SessionOf[c]] = c]
                /\ needs' = [needs EXCEPT ![c] = {w \in Workers : worker[w] # "ready"}]
                /\ waiting' = waiting \union {c}
           ELSE UNCHANGED <<worker, starting, needs>> /\ waiting' = waiting \ {c}
  BY DEF WarmUp
<1>2. StoreInv' /\ waiting' \subseteq Conns
  BY <1>1, CheckComponentKeeps
<1>3. CASE ok
  <2>1. /\ starting' = [starting EXCEPT ![t] = c]
        /\ needs' = [needs EXCEPT ![c] = {w \in Workers : worker[w] # "ready"}]
        /\ worker' \in [Workers -> {"stopped", "starting", "ready", "error"}]
    BY <1>1, <1>3, StartKeeps
  <2>2. starting \in [SessionIds -> Conns \union {None}] /\ needs \in [Conns -> (SUBSET Workers) \union {None}]
    BY DEF BooksFit
  <2>3. /\ starting' \in [SessionIds -> Conns \union {None}] /\ starting'[t] = c
        /\ \A s \in SessionIds \ {t} : starting'[s] = starting[s]
    BY <1>0, <2>1, <2>2
  <2>4. /\ needs' \in [Conns -> (SUBSET Workers) \union {None}] /\ needs'[c] # None
        /\ \A d \in Conns \ {c} : needs'[d] = needs[d]
    BY <2>1, <2>2, GatewayAssumption
  <2>5. Named(starting') = Named(starting) \union {t} /\ t \notin Named(starting)
    BY <1>0, <2>3 DEF Named
  <2>6. \A s \in Named(starting') :
           /\ SessionOf[starting'[s]] = s /\ socket'[starting'[s]] # "closed"
           /\ needs'[starting'[s]] # None
    <3> SUFFICES ASSUME NEW s \in Named(starting')
                 PROVE  /\ SessionOf[starting'[s]] = s /\ socket'[starting'[s]] # "closed"
                        /\ needs'[starting'[s]] # None
      OBVIOUS
    <3>1. CASE s = t
      BY <2>3, <2>4, <3>1
    <3>2. CASE s # t
      <4>1. s \in Named(starting) /\ starting'[s] = starting[s] /\ starting[s] \in Conns
        BY <2>2, <2>3, <2>5, <3>2 DEF Named
      <4> QED
        BY <2>4, <4>1 DEF BooksFit
    <3> QED
      BY <3>1, <3>2
  <2>7. BooksFit(socket', owned', active', running', starting', needs')
    BY <2>3, <2>4, <2>6 DEF BooksFit
  <2>8. Within(active', starting')
    <3>1. IsFiniteSet(Named(starting')) /\ Cardinality(Named(starting')) = Cardinality(Named(starting)) + 1
      <4>1. IsFiniteSet(Named(starting))
        BY DEF Within
      <4>2. Named(starting') = Named(starting) \union {t} /\ t \notin Named(starting)
        BY <2>5
      <4> DEFINE old == Named(starting)
                 new == Named(starting')
      <4> HIDE DEF old, new
      <4>3. IsFiniteSet(old) /\ new = old \union {t} /\ t \notin old
        BY <4>1, <4>2 DEF old, new
      <4>4. IsFiniteSet(new) /\ Cardinality(new) = Cardinality(old) + 1
        <5> HIDE DEF t
        <5> QED
          BY <4>3, FS_AddElement
      <4> QED
        BY <4>4 DEF old, new
    <3>2. Cardinality(Named(starting)) \in Nat /\ Cardinality(Named(active')) \in Nat
      BY FS_CardinalityType DEF Within
    <3> QED
      BY <3>1, <3>2, GatewayAssumption DEF Within
  <2> QED
    BY <1>2, <2>1, <2>7, <2>8
<1>4. CASE ~ok
  BY <1>1, <1>2, <1>4
<1> QED
  BY <1>3, <1>4

(* startSession, to its await.                                              *)
LEMMA StartSessionKeeps ==
  ASSUME GatewayInv, NEW c \in Conns, StartSession(c)
  PROVE  GatewayInv' /\ \A s \in SessionIds : active'[s] \in {active[s], None}
<1> DEFINE t == SessionOf[c]
           others == {active[t], starting[t]} \ {None, c}
<1> USE DEF GatewayInv, SessionInv
<1>0. t \in SessionIds /\ c # None
  BY GatewayAssumption
<1>1. CASE others # {} /\ Refused(c) /\ UNCHANGED <<active, running>>
  BY <1>1 DEF StartSession, Refused, storeVars, disk, StoreInv
<1>2. CASE /\ others = {} /\ starting[t] = None
           /\ Terminate(c)
           /\ IF Cardinality({r \in SessionIds : active'[r] # None})
                 + Cardinality({r \in SessionIds : starting[r] # None}) >= MaxSessions
              THEN Refused(c) ELSE WarmUp(c)
  <2>1. socket[c] = "open" /\ UNCHANGED <<booting, socket, owned>>
    BY DEF StartSession
  <2>2. /\ BooksFit(socket, owned, active', running', starting, needs)
        /\ Named(active') \subseteq Named(active)
        /\ active'[t] # c /\ \A s \in SessionIds : active'[s] \in {active[s], None}
    BY <1>2, TerminateFits
  <2>3. active'[t] = None
    BY <1>0, <1>2, <2>2
  <2>4. Within(active', starting)
    BY <2>2, FewerAreWithin
  <2>5. CASE Refused(c)
    BY <2>1, <2>2, <2>4, <2>5 DEF Refused, storeVars, disk, StoreInv
  <2>6. CASE Cardinality(Named(active')) + Cardinality(Named(starting)) < MaxSessions /\ WarmUp(c)
    BY <1>2, <2>1, <2>2, <2>3, <2>4, <2>6, WarmUpKeeps
  <2>7. Cardinality(Named(active')) \in Nat /\ Cardinality(Named(starting)) \in Nat
    BY <2>4, FS_CardinalityType DEF Within
  <2> QED
    BY <1>2, <2>2, <2>5, <2>6, <2>7, GatewayAssumption DEF Named
<1> QED
  BY <1>1, <1>2 DEF StartSession

(* What the action property says of a step.                                 *)
Genuine == \A s \in SessionIds : active'[s] \notin {None, active[s]} => file'.content = "genuine"

(* startSession, from its await: the session that was starting is active.   *)
LEMMA ProceedKeeps ==
  ASSUME GatewayInv, NEW c \in Conns, Proceed(c)
  PROVE  GatewayInv' /\ Genuine
<1> DEFINE t == SessionOf[c]
<1> USE DEF GatewayInv, SessionInv
<1>0. t \in SessionIds /\ c # None
  BY GatewayAssumption
<1>1. /\ Leaves({c}) /\ UNCHANGED <<booting, socket, worker>> /\ waiting' \subseteq Conns
  BY DEF Proceed, Leaves
<1>2. /\ BooksFit(socket, owned, active, running, starting', needs')
      /\ Named(starting') \subseteq Named(starting)
      /\ \A s \in SessionIds : starting[s] \in {c} => starting'[s] = None
  BY <1>1, LeavesFits
<1>3. CASE UNCHANGED <<active, running, owned>> /\ StoreInv'
  <2>1. Within(active', starting')
    BY <1>2, <1>3, FewerAreWithin
  <2> QED
    BY <1>1, <1>2, <1>3, <2>1 DEF Genuine
<1>4. CASE ~StillWanted(c)
  <2>1. UNCHANGED <<active, running, owned>> /\ StoreInv'
    BY <1>4 DEF Proceed, storeVars, disk, StoreInv
  <2> QED
    BY <2>1, <1>3
<1>5. CASE StillWanted(c)
  <2>1. PICK ok \in BOOLEAN :
          /\ Create(ok)
          /\ IF ok
             THEN /\ active' = [active EXCEPT ![SessionOf[c]] = c]
                  /\ running' = [running EXCEPT ![c] = @ + 1]
                  /\ owned' = owned \union {c}
             ELSE UNCHANGED <<active, running, owned>>
    BY <1>5 DEF Proceed
  <2>2. StoreInv' /\ (ok => file'.content = "genuine")
    BY <2>1, CheckComponentKeeps DEF Create
  <2>3. CASE ~ok
    BY <1>3, <2>1, <2>2, <2>3
  <2>4. CASE ok
    <3>1. /\ active' = [active EXCEPT ![t] = c] /\ owned' = owned \union {c}
          /\ running' = [running EXCEPT ![c] = @ + 1]
      BY <2>1, <2>4
    <3>2. /\ socket[c] = "open" /\ starting[t] = c /\ starting'[t] = None
      BY <1>0, <1>2, <1>5 DEF StillWanted
    <3>3. /\ active[t] = None /\ running[c] = 0
          /\ active \in [SessionIds -> Conns \union {None}] /\ running \in [Conns -> Nat]
      BY <1>0, <3>2 DEF BooksFit
    <3>4. /\ active' \in [SessionIds -> Conns \union {None}] /\ active'[t] = c
          /\ \A s \in SessionIds \ {t} : active'[s] = active[s]
      BY <1>0, <3>1, <3>3
    <3>5. /\ running' \in [Conns -> Nat] /\ running'[c] = 1
          /\ \A d \in Conns \ {c} : running'[d] = running[d]
      BY <3>1, <3>3
    <3>6. Named(active') = Named(active) \union {t} /\ t \notin Named(active)
      BY <1>0, <3>3, <3>4 DEF Named
    <3>7. ASSUME NEW d \in Conns PROVE running'[d] = IF active'[SessionOf[d]] = d THEN 1 ELSE 0
      <4>1. CASE d = c
        BY <3>4, <3>5, <4>1
      <4>2. CASE d # c
        <5>1. SessionOf[d] \in SessionIds /\ d # None
          BY GatewayAssumption
        <5>2. running[d] = IF active[SessionOf[d]] = d THEN 1 ELSE 0
          BY DEF BooksFit
        <5> QED
          BY <3>3, <3>4, <3>5, <4>2, <5>1, <5>2
      <4> QED
        BY <4>1, <4>2
    <3>8. ASSUME NEW s \in Named(active')
          PROVE  SessionOf[active'[s]] = s /\ socket[active'[s]] # "closed" /\ active'[s] \in owned'
      <4>1. CASE s = t
        BY <3>1, <3>2, <3>4, <4>1
      <4>2. CASE s # t
        BY <3>1, <3>4, <3>6, <4>2 DEF BooksFit, Named
      <4> QED
        BY <4>1, <4>2
    <3>9. \A s \in SessionIds : active'[s] = None \/ starting'[s] = None
      BY <1>2, <3>2, <3>4 DEF BooksFit
    <3>10. owned' \subseteq Conns
      BY <3>1 DEF BooksFit
    <3>11. BooksFit(socket', owned', active', running', starting', needs')
      BY <1>1, <1>2, <3>4, <3>5, <3>7, <3>8, <3>9, <3>10 DEF BooksFit
    <3>12. Within(active', starting')
      <4>1. Named(starting') \subseteq Named(starting) \ {t} /\ t \in Named(starting)
        BY <1>0, <1>2, <3>2 DEF Named
      <4>2. /\ IsFiniteSet(Named(starting) \ {t})
            /\ Cardinality(Named(starting) \ {t}) = Cardinality(Named(starting)) - 1
        BY <4>1, FS_RemoveElement DEF Within
      <4>3. /\ IsFiniteSet(Named(starting'))
            /\ Cardinality(Named(starting')) <= Cardinality(Named(starting)) - 1
        BY <4>1, <4>2, FS_Subset
      <4>4. /\ IsFiniteSet(Named(active'))
            /\ Cardinality(Named(active')) = Cardinality(Named(active)) + 1
        BY <3>6, FS_AddElement DEF Within
      <4>5. /\ Cardinality(Named(starting)) \in Nat /\ Cardinality(Named(active)) \in Nat
            /\ Cardinality(Named(starting')) \in Nat
        BY <4>3, FS_CardinalityType DEF Within
      <4> QED
        BY <4>3, <4>4, <4>5, GatewayAssumption DEF Within
    <3> QED
      BY <1>1, <2>2, <2>4, <3>11, <3>12 DEF Genuine
  <2> QED
    BY <2>3, <2>4
<1> QED
  BY <1>4, <1>5

(* A step that starts no session and touches no file.                       *)
LEMMA QuietStepKeeps ==
  ASSUME GatewayInv, UNCHANGED storeVars, booting' \in BOOLEAN, waiting' \subseteq Conns,
         worker' \in [Workers -> {"stopped", "starting", "ready", "error"}],
         BooksFit(socket', owned', active', running', starting', needs'),
         Named(starting') \subseteq Named(starting),
         \A s \in SessionIds : active'[s] \in {active[s], None}
  PROVE  GatewayInv' /\ Genuine
<1>1. StoreInv'
  BY DEF GatewayInv, StoreInv, storeVars, disk
<1>2. Named(active') \subseteq Named(active)
  BY DEF Named
<1>3. Within(active', starting')
  BY <1>2, FewerAreWithin DEF GatewayInv, SessionInv
<1> QED
  BY <1>1, <1>3 DEF GatewayInv, SessionInv, Genuine

(* The timer of a warm-up, and a worker that dies while it is awaited.      *)
LEMMA LeavingKeeps ==
  ASSUME GatewayInv, NEW cs \in SUBSET Conns, Leaves(cs),
         worker' \in [Workers -> {"stopped", "starting", "ready", "error"}],
         UNCHANGED <<booting, socket, owned, active, running, storeVars>>
  PROVE  GatewayInv' /\ Genuine
<1>1. /\ BooksFit(socket', owned', active', running', starting', needs')
      /\ Named(starting') \subseteq Named(starting)
  BY LeavesFits DEF GatewayInv, SessionInv
<1>2. waiting' \subseteq Conns /\ booting' \in BOOLEAN
  BY DEF Leaves, GatewayInv, SessionInv
<1> QED
  BY <1>1, <1>2, QuietStepKeeps

(* A worker gets ready, and no warm-up waits for it any more.               *)
LEMMA WorkerReadyKeeps ==
  ASSUME GatewayInv, NEW w \in Workers, WorkerReady(w)
  PROVE  GatewayInv' /\ Genuine
<1> USE DEF GatewayInv, SessionInv
<1>1. /\ needs' = [c \in Conns |-> IF needs[c] = None THEN None ELSE needs[c] \ {w}]
      /\ UNCHANGED <<booting, socket, owned, active, running, starting, waiting, storeVars>>
      /\ worker' = [worker EXCEPT ![w] = "ready"]
  BY DEF WorkerReady
<1>2. worker' \in [Workers -> {"stopped", "starting", "ready", "error"}]
  BY <1>1
<1>3. \A c \in Conns : needs[c] # None => needs[c] \ {w} \in SUBSET Workers /\ needs[c] \ {w} # None
  BY GatewayAssumption DEF BooksFit
<1>4. needs' \in [Conns -> (SUBSET Workers) \union {None}]
  BY <1>1, <1>3
<1>5. \A c \in Conns : needs[c] # None => needs'[c] # None
  BY <1>1, <1>3
<1>6. \A s \in Named(starting) : starting[s] \in Conns
  BY DEF BooksFit, Named
<1>7. BooksFit(socket', owned', active', running', starting', needs')
  BY <1>1, <1>4, <1>5, <1>6 DEF BooksFit
<1> QED
  BY <1>1, <1>2, <1>7, QuietStepKeeps

(* A socket opens, or begins to close.                                      *)
LEMMA SocketKeeps ==
  ASSUME GatewayInv, NEW c \in Conns,
         Connect(c) \/ Closing(c)
  PROVE  GatewayInv' /\ Genuine
<1> USE DEF GatewayInv, SessionInv
<1>1. /\ \E new \in {"open", "closing"} : socket' = [socket EXCEPT ![c] = new]
      /\ UNCHANGED <<booting, owned, active, running, starting, needs, worker, storeVars>>
      /\ waiting' \subseteq Conns
  BY DEF Connect, Closing
<1>2. /\ socket' \in [Conns -> {"open", "closing", "closed"}]
      /\ \A d \in Conns : socket[d] # "closed" => socket'[d] # "closed"
  BY <1>1 DEF BooksFit
<1>3. /\ \A s \in Named(active) : active[s] \in Conns
      /\ \A s \in Named(starting) : starting[s] \in Conns
  BY DEF BooksFit, Named
<1>4. BooksFit(socket', owned', active', running', starting', needs')
  BY <1>1, <1>2, <1>3 DEF BooksFit
<1> QED
  BY <1>1, <1>4, QuietStepKeeps

(* SESSION_STOP.                                                            *)
LEMMA StopSessionKeeps ==
  ASSUME GatewayInv, NEW c \in Conns, StopSession(c)
  PROVE  GatewayInv' /\ Genuine
<1> USE DEF GatewayInv, SessionInv
<1>1. Terminate(c) /\ UNCHANGED <<booting, socket, owned, starting, needs, waiting, worker, storeVars>>
  BY DEF StopSession
<1>2. /\ BooksFit(socket, owned, active', running', starting, needs)
      /\ \A s \in SessionIds : active'[s] \in {active[s], None}
  BY <1>1, TerminateFits
<1> QED
  BY <1>1, <1>2, QuietStepKeeps

(* releaseConnection: nothing is left of the connection.                    *)
LEMMA CloseKeeps ==
  ASSUME GatewayInv, NEW c \in Conns, Close(c)
  PROVE  GatewayInv' /\ Genuine
<1> DEFINE t == SessionOf[c]
<1> USE DEF GatewayInv, SessionInv
<1>0. t \in SessionIds /\ c # None
  BY GatewayAssumption
<1>1. /\ socket' = [socket EXCEPT ![c] = "closed"] /\ owned' = owned \ {c}
      /\ starting' = [s \in SessionIds |-> IF starting[s] = c THEN None ELSE starting[s]]
      /\ UNCHANGED <<booting, needs, waiting, worker, storeVars>>
  BY DEF Close
<1>2. /\ BooksFit(socket, owned, active', running', starting, needs)
      /\ \A s \in SessionIds : active'[s] \in {active[s], None}
      /\ active'[t] # c
  <2>1. CASE c \in owned
    <3>1. Terminate(c)
      BY <2>1 DEF Close
    <3> QED
      BY <3>1, TerminateFits
  <2>2. CASE c \notin owned
    <3>1. UNCHANGED <<running, active>>
      BY <2>2 DEF Close
    <3>2. active[t] # c
      BY <1>0, <2>2 DEF BooksFit, Named
    <3> QED
      BY <3>1, <3>2
  <2> QED
    BY <2>1, <2>2
<1>3. /\ socket' \in [Conns -> {"open", "closing", "closed"}]
      /\ \A d \in Conns \ {c} : socket'[d] = socket[d]
  BY <1>1, <1>2 DEF BooksFit
<1>4. \A s \in Named(active') : active'[s] \in Conns \ {c}
  BY <1>0, <1>2 DEF BooksFit, Named
<1>5. starting \in [SessionIds -> Conns \union {None}]
  BY DEF BooksFit
<1>6. \A s \in Named(starting') :
        s \in Named(starting) /\ starting'[s] = starting[s] /\ starting[s] \in Conns \ {c}
  BY <1>1, <1>5 DEF Named
<1>7. /\ starting' \in [SessionIds -> Conns \union {None}]
      /\ \A s \in SessionIds : starting[s] = None => starting'[s] = None
  BY <1>0, <1>1, <1>5
<1>8. BooksFit(socket', owned', active', running', starting', needs')
  BY <1>1, <1>2, <1>3, <1>4, <1>6, <1>7 DEF BooksFit
<1>9. Named(starting') \subseteq Named(starting)
  BY <1>6
<1> QED
  BY <1>1, <1>2, <1>8, <1>9, QuietStepKeeps

(* A fresh process has no sessions.                                         *)
LEMMA NobodyFits ==
  ASSUME NEW sock \in [Conns -> {"open", "closing", "closed"}]
  PROVE  /\ BooksFit(sock, {}, Nobody(SessionIds), [c \in Conns |-> 0], Nobody(SessionIds), Nobody(Conns))
         /\ Within(Nobody(SessionIds), Nobody(SessionIds))
<1>1. Named(Nobody(SessionIds)) = {}
  BY DEF Named, Nobody
<1>2. Within(Nobody(SessionIds), Nobody(SessionIds))
  BY <1>1, FS_EmptySet, GatewayAssumption DEF Within
<1>3. \A c \in Conns : Nobody(SessionIds)[SessionOf[c]] # c
  BY GatewayAssumption DEF Nobody
<1> QED
  BY <1>1, <1>2, <1>3 DEF BooksFit, Nobody

(* The backend is started again.                                            *)
LEMMA RestartKeeps ==
  ASSUME GatewayInv, Restart
  PROVE  GatewayInv' /\ Genuine
<1>1. StoreInv'
  BY OpenStoreKeeps DEF GatewayInv, Restart
<1>2. /\ socket' = [c \in Conns |-> "closed"] /\ owned' = {} /\ waiting' = {} /\ booting' = TRUE
      /\ active' = Nobody(SessionIds) /\ starting' = Nobody(SessionIds) /\ needs' = Nobody(Conns)
      /\ running' = [c \in Conns |-> 0] /\ worker' = [w \in Workers |-> "stopped"]
  BY DEF Restart
<1>3. socket' \in [Conns -> {"open", "closing", "closed"}]
  BY <1>2
<1>4. /\ BooksFit(socket', owned', active', running', starting', needs')
      /\ Within(active', starting')
  BY <1>2, <1>3, NobodyFits
<1>5. worker' \in [Workers -> {"stopped", "starting", "ready", "error"}]
  BY <1>2
<1>6. booting' \in BOOLEAN /\ waiting' \subseteq Conns
  BY <1>2
<1>7. Genuine
  BY <1>2 DEF Genuine, Nobody
<1> QED
  BY <1>1, <1>4, <1>5, <1>6, <1>7 DEF GatewayInv, SessionInv
-----------------------------------------------------------------------------
LEMMA GatewayInit == Init => GatewayInv
<1> SUFFICES ASSUME Init PROVE GatewayInv
  OBVIOUS
<1>1. StoreInv
  BY StampAssumption DEF Init, StoreInit, StoreInv, AtMostOne, Contents, Manifests, ReadManifest
<1>2. socket \in [Conns -> {"open", "closing", "closed"}]
  BY DEF Init
<1>3. /\ BooksFit(socket, owned, active, running, starting, needs)
      /\ Within(active, starting)
  BY <1>2, NobodyFits DEF Init
<1>4. worker \in [Workers -> {"stopped", "starting", "ready", "error"}]
  BY DEF Init
<1> QED
  BY <1>1, <1>3, <1>4 DEF Init, GatewayInv, SessionInv

(* Every step preserves the invariant and is genuine.                       *)
LEMMA GatewayNext == GatewayInv /\ [Next]_vars => GatewayInv' /\ [Genuine]_vars
<1> SUFFICES ASSUME GatewayInv, [Next]_vars PROVE GatewayInv' /\ [Genuine]_vars
  OBVIOUS
<1>1. CASE WarmAtBoot
  <2>1. PICK ok \in BOOLEAN : CheckComponent(ok) /\ Start(IF ok THEN Workers ELSE {})
    BY <1>1 DEF WarmAtBoot
  <2>2. /\ StoreInv' /\ worker' \in [Workers -> {"stopped", "starting", "ready", "error"}]
    BY <2>1, CheckComponentKeeps, StartKeeps DEF GatewayInv, SessionInv
  <2>3. booting' = FALSE /\ UNCHANGED <<socket, owned, active, running, starting, needs, waiting>>
    BY <1>1 DEF WarmAtBoot
  <2> QED
    BY <2>2, <2>3 DEF GatewayInv, SessionInv, Genuine
<1>2. CASE Restart
  BY <1>2, RestartKeeps
<1>3. CASE \E c \in Conns : Connect(c) \/ Closing(c)
  BY <1>3, SocketKeeps
<1>4. CASE \E c \in Conns : StartSession(c)
  BY <1>4, StartSessionKeeps DEF Genuine
<1>5. CASE \E c \in Conns : Proceed(c)
  BY <1>5, ProceedKeeps
<1>6. CASE \E c \in Conns : WarmUpTimesOut(c)
  BY <1>6, LeavingKeeps DEF WarmUpTimesOut, GatewayInv, SessionInv
<1>7. CASE \E c \in Conns : StopSession(c)
  BY <1>7, StopSessionKeeps
<1>8. CASE \E c \in Conns : Close(c)
  BY <1>8, CloseKeeps
<1>9. CASE \E c \in Conns, w \in Workers : Request(c, w)
  <2>1. worker' \in [Workers -> {"stopped", "starting", "ready", "error"}]
    BY <1>9, StartKeeps DEF Request, GatewayInv, SessionInv
  <2>2. UNCHANGED <<sessionVars, storeVars>>
    BY <1>9 DEF Request
  <2> QED
    BY <2>1, <2>2 DEF sessionVars, storeVars, disk, GatewayInv, StoreInv, SessionInv, Genuine
<1>10. CASE \E w \in Workers : WorkerReady(w)
  BY <1>10, WorkerReadyKeeps
<1>11. CASE \E w \in Workers : WorkerFails(w)
  <2>1. PICK w \in Workers : WorkerFails(w)
    BY <1>11
  <2>2. {c \in InStart : w \in needs[c]} \in SUBSET Conns
    BY DEF InStart
  <2>3. worker' \in [Workers -> {"stopped", "starting", "ready", "error"}]
    BY <2>1 DEF WorkerFails, GatewayInv, SessionInv
  <2> QED
    BY <2>1, <2>2, <2>3, LeavingKeeps DEF WorkerFails
<1>12. CASE StoreStep /\ UNCHANGED <<sessionVars, worker>>
  BY <1>12, StoreStepKeeps DEF sessionVars, GatewayInv, SessionInv, Genuine
<1>13. CASE UNCHANGED vars
  BY <1>13 DEF vars, sessionVars, storeVars, disk, GatewayInv, StoreInv, SessionInv
<1> QED
  BY <1>1, <1>2, <1>3, <1>4, <1>5, <1>6, <1>7, <1>8, <1>9, <1>10, <1>11, <1>12, <1>13
  DEF Next, GatewayStep

LEMMA GatewayAlways == Spec => []GatewayInv
BY GatewayInit, GatewayNext, PTL DEF Spec

(* Whatever closes, fails or stops in whatever order, the sessions keep     *)
(* within maxConcurrentSessions, each belongs to a connection that is there, *)
(* and exactly their pipelines run.                                         *)
THEOREM EverySessionOwned == Spec => []SessionsOwned
<1>1. GatewayInv => SessionsOwned
  <2> SUFFICES ASSUME GatewayInv PROVE SessionsOwned
    OBVIOUS
  <2> USE DEF GatewayInv
  <2>1. TypeOK
    BY DEF SessionInv, BooksFit, TypeOK
  <2>2. HashesTellTruth
    <3>1. ASSUME NEW S, AtMostOne(S) PROVE Cardinality(S) <= 1
      <4>1. S = {} => Cardinality(S) = 0
        BY FS_EmptySet
      <4>2. \A e : S = {e} => Cardinality(S) = 1
        BY FS_Singleton
      <4> QED
        BY <3>1, <4>1, <4>2 DEF AtMostOne
    <3> QED
      BY <3>1 DEF StoreInv, HashesTellTruth, StoreTypeOK
  <2>3. Cardinality(Held) <= MaxSessions
    <3>1. Held = Named(active) \union Named(starting)
      BY DEF Held, Named
    <3>2. Named(active) \cap Named(starting) = {}
      BY DEF SessionInv, BooksFit, Named
    <3>3. Cardinality(Held) = Cardinality(Named(active)) + Cardinality(Named(starting)) - 0
      BY <3>1, <3>2, FS_Union, FS_EmptySet DEF SessionInv, Within
    <3>4. Cardinality(Named(active)) \in Nat /\ Cardinality(Named(starting)) \in Nat
      BY FS_CardinalityType DEF SessionInv, Within
    <3> QED
      BY <3>3, <3>4 DEF SessionInv, Within
  <2>4. ASSUME NEW s \in SessionIds
        PROVE  /\ active[s] # None => socket[active[s]] # "closed" /\ active[s] \in owned
               /\ starting[s] # None => socket[starting[s]] # "closed" /\ starting[s] \in InStart
               /\ active[s] = None \/ starting[s] = None
    BY DEF SessionInv, BooksFit, Named, InStart
  <2> QED
    BY <2>1, <2>2, <2>3, <2>4 DEF SessionsOwned, SessionInv, BooksFit
<1> QED
  BY <1>1, GatewayAlways, PTL

(* SESSION_READY is said only while the file of the model is the pinned one, *)
(* whatever was cached about it in this process or an earlier one.          *)
THEOREM OnlyGenuineReady == Spec => ReadyIsGenuine
BY GatewayAlways, GatewayNext, PTL DEF Spec, ReadyIsGenuine, Genuine
-----------------------------------------------------------------------------
(* ScriptDubbing, the loop of the pipeline: what is worked on is of the     *)
(* generation accepted last, and that is not ahead of the pipeline's.       *)
LoopFits(q, acc, ag, j, sg) ==
  /\ ag <= sg /\ (j # NoJob => j.generation <= ag)
  /\ q # <<>> => j # NoJob /\ ag = sg
  /\ IsInjective(q) /\ ToSet(q) \subseteq acc
  /\ j # NoJob /\ j.generation = sg => j.segment \in acc /\ j.segment \notin ToSet(q)

(* The page: the voices follow each other up to lastVoiceEnd, none is left  *)
(* in a pause, and none runs ahead of its sentence.                         *)
InTurn(pg) ==
  \A i, j \in DOMAIN pg.playing : i < j => pg.playing[i].upto <= pg.playing[j].from

EndsBy(pg) == \A i \in DOMAIN pg.playing : pg.playing[i].upto <= pg.lastVoiceEnd

NotAhead(pg) ==
  ~pg.seeking /\ pg.at < Finish =>
    \A i \in DOMAIN pg.playing : pg.playing[i].from > 0 =>
      pg.at + pg.playing[i].from >= StartOf(pg.playing[i].segment) + pg.playing[i].skipped

InPlace(pg) ==
  /\ InTurn(pg) /\ EndsBy(pg) /\ NotAhead(pg)
  /\ pg.paused => pg.playing = <<>>

(* The requests in the socket are of the generation the pipeline will have  *)
(* when it reads them: c[i] is its generation behind message i.             *)
CountsTo(c, out, sg, g) ==
  /\ c[0] = sg /\ c[Len(out)] = g
  /\ \A i, j \in 0..Len(out) : i <= j => c[i] <= c[j]
  /\ \A i \in 1..Len(out) :
       /\ c[i] = IF out[i].kind = "seek" THEN c[i - 1] + 1 ELSE c[i - 1]
       /\ out[i].kind = "segments" => out[i].generation = c[i - 1]

Counted(out, sg, g) == \E c \in [0..Len(out) -> 0..g] : CountsTo(c, out, sg, g)

(* Message m asks for sentence s in generation g.                           *)
AsksFor(m, g, s) == m.kind = "segments" /\ m.generation = g /\ s \in ToSet(m.segments)

(* In one generation a sentence is asked for once.                          *)
AskedOnce(out, g, snt, acc, ag) ==
  /\ ag = g => acc \subseteq snt
  /\ \A s \in Segments, i \in DOMAIN out : AsksFor(out[i], g, s) =>
       /\ s \in snt /\ (ag = g => s \notin acc)
       /\ \A j \in DOMAIN out : AsksFor(out[j], g, s) => j = i

AnswerTo(m, g, s) == m.kind = "answer" /\ m.generation = g /\ m.segment = s

Answered(back, g, snt, sg) ==
  \A i \in DOMAIN back : back[i].kind = "answer" =>
    back[i].generation <= sg /\ (back[i].generation = g => back[i].segment \in snt)

NoMode(out, i) == \A j \in DOMAIN out : j > i => out[j].kind # "mode"

(* The pipeline will have the mode of the page when it has read everything. *)
ModeFollows(out, m, sm) ==
  /\ NoMode(out, 0) => sm = m
  /\ \A i \in DOMAIN out : out[i].kind = "mode" /\ NoMode(out, i) => out[i].mode = m

WorkedOn(s, g, q, ag, j) ==
  \/ s \in ToSet(q) /\ ag = g
  \/ j # NoJob /\ j.segment = s /\ j.generation = g

(* What is not excused was asked for in the mode the page is in.            *)
AskedInMode(s, out, g, q, ag, j, back, m) ==
  /\ \A i \in DOMAIN out : AsksFor(out[i], g, s) => NoMode(out, i)
  /\ WorkedOn(s, g, q, ag, j) => NoMode(out, 0)
  /\ \A i \in DOMAIN back : AnswerTo(back[i], g, s) /\ ~back[i].voice => m = "subtitle_only"

(* Asked for, worked on, answered or being decoded.                         *)
Coming(s, out, g, q, ag, j, back, dec) ==
  \/ \E i \in DOMAIN out : AsksFor(out[i], g, s)
  \/ WorkedOn(s, g, q, ag, j)
  \/ \E i \in DOMAIN back : AnswerTo(back[i], g, s)
  \/ s \in dec

Remembered(pg, q, acc, ag, j, sg, sm, back, dec) ==
  /\ pg.sent \subseteq pg.known /\ dec \subseteq pg.texts
  /\ Counted(pg.toServer, sg, pg.generation)
  /\ AskedOnce(pg.toServer, pg.generation, pg.sent, acc, ag)
  /\ Answered(back, pg.generation, pg.sent, sg)
  /\ ModeFollows(pg.toServer, pg.mode, sm)
  /\ \A s \in pg.sent \ pg.excused :
       /\ AskedInMode(s, pg.toServer, pg.generation, q, ag, j, back, pg.mode)
       /\ IsComplete(pg, s) \/ Coming(s, pg.toServer, pg.generation, q, ag, j, back, dec)

LEMMA LeastIs ==
  ASSUME NEW S, S \subseteq Nat, S # {}
  PROVE  \E k \in S : \A m \in S : k <= m
<1>1. PICK k \in S : \A m \in S : ~(<<m, k>> \in OpToRel(<, Nat))
  BY ONLY S \subseteq Nat, S # {}, NatLessThanWellFounded, WFMin
<1>2. \A m \in S : ~(m < k)
  BY <1>1 DEF OpToRel
<1> QED BY <1>2

(* Induction up to n, for a set.                                            *)
LEMMA CountUp ==
  ASSUME NEW n \in Nat, NEW S, 0 \in S, \A k \in 0..n : k < n /\ k \in S => k + 1 \in S
  PROVE  \A k \in 0..n : k \in S
<1> DEFINE T == {k \in 0..n : k \notin S}
<1> SUFFICES ASSUME T # {} PROVE FALSE
  OBVIOUS
<1>1. PICK k \in T : \A m \in T : k <= m
  <2>1. T \subseteq Nat
    OBVIOUS
  <2> HIDE DEF T
  <2> QED BY <2>1, LeastIs
<1>2. k # 0 /\ k - 1 \in 0..n /\ k - 1 < n /\ (k - 1) + 1 = k
  BY <1>1
<1>3. k - 1 \in S
  BY <1>1, <1>2
<1> QED BY <1>1, <1>2, <1>3

(* A loop of n turns, the k-th of which takes x to step[<<x, k>>].          *)
Loops(f, a, n, step) == f[0] = a /\ \A k \in 1..n : f[k] = step[<<f[k - 1], k>>]

LEMMA LoopRuns ==
  ASSUME NEW n \in Nat, NEW S, NEW a \in S,
         NEW step, \A x \in S, k \in 1..n : step[<<x, k>>] \in S
  PROVE  \E f \in [0..n -> S] : Loops(f, a, n, step)
<1> DEFINE Runs(f, k) == Loops(f, a, k, step)
           T == {k \in 0..n : \E f \in [0..k -> S] : Runs(f, k)}
<1>1. 0 \in T
  <2> DEFINE f == [i \in 0..0 |-> a]
  <2>1. f \in [0..0 -> S] /\ Runs(f, 0)
    BY DEF Loops
  <2> HIDE DEF f, Runs
  <2> QED BY <2>1
<1>2. ASSUME NEW k \in 0..n, k < n, k \in T PROVE k + 1 \in T
  <2>1. PICK f \in [0..k -> S] : Runs(f, k)
    BY <1>2
  <2>2. step[<<f[k], k + 1>>] \in S
    BY <1>2, <2>1
  <2> DEFINE g == [i \in 0..(k + 1) |-> IF i <= k THEN f[i] ELSE step[<<f[k], k + 1>>]]
  <2>3. g \in [0..(k + 1) -> S]
    BY <1>2, <2>1, <2>2
  <2>4. g[0] = a
    BY <1>2, <2>1 DEF Loops
  <2>5. ASSUME NEW i \in 1..(k + 1) PROVE g[i] = step[<<g[i - 1], i>>]
    <3>1. CASE i <= k
      BY <3>1, <2>1 DEF Loops
    <3>2. CASE i = k + 1
      <4>1. i - 1 = k /\ g[i - 1] = f[k]
        BY <1>2, <2>1, <3>2
      <4>2. g[i] = step[<<f[k], i>>]
        BY <1>2, <3>2
      <4> HIDE DEF g
      <4> QED BY <4>1, <4>2
    <3> QED BY <3>1, <3>2
  <2>6. Runs(g, k + 1)
    BY <2>4, <2>5 DEF Loops
  <2> HIDE DEF g, Runs
  <2> QED BY <1>2, <2>3, <2>6
<1>3. n \in T
  <2> HIDE DEF T
  <2> QED BY <1>1, <1>2, CountUp
<1> QED BY <1>3


(* What every turn of the loop of the player keeps, the loop keeps.         *)
LEMMA PlayAllKeeps ==
  ASSUME NEW P, NEW pg \in P, \A x \in P, s \in Segments : Play(x, s) \in P
  PROVE  PlayAll(pg) \in P
<1> DEFINE step == [x \in P \X (1..Sentences) |-> Play(x[1], x[2])]
           Played(g) == [s \in 0..Sentences |-> IF s = 0 THEN pg ELSE Play(g[s - 1], s)]
           h == CHOOSE g : g = Played(g)
<1>1. Segments = 1..Sentences /\ Sentences \in Nat
  BY ScriptAssumption DEF Segments
<1>2. \A x \in P, k \in 1..Sentences : step[<<x, k>>] \in P
  BY <1>1
<1>3. PICK f \in [0..Sentences -> P] : Loops(f, pg, Sentences, step)
  <2> HIDE DEF step
  <2>2. Sentences \in Nat /\ pg \in P
    BY <1>1
  <2> QED BY ONLY <1>2, <2>2, LoopRuns
<1>4. ASSUME NEW s \in 1..Sentences PROVE f[s] = Play(f[s - 1], s)
  <2>1. f[s - 1] \in P
    BY <1>1, <1>3
  <2> QED BY <1>1, <1>3, <2>1 DEF Loops
<1>5. f = Played(f)
  BY <1>1, <1>3, <1>4 DEF Loops
<1>6. h = Played(h)
  <2> HIDE DEF Played
  <2> QED BY <1>5
<1>7. PlayAll(pg) = h[Sentences]
  BY DEF PlayAll
<1> HIDE DEF h
<1> DEFINE T == {k \in 0..Sentences : h[k] \in P}
<1>8. \A k \in 0..Sentences : k \in T
  <2>1. 0 \in T
    BY <1>1, <1>6
  <2>2. ASSUME NEW i \in 0..Sentences, i < Sentences, i \in T PROVE i + 1 \in T
    <3>1. h[i + 1] = Play(h[i], i + 1) /\ i + 1 \in Segments
      BY <1>1, <1>6, <2>2
    <3> QED BY <1>1, <2>2, <3>1
  <2> HIDE DEF T
  <2> QED BY <1>1, <2>1, <2>2, CountUp
<1> QED BY <1>1, <1>7, <1>8

(* The same for the loop of sendUpcoming: P says of a batch what it may be  *)
(* after each sentence.                                                     *)
LEMMA UpcomingKeeps ==
  ASSUME NEW pg, NEW P, <<>> \in P,
         \A q \in P, s \in Segments : IsUpcoming(pg, s) => Append(q, s) \in P
  PROVE  Upcoming(pg) \in P
<1> DEFINE Turn(q, s) == IF IsUpcoming(pg, s) /\ Len(q) < SendBatch THEN Append(q, s) ELSE q
           step == [x \in P \X (1..Sentences) |-> Turn(x[1], x[2])]
           Batch(g) == [s \in 0..Sentences |-> IF s = 0 THEN <<>> ELSE Turn(g[s - 1], s)]
           h == CHOOSE g : g = Batch(g)
<1>1. Segments = 1..Sentences /\ Sentences \in Nat
  BY ScriptAssumption DEF Segments
<1>2. \A q \in P, s \in 1..Sentences : Turn(q, s) \in P
  BY <1>1
<1>3. Upcoming(pg) = h[Sentences]
  BY DEF Upcoming
<1> HIDE DEF Turn
<1>4. \A x \in P, k \in 1..Sentences : step[<<x, k>>] \in P
  BY <1>2
<1>5. PICK f \in [0..Sentences -> P] : Loops(f, <<>>, Sentences, step)
  <2> HIDE DEF step
  <2> QED BY ONLY <1>1, <1>4, <<>> \in P, LoopRuns
<1>6. ASSUME NEW s \in 1..Sentences PROVE f[s] = Turn(f[s - 1], s)
  <2>1. f[s - 1] \in P
    BY <1>1, <1>5
  <2> QED BY <1>1, <1>5, <2>1 DEF Loops
<1>7. f = Batch(f)
  BY <1>1, <1>5, <1>6 DEF Loops
<1>8. h = Batch(h)
  <2> HIDE DEF Batch
  <2> QED BY <1>7
<1> HIDE DEF h
<1> DEFINE T == {k \in 0..Sentences : h[k] \in P}
<1>9. \A k \in 0..Sentences : k \in T
  <2>1. 0 \in T
    BY <1>1, <1>8
  <2>2. ASSUME NEW i \in 0..Sentences, i < Sentences, i \in T PROVE i + 1 \in T
    <3>1. h[i + 1] = Turn(h[i], i + 1)
      BY <1>1, <1>8, <2>2
    <3> QED BY <1>1, <1>2, <2>2, <3>1
  <2> HIDE DEF T
  <2> QED BY <1>1, <2>1, <2>2, CountUp
<1> QED BY <1>1, <1>3, <1>9

(* The same for the loop of enqueue.                                        *)
LEMMA EnqueuedKeeps ==
  ASSUME NEW old, NEW earlier, NEW segments \in Seq(Segments), NEW P,
         [queue |-> old, accepted |-> earlier] \in P,
         \A e \in P, s \in ToSet(segments) : s \notin e.accepted =>
           [queue |-> Append(e.queue, s), accepted |-> e.accepted \union {s}] \in P
  PROVE  Enqueued(old, earlier, segments) \in P
<1> DEFINE n == Len(segments)
           Turn(e, s) == IF s \in e.accepted \/ Len(e.queue) >= MaxQueued THEN e
                         ELSE [queue |-> Append(e.queue, s),
                               accepted |-> e.accepted \union {s}]
           first == [queue |-> old, accepted |-> earlier]
           step == [x \in P \X (1..n) |-> Turn(x[1], segments[x[2]])]
           Taken(g) == [k \in 0..n |-> IF k = 0 THEN first ELSE Turn(g[k - 1], segments[k])]
           h == CHOOSE g : g = Taken(g)
<1>1. n \in Nat /\ first \in P
  OBVIOUS
<1>2. ASSUME NEW k \in 1..n, NEW e \in P PROVE Turn(e, segments[k]) \in P
  <2>1. segments[k] \in ToSet(segments)
    BY DEF ToSet
  <2>2. CASE segments[k] \in e.accepted \/ Len(e.queue) >= MaxQueued
    BY <2>2
  <2>3. CASE ~(segments[k] \in e.accepted \/ Len(e.queue) >= MaxQueued)
    BY <2>1, <2>3
  <2> QED BY <2>2, <2>3
<1>3. Enqueued(old, earlier, segments) = h[n]
  BY DEF Enqueued
<1> HIDE DEF Turn, first, n
<1>4. \A x \in P, k \in 1..n : step[<<x, k>>] \in P
  BY <1>2
<1>5. PICK f \in [0..n -> P] : Loops(f, first, n, step)
  <2> HIDE DEF step
  <2> QED BY ONLY <1>1, <1>4, LoopRuns
<1>6. ASSUME NEW k \in 1..n PROVE f[k] = Turn(f[k - 1], segments[k])
  <2>1. f[k - 1] \in P
    BY <1>1, <1>5
  <2> QED BY <1>1, <1>5, <2>1 DEF Loops
<1>7. f = Taken(f)
  BY <1>1, <1>5, <1>6 DEF Loops
<1>8. h = Taken(h)
  <2> HIDE DEF Taken
  <2> QED BY <1>7
<1> HIDE DEF h
<1> DEFINE T == {k \in 0..n : h[k] \in P}
<1>9. \A k \in 0..n : k \in T
  <2>1. 0 \in T
    BY <1>1, <1>8
  <2>2. ASSUME NEW i \in 0..n, i < n, i \in T PROVE i + 1 \in T
    <3>1. h[i + 1] = Turn(h[i], segments[i + 1]) /\ i + 1 \in 1..n /\ i + 1 \in 0..n
      BY <1>1, <1>8, <2>2
    <3>2. h[i] \in P
      BY <2>2
    <3> HIDE DEF T
    <3>3. Turn(h[i], segments[i + 1]) \in P
      BY <1>2, <3>1, <3>2
    <3>4. h[i + 1] \in P
      BY <3>1, <3>3
    <3> QED BY <3>1, <3>4 DEF T
  <2> HIDE DEF T
  <2> QED BY <1>1, <2>1, <2>2, CountUp
<1> QED BY <1>1, <1>3, <1>9
-----------------------------------------------------------------------------
(* ScriptDubbing: times, and the pages the player may leave.                *)

LEMMA Times ==
  /\ Slot \in Nat /\ Slot >= 1 /\ Sentences \in Nat /\ Sentences >= 1 /\ Finish \in Nat
  /\ \A s \in Segments : /\ s \in Nat /\ StartOf(s) \in Nat /\ EndOf(s) \in Nat
                         /\ StartOf(s) + 1 <= Finish /\ EndOf(s) = StartOf(s) + Slot
<1>1. /\ Slot \in Nat /\ Slot >= 1 /\ Sentences \in Nat /\ Sentences >= 1
  BY ScriptAssumption
<1>2. \A a, b \in Nat : a * b \in Nat
  OBVIOUS
<1>3. Finish \in Nat
  BY <1>1, <1>2 DEF Finish
<1>4. ASSUME NEW s \in Segments
      PROVE  /\ s \in Nat /\ StartOf(s) \in Nat /\ EndOf(s) \in Nat
             /\ StartOf(s) + 1 <= Finish /\ EndOf(s) = StartOf(s) + Slot
  <2>1. s \in Nat /\ s - 1 \in Nat /\ Sentences - s \in Nat
    BY <1>1 DEF Segments
  <2>2. (s - 1) * Slot \in Nat /\ (Sentences - s) * Slot \in Nat
    BY <1>1, <1>2, <2>1
  <2>3. s * Slot = (s - 1) * Slot + Slot
    BY <1>1, <2>1
  <2>4. Sentences * Slot = (s - 1) * Slot + Slot + (Sentences - s) * Slot
    BY <1>1, <2>1
  <2> QED BY <1>1, <2>1, <2>2, <2>3, <2>4 DEF StartOf, EndOf, Finish
<1> QED BY <1>1, <1>3, <1>4

Sources == [segment : Segments, from : Nat, upto : Nat, skipped : Nat]
ScriptVoices == [segment : Segments, left : Nat]

Pages ==
  [at : 0..Finish, paused : BOOLEAN, seeking : BOOLEAN, generation : Nat, mode : Modes,
   known : SUBSET Segments, sent : SUBSET Segments, texts : SUBSET Segments,
   audio : [Segments -> 0..MaxLength], handled : SUBSET Segments,
   interrupted : SUBSET Segments, voices : Seq(ScriptVoices), lastVoiceEnd : Nat,
   playing : Seq(Sources), timers : SUBSET ScriptVoices, toServer : Seq(Requests),
   excused : SUBSET Segments]

(* What playing a sentence leaves alone, and what only voices change.       *)
KeepsRest(pg, x) ==
  /\ x.at = pg.at /\ x.paused = pg.paused /\ x.seeking = pg.seeking
  /\ x.generation = pg.generation /\ x.mode = pg.mode /\ x.known = pg.known
  /\ x.sent = pg.sent /\ x.texts = pg.texts /\ x.audio = pg.audio
  /\ x.toServer = pg.toServer /\ x.excused = pg.excused

KeepsVoices(pg, x) ==
  x.playing = pg.playing /\ x.voices = pg.voices /\ x.lastVoiceEnd = pg.lastVoiceEnd

LEMMA GivesUp ==
  ASSUME NEW pg \in Pages, NEW s \in Segments
  PROVE  LET x == GiveUp(pg, s) IN x \in Pages /\ KeepsRest(pg, x) /\ KeepsVoices(pg, x)
BY DEF Pages, GiveUp, KeepsRest, KeepsVoices

LEMMA ShowsLater ==
  ASSUME NEW pg \in Pages, NEW s \in Segments, NEW delay \in Nat
  PROVE  LET x == ShowSubtitleLater(pg, s, delay)
         IN x \in Pages /\ KeepsRest(pg, x) /\ KeepsVoices(pg, x)
<1>1. [segment |-> s, left |-> delay] \in ScriptVoices
  BY DEF ScriptVoices
<1> QED BY <1>1 DEF Pages, ShowSubtitleLater, KeepsRest, KeepsVoices

LEMMA VoiceAdded ==
  ASSUME NEW pg \in Pages, InPlace(pg), ~pg.paused, NEW x \in Pages, NEW v \in Sources,
         x.playing = Append(pg.playing, v), x.lastVoiceEnd = v.upto,
         x.at = pg.at, x.paused = pg.paused, x.seeking = pg.seeking,
         pg.lastVoiceEnd <= v.from, v.from <= v.upto,
         v.from > 0 => pg.at + v.from >= StartOf(v.segment) + v.skipped
  PROVE  InPlace(x)
<1> DEFINE n == Len(pg.playing)
<1>1. /\ pg.playing \in Seq(Sources) /\ n \in Nat /\ pg.lastVoiceEnd \in Nat
      /\ v.upto \in Nat /\ v.from \in Nat
  BY DEF Pages, Sources
<1>2. /\ Len(x.playing) = n + 1 /\ x.playing[n + 1] = v
      /\ \A i \in 1..n : x.playing[i] = pg.playing[i] /\ pg.playing[i] \in Sources
  BY <1>1
<1>3. DOMAIN x.playing = 1..(n + 1) /\ DOMAIN pg.playing = 1..n
  BY <1>1, <1>2 DEF Pages
<1>4. \A i \in 1..n : pg.playing[i].upto \in Nat /\ pg.playing[i].upto <= pg.lastVoiceEnd
  BY <1>2, <1>3 DEF InPlace, EndsBy, Sources
<1> HIDE DEF n
<1>5. \A i \in 1..n : pg.playing[i].upto <= v.from
  <2> SUFFICES ASSUME NEW i \in 1..n PROVE pg.playing[i].upto <= v.from
    OBVIOUS
  <2> DEFINE u == pg.playing[i].upto
  <2>1. u \in Nat /\ u <= pg.lastVoiceEnd
    BY <1>4
  <2> HIDE DEF u
  <2>2. u <= v.from
    BY <1>1, <2>1
  <2> QED BY <2>2 DEF u
<1>6. InTurn(x)
  <2> SUFFICES ASSUME NEW i \in 1..(n + 1), NEW j \in 1..(n + 1), i < j
               PROVE  x.playing[i].upto <= x.playing[j].from
    BY <1>3 DEF InTurn
  <2>1. i \in 1..n
    BY <1>1
  <2>2. CASE j \in 1..n
    BY <1>2, <1>3, <2>1, <2>2 DEF InPlace, InTurn
  <2>3. CASE j = n + 1
    <3>1. x.playing[j] = v
      BY <1>2, <2>3
    <3>2. x.playing[i].upto <= v.from
      BY <1>2, <1>5, <2>1
    <3>3. x.playing[j].from = v.from
      BY <3>1
    <3> QED BY <3>2, <3>3
  <2>4. j \in 1..n \/ j = n + 1
    BY <1>1
  <2> QED BY <2>2, <2>3, <2>4
<1>7. EndsBy(x)
  <2> SUFFICES ASSUME NEW i \in 1..(n + 1) PROVE x.playing[i].upto <= v.upto
    BY <1>3 DEF EndsBy
  <2>1. CASE i \in 1..n
    BY <1>1, <1>2, <1>4, <2>1
  <2>2. CASE i = n + 1
    <3>1. x.playing[i] = v
      BY <1>2, <2>2
    <3> QED BY <1>1, <3>1
  <2>3. i \in 1..n \/ i = n + 1
    BY <1>1
  <2> QED BY <2>1, <2>2, <2>3
<1>8. NotAhead(x)
  <2> SUFFICES ASSUME ~pg.seeking, pg.at < Finish, NEW i \in 1..(n + 1), x.playing[i].from > 0
               PROVE  x.at + x.playing[i].from >=
                        StartOf(x.playing[i].segment) + x.playing[i].skipped
    BY <1>3 DEF NotAhead
  <2>1. CASE i \in 1..n
    BY <1>2, <1>3, <2>1 DEF InPlace, NotAhead
  <2>2. CASE i = n + 1
    <3>1. x.playing[i] = v
      BY <1>2, <2>2
    <3> QED BY <3>1
  <2>3. i \in 1..n \/ i = n + 1
    BY <1>1
  <2> QED BY <2>1, <2>2, <2>3
<1> QED BY <1>6, <1>7, <1>8 DEF InPlace

LEMMA SameVoices ==
  ASSUME NEW pg \in Pages, InPlace(pg), NEW x \in Pages, KeepsRest(pg, x), KeepsVoices(pg, x)
  PROVE  InPlace(x)
BY DEF KeepsRest, KeepsVoices, InPlace, InTurn, EndsBy, NotAhead

LEMMA KeepsRestTwice ==
  ASSUME NEW x, NEW y, NEW z, KeepsRest(x, y), KeepsRest(y, z)
  PROVE  KeepsRest(x, z)
BY DEF KeepsRest

LEMMA PlaysVoice ==
  ASSUME NEW pg \in Pages, InPlace(pg), ~pg.paused, NEW s \in Segments,
         NEW late \in Nat, NEW wait \in Nat, pg.lastVoiceEnd <= wait,
         late > 0 => pg.at = StartOf(s) + late, late = 0 => pg.at + wait >= StartOf(s)
  PROVE  LET x == VoiceAt(pg, s, late, wait)
         IN x \in Pages /\ KeepsRest(pg, x) /\ InPlace(x)
<1> DEFINE length == pg.audio[s]
           fits == length <= Minus(Slot, late)
           offset == IF s \in pg.interrupted \/ ~fits THEN late ELSE 0
           taken == [GiveUp(pg, s) EXCEPT !.interrupted = @ \ {s}]
           upto == wait + length - offset
           v == [segment |-> s, from |-> wait, upto |-> upto, skipped |-> offset]
           added == [taken EXCEPT !.playing = Append(@, v),
                                  !.voices = Append(@, [segment |-> s, left |-> upto]),
                                  !.lastVoiceEnd = upto]
<1>1. VoiceAt(pg, s, late, wait) =
        IF offset >= length THEN taken ELSE ShowSubtitleLater(added, s, wait)
  BY DEF VoiceAt
<1>2. length \in Nat /\ offset \in Nat /\ (offset = 0 \/ offset = late)
  BY ScriptAssumption DEF Pages
<1>3. taken \in Pages /\ KeepsRest(pg, taken) /\ KeepsVoices(pg, taken)
  <2> DEFINE y == GiveUp(pg, s)
  <2>1. y \in Pages /\ KeepsRest(pg, y) /\ KeepsVoices(pg, y)
    BY GivesUp
  <2> HIDE DEF y
  <2>2. taken = [y EXCEPT !.interrupted = @ \ {s}]
    BY DEF y
  <2>3. taken \in Pages
    BY <2>1, <2>2, ZenonT(30) DEF Pages
  <2>4. KeepsRest(y, taken) /\ KeepsVoices(y, taken)
    BY <2>1, <2>2 DEF Pages, KeepsRest, KeepsVoices
  <2> QED BY <2>1, <2>3, <2>4 DEF KeepsRest, KeepsVoices
<1>4. StartOf(s) \in Nat /\ pg.at \in Nat /\ pg.playing \in Seq(Sources)
      /\ pg.voices \in Seq(ScriptVoices) /\ pg.lastVoiceEnd \in Nat
  BY Times DEF Pages
<1> HIDE DEF length, offset, taken
<1>5. ASSUME offset < length
      PROVE  LET x == ShowSubtitleLater(added, s, wait)
             IN x \in Pages /\ KeepsRest(pg, x) /\ InPlace(x)
  <2>1. upto \in Nat /\ wait <= upto
    BY <1>2, <1>5
  <2> HIDE DEF upto
  <2>2. v \in Sources /\ [segment |-> s, left |-> upto] \in ScriptVoices
    BY <1>2, <2>1 DEF Sources, ScriptVoices
  <2>3. v.segment = s /\ v.from = wait /\ v.upto = upto /\ v.skipped = offset
    OBVIOUS
  <2>4. taken.playing = pg.playing /\ taken.voices = pg.voices
    BY <1>3 DEF KeepsVoices
  <2> HIDE DEF v
  <2>5. /\ Append(pg.playing, v) \in Seq(Sources)
        /\ Append(pg.voices, [segment |-> s, left |-> upto]) \in Seq(ScriptVoices)
    BY <1>4, <2>2
  <2>6. /\ added \in Pages /\ added.playing = Append(pg.playing, v)
        /\ added.lastVoiceEnd = upto /\ KeepsRest(taken, added)
    BY <1>3, <2>1, <2>4, <2>5 DEF Pages, KeepsRest
  <2> HIDE DEF added
  <2>7. KeepsRest(pg, added)
    BY <1>3, <2>6, KeepsRestTwice
  <2>8. wait > 0 => pg.at + wait >= StartOf(s) + offset
    BY <1>2, <1>4
  <2>9. added.at = pg.at /\ added.paused = pg.paused /\ added.seeking = pg.seeking
    BY <2>7 DEF KeepsRest
  <2>10. InPlace(added)
    BY <2>1, <2>2, <2>3, <2>6, <2>8, <2>9, VoiceAdded
  <2> DEFINE x == ShowSubtitleLater(added, s, wait)
  <2>11. x \in Pages /\ KeepsRest(added, x) /\ KeepsVoices(added, x)
    BY <2>6, ShowsLater
  <2> HIDE DEF x
  <2>12. KeepsRest(pg, x) /\ InPlace(x)
    BY <2>6, <2>7, <2>10, <2>11, KeepsRestTwice, SameVoices
  <2> QED BY <2>11, <2>12 DEF x
<1>6. InPlace(taken)
  BY <1>3, SameVoices
<1> HIDE DEF added
<1> QED BY <1>1, <1>2, <1>3, <1>5, <1>6
LEMMA Plays ==
  ASSUME NEW pg \in Pages, InPlace(pg), ~pg.paused, NEW s \in Segments
  PROVE  LET x == Play(pg, s) IN x \in Pages /\ KeepsRest(pg, x) /\ InPlace(x)
<1> DEFINE late == Minus(pg.at, StartOf(s))
           delay == Minus(StartOf(s), pg.at)
           Good(x) == x \in Pages /\ KeepsRest(pg, x) /\ InPlace(x)
<1>1. /\ StartOf(s) \in Nat /\ EndOf(s) \in Nat /\ pg.at \in Nat /\ pg.lastVoiceEnd \in Nat
      /\ Slot \in Nat /\ {MaxLate, MinRemaining, Ahead} \subseteq Nat
  BY Times, ScriptAssumption DEF Pages
<1>2. late \in Nat /\ delay \in Nat
  BY <1>1 DEF Minus
<1>3. late > 0 => pg.at = StartOf(s) + late
  BY <1>1 DEF Minus
<1>4. pg.at + delay >= StartOf(s)
  BY <1>1 DEF Minus
<1> HIDE DEF late, delay
<1>5. Good(pg)
  BY DEF KeepsRest
<1>6. Good(GiveUp(pg, s))
  <2> DEFINE x == GiveUp(pg, s)
  <2>1. x \in Pages /\ KeepsRest(pg, x) /\ KeepsVoices(pg, x)
    BY GivesUp
  <2> HIDE DEF x
  <2> QED BY <2>1, SameVoices DEF x
<1>7. ASSUME NEW d \in Nat PROVE Good(ShowSubtitleLater(GiveUp(pg, s), s, d))
  <2> DEFINE y == GiveUp(pg, s)
             x == ShowSubtitleLater(y, s, d)
  <2>1. Good(y)
    BY <1>6
  <2> HIDE DEF y
  <2>2. x \in Pages /\ KeepsRest(y, x) /\ KeepsVoices(y, x)
    BY <2>1, ShowsLater
  <2> HIDE DEF x
  <2>3. KeepsRest(pg, x) /\ InPlace(x)
    BY <2>1, <2>2, SameVoices, KeepsRestTwice
  <2> QED BY <2>2, <2>3 DEF x, y
<1>8. Good(PlaySubtitle(pg, s, late, delay))
  BY <1>2, <1>5, <1>6, <1>7 DEF PlaySubtitle
<1>9. Good(PlayWithoutVoice(pg, s, late))
  BY <1>5, <1>7 DEF PlayWithoutVoice
<1>10. Good(PlayVoice(pg, s, late, delay))
  <2> DEFINE wait == Later(delay, pg.lastVoiceEnd)
  <2>1. wait \in Nat /\ pg.lastVoiceEnd <= wait /\ delay <= wait
    BY <1>1, <1>2 DEF Later
  <2>2. pg.at + wait >= StartOf(s)
    BY <1>1, <1>2, <1>4, <2>1
  <2> HIDE DEF wait
  <2>3. Good(VoiceAt(pg, s, late, wait))
    BY <1>2, <1>3, <2>1, <2>2, PlaysVoice
  <2> QED BY <2>3 DEF PlayVoice, wait
<1>11. Play(pg, s) \in {pg, GiveUp(pg, s), PlaySubtitle(pg, s, late, delay),
                        PlayWithoutVoice(pg, s, late), PlayVoice(pg, s, late, delay)}
  BY DEF Play, late, delay
<1> HIDE DEF Good
<1>12. Good(Play(pg, s))
  BY <1>5, <1>6, <1>8, <1>9, <1>10, <1>11
<1> QED BY <1>12 DEF Good

LEMMA PlaysAll ==
  ASSUME NEW pg \in Pages, InPlace(pg), ~pg.paused
  PROVE  LET x == PlayAll(pg) IN x \in Pages /\ KeepsRest(pg, x) /\ InPlace(x)
<1> DEFINE P == {x \in Pages : KeepsRest(pg, x) /\ InPlace(x)}
<1>1. pg \in P
  BY DEF KeepsRest
<1>2. ASSUME NEW x \in P, NEW s \in Segments PROVE Play(x, s) \in P
  <2> DEFINE y == Play(x, s)
  <2>1. x \in Pages /\ KeepsRest(pg, x) /\ InPlace(x) /\ ~x.paused
    BY DEF KeepsRest
  <2>2. y \in Pages /\ KeepsRest(x, y) /\ InPlace(y)
    BY <2>1, Plays
  <2> HIDE DEF y
  <2>3. KeepsRest(pg, y)
    BY <2>1, <2>2, KeepsRestTwice
  <2> QED BY <2>2, <2>3 DEF y
<1> HIDE DEF P
<1>3. PlayAll(pg) \in P
  BY <1>1, <1>2, PlayAllKeeps
<1> QED BY <1>3 DEF P

-----------------------------------------------------------------------------
(* ScriptDubbing: a message more in a socket, and one less.                 *)
Longer(q, r, m) ==
  /\ Len(q) \in Nat /\ Len(r) = Len(q) + 1
  /\ DOMAIN q = 1..Len(q) /\ DOMAIN r = 1..(Len(q) + 1)
  /\ r[Len(q) + 1] = m /\ \A i \in 1..Len(q) : r[i] = q[i]
  /\ \A i \in DOMAIN r : i \in 1..Len(q) \/ i = Len(q) + 1

Shorter(q, r) ==
  /\ Len(q) \in Nat /\ Len(q) >= 1 /\ Len(r) = Len(q) - 1
  /\ DOMAIN q = 1..Len(q) /\ DOMAIN r = 1..(Len(q) - 1)
  /\ \A i \in DOMAIN r : i + 1 \in DOMAIN q /\ r[i] = q[i + 1]
  /\ \A i \in DOMAIN q : i = 1 \/ (i - 1 \in DOMAIN r /\ r[i - 1] = q[i])

LEMMA Lengthens ==
  ASSUME NEW S, NEW q \in Seq(S), NEW m \in S
  PROVE  Longer(q, Append(q, m), m) /\ Append(q, m) \in Seq(S)
<1> DEFINE n == Len(q)
           r == Append(q, m)
<1>1. n \in Nat /\ DOMAIN q = 1..n
  OBVIOUS
<1>2. /\ r \in Seq(S) /\ Len(r) = n + 1 /\ DOMAIN r = 1..(n + 1) /\ r[n + 1] = m
      /\ \A i \in 1..n : r[i] = q[i]
  OBVIOUS
<1> HIDE DEF n, r
<1>3. \A i \in 1..(n + 1) : i \in 1..n \/ i = n + 1
  BY <1>1
<1> QED BY <1>1, <1>2, <1>3 DEF Longer, n, r

LEMMA Shortens ==
  ASSUME NEW S, NEW q \in Seq(S), q # <<>>
  PROVE  Shorter(q, Tail(q)) /\ Tail(q) \in Seq(S) /\ Head(q) = q[1] /\ Head(q) \in S
<1> DEFINE n == Len(q)
           r == Tail(q)
<1>1. n \in Nat /\ DOMAIN q = 1..n /\ n >= 1
  OBVIOUS
<1>2. /\ r \in Seq(S) /\ Len(r) = n - 1 /\ DOMAIN r = 1..(n - 1)
      /\ \A i \in 1..(n - 1) : r[i] = q[i + 1]
      /\ Head(q) = q[1] /\ Head(q) \in S
  OBVIOUS
<1> HIDE DEF n, r
<1>3. \A i \in 1..(n - 1) : i + 1 \in 1..n
  BY <1>1
<1>4. \A i \in 1..n : i = 1 \/ i - 1 \in 1..(n - 1)
  BY <1>1
<1>5. \A i \in 1..n : i = 1 \/ (i - 1 \in 1..(n - 1) /\ r[i - 1] = q[i])
  <2> SUFFICES ASSUME NEW i \in 1..n, i # 1 PROVE i - 1 \in 1..(n - 1) /\ r[i - 1] = q[i]
    OBVIOUS
  <2>1. i - 1 \in 1..(n - 1) /\ (i - 1) + 1 = i
    BY <1>4
  <2> QED BY <1>2, <2>1
<1> QED BY <1>1, <1>2, <1>3, <1>5 DEF Shorter, n, r

LEMMA CountedBounds ==
  ASSUME NEW q, NEW sg \in Nat, NEW g \in Nat, Len(q) \in Nat, DOMAIN q = 1..Len(q),
         \A i \in DOMAIN q : q[i].kind = "segments" => q[i].generation \in Nat,
         Counted(q, sg, g)
  PROVE  /\ sg <= g
         /\ \A i \in DOMAIN q : q[i].kind = "segments" => q[i].generation <= g
         /\ sg = g => \A i \in DOMAIN q : q[i].kind # "seek"
<1> DEFINE n == Len(q)
<1>1. PICK c \in [0..n -> 0..g] : CountsTo(c, q, sg, g)
  BY DEF Counted
<1>2. n \in Nat /\ c[0] = sg /\ c[n] = g /\ (\A i, j \in 0..n : i <= j => c[i] <= c[j])
  BY <1>1 DEF CountsTo
<1>3. \A i \in 1..n : /\ c[i] = IF q[i].kind = "seek" THEN c[i - 1] + 1 ELSE c[i - 1]
                      /\ q[i].kind = "segments" => q[i].generation = c[i - 1]
  BY <1>1 DEF CountsTo
<1>4. \A i \in 0..n : c[i] \in Nat /\ sg <= c[i] /\ c[i] <= g
  BY <1>1, <1>2
<1> HIDE DEF n
<1>5. sg <= g
  BY <1>2, <1>4
<1>6. \A i \in 1..n : i \in 0..n /\ i - 1 \in 0..n
  BY <1>2
<1>7. ASSUME NEW i \in 1..n, q[i].kind = "segments" PROVE q[i].generation <= g
  BY <1>3, <1>4, <1>6, <1>7
<1>8. ASSUME sg = g, NEW i \in 1..n, q[i].kind = "seek" PROVE FALSE
  <2>1. c[i] = c[i - 1] + 1
    BY <1>3, <1>8
  <2>2. c[i] \in Nat /\ c[i] <= g /\ c[i - 1] \in Nat /\ sg <= c[i - 1]
    BY <1>4, <1>6
  <2> QED BY <1>8, <2>1, <2>2
<1> QED BY <1>5, <1>7, <1>8 DEF n

LEMMA CountsLonger ==
  ASSUME NEW q, NEW r, NEW m, NEW sg \in Nat, NEW g \in Nat, NEW g2 \in Nat,
         Counted(q, sg, g), Longer(q, r, m),
         g2 = IF m.kind = "seek" THEN g + 1 ELSE g,
         m.kind = "segments" => m.generation = g
  PROVE  Counted(r, sg, g2)
<1> DEFINE n == Len(q)
<1>1. PICK c \in [0..n -> 0..g] : CountsTo(c, q, sg, g)
  BY DEF Counted
<1>2. c[0] = sg /\ c[n] = g /\ (\A i, j \in 0..n : i <= j => c[i] <= c[j])
  BY <1>1 DEF CountsTo
<1>3. \A i \in 1..n : /\ c[i] = IF q[i].kind = "seek" THEN c[i - 1] + 1 ELSE c[i - 1]
                      /\ q[i].kind = "segments" => q[i].generation = c[i - 1]
  BY <1>1 DEF CountsTo
<1>4. n \in Nat /\ Len(r) = n + 1 /\ r[n + 1] = m /\ \A i \in 1..n : r[i] = q[i]
  BY DEF Longer
<1> HIDE DEF n
<1> DEFINE d == [i \in 0..(n + 1) |-> IF i = n + 1 THEN g2 ELSE c[i]]
<1>5. g <= g2 /\ (\A i \in 0..n : c[i] \in 0..g)
  BY <1>1
<1>6. /\ d \in [0..(n + 1) -> 0..g2] /\ d[n + 1] = g2 /\ d[0] = sg
      /\ \A i \in 0..n : d[i] = c[i]
  BY <1>2, <1>4, <1>5
<1>7. \A i \in 0..(n + 1) : d[i] <= g2 /\ (i \in 0..n \/ i = n + 1)
  BY <1>4, <1>6
<1>8. ASSUME NEW i \in 0..(n + 1), NEW j \in 0..(n + 1), i <= j PROVE d[i] <= d[j]
  <2>1. CASE j = n + 1
    BY <1>6, <1>7, <2>1
  <2>2. CASE j \in 0..n
    <3>1. i \in 0..n
      BY <1>4, <1>8, <2>2
    <3> QED BY <1>2, <1>6, <1>8, <2>2, <3>1
  <2> QED BY <1>7, <2>1, <2>2
<1>9. ASSUME NEW i \in 1..(n + 1)
      PROVE  /\ d[i] = IF r[i].kind = "seek" THEN d[i - 1] + 1 ELSE d[i - 1]
             /\ r[i].kind = "segments" => r[i].generation = d[i - 1]
  <2>1. CASE i = n + 1
    <3>1. i - 1 = n /\ r[i] = m /\ n \in 0..n
      BY <1>4, <2>1
    <3>2. d[i] = g2 /\ d[i - 1] = g
      BY <1>2, <1>6, <2>1, <3>1
    <3> QED BY <3>1, <3>2
  <2>2. CASE i \in 1..n
    <3>1. i \in 0..n /\ i - 1 \in 0..n
      BY <1>4, <2>2
    <3>2. d[i] = c[i] /\ d[i - 1] = c[i - 1] /\ r[i] = q[i]
      BY <1>4, <1>6, <2>2, <3>1
    <3> QED BY <1>3, <2>2, <3>2
  <2>3. i \in 1..n \/ i = n + 1
    BY <1>4
  <2> QED BY <2>1, <2>2, <2>3
<1> HIDE DEF d
<1>10. CountsTo(d, r, sg, g2)
  BY <1>4, <1>6, <1>8, <1>9 DEF CountsTo
<1> QED BY <1>4, <1>6, <1>10 DEF Counted

LEMMA CountsShorter ==
  ASSUME NEW q, NEW r, NEW sg \in Nat, NEW g \in Nat, NEW sg2 \in Nat,
         Counted(q, sg, g), Shorter(q, r),
         sg2 = IF q[1].kind = "seek" THEN sg + 1 ELSE sg
  PROVE  Counted(r, sg2, g) /\ (q[1].kind = "segments" => q[1].generation = sg)
<1> DEFINE n == Len(q)
<1>1. PICK c \in [0..n -> 0..g] : CountsTo(c, q, sg, g)
  BY DEF Counted
<1>2. c[0] = sg /\ c[n] = g /\ (\A i, j \in 0..n : i <= j => c[i] <= c[j])
  BY <1>1 DEF CountsTo
<1>3. \A i \in 1..n : /\ c[i] = IF q[i].kind = "seek" THEN c[i - 1] + 1 ELSE c[i - 1]
                      /\ q[i].kind = "segments" => q[i].generation = c[i - 1]
  BY <1>1 DEF CountsTo
<1>4. /\ n \in Nat /\ n >= 1 /\ Len(r) = n - 1
      /\ \A i \in 1..(n - 1) : r[i] = q[i + 1]
  BY DEF Shorter
<1> HIDE DEF n
<1>5. 1 \in 1..n /\ 1 - 1 = 0
  BY <1>4
<1>6. c[1] = sg2 /\ (q[1].kind = "segments" => q[1].generation = sg)
  BY <1>2, <1>3, <1>5
<1> DEFINE d == [i \in 0..(n - 1) |-> c[i + 1]]
<1>7. \A i \in 0..(n - 1) : i + 1 \in 0..n
  BY <1>4
<1>8. d \in [0..(n - 1) -> 0..g] /\ \A i \in 0..(n - 1) : d[i] = c[i + 1]
  BY <1>1, <1>7
<1>9. d[0] = sg2 /\ d[n - 1] = g
  <2>1. 0 \in 0..(n - 1) /\ n - 1 \in 0..(n - 1) /\ 0 + 1 = 1 /\ (n - 1) + 1 = n
    BY <1>4
  <2> QED BY <1>2, <1>6, <1>8, <2>1
<1>10. ASSUME NEW i \in 0..(n - 1), NEW j \in 0..(n - 1), i <= j PROVE d[i] <= d[j]
  <2>1. i + 1 <= j + 1
    BY <1>4, <1>10
  <2> QED BY <1>2, <1>7, <1>8, <2>1
<1>11. ASSUME NEW i \in 1..(n - 1)
       PROVE  /\ d[i] = IF r[i].kind = "seek" THEN d[i - 1] + 1 ELSE d[i - 1]
              /\ r[i].kind = "segments" => r[i].generation = d[i - 1]
  <2>1. i + 1 \in 1..n /\ i \in 0..(n - 1) /\ i - 1 \in 0..(n - 1) /\ (i - 1) + 1 = i
        /\ (i + 1) - 1 = i
    BY <1>4
  <2>2. d[i] = c[i + 1] /\ d[i - 1] = c[i] /\ r[i] = q[i + 1]
    BY <1>4, <1>8, <2>1
  <2> QED BY <1>3, <2>1, <2>2
<1> HIDE DEF d
<1>12. CountsTo(d, r, sg2, g)
  BY <1>4, <1>8, <1>9, <1>10, <1>11 DEF CountsTo
<1> QED BY <1>4, <1>6, <1>8, <1>12 DEF Counted

-----------------------------------------------------------------------------
(* ScriptDubbing: modes in the socket, and what the pipeline works on.      *)
LEMMA NoModeLonger ==
  ASSUME NEW q, NEW r, NEW m, Longer(q, r, m), m.kind # "mode", NEW i \in 0..Len(q)
  PROVE  NoMode(r, i) <=> NoMode(q, i)
<1>1. /\ DOMAIN q = 1..Len(q) /\ DOMAIN r = 1..(Len(q) + 1) /\ Len(q) \in Nat
      /\ r[Len(q) + 1] = m /\ \A k \in 1..Len(q) : r[k] = q[k]
  BY DEF Longer
<1>2. \A k \in 1..(Len(q) + 1) : k \in 1..Len(q) \/ k = Len(q) + 1
  BY <1>1
<1>3. 1..Len(q) \subseteq 1..(Len(q) + 1)
  BY <1>1
<1>4. ASSUME NoMode(q, i) PROVE NoMode(r, i)
  BY <1>1, <1>2, <1>4 DEF NoMode
<1>5. ASSUME NoMode(r, i) PROVE NoMode(q, i)
  BY <1>1, <1>3, <1>5 DEF NoMode
<1> QED BY <1>4, <1>5

LEMMA NoModeShorter ==
  ASSUME NEW q, NEW r, Shorter(q, r)
  PROVE  /\ \A i \in 0..Len(r) : NoMode(r, i) <=> NoMode(q, i + 1)
         /\ q[1].kind # "mode" => (NoMode(r, 0) <=> NoMode(q, 0))
         /\ NoMode(q, 0) => NoMode(r, 0)
<1>1. /\ DOMAIN q = 1..Len(q) /\ DOMAIN r = 1..(Len(q) - 1) /\ Len(r) = Len(q) - 1
      /\ Len(q) \in Nat /\ Len(q) >= 1
      /\ \A k \in DOMAIN r : k + 1 \in DOMAIN q /\ r[k] = q[k + 1]
      /\ \A k \in DOMAIN q : k = 1 \/ (k - 1 \in DOMAIN r /\ r[k - 1] = q[k])
  BY DEF Shorter
<1>2. ASSUME NEW i \in 0..Len(r) PROVE NoMode(r, i) <=> NoMode(q, i + 1)
  <2>1. ASSUME NoMode(r, i), NEW k \in DOMAIN q, k > i + 1 PROVE q[k].kind # "mode"
    <3>1. k - 1 \in DOMAIN r /\ r[k - 1] = q[k] /\ k - 1 > i
      BY <1>1, <2>1
    <3> QED BY <2>1, <3>1 DEF NoMode
  <2>2. ASSUME NoMode(q, i + 1), NEW k \in DOMAIN r, k > i PROVE r[k].kind # "mode"
    <3>1. k + 1 \in DOMAIN q /\ r[k] = q[k + 1] /\ k + 1 > i + 1
      BY <1>1, <2>2
    <3> QED BY <2>2, <3>1 DEF NoMode
  <2> QED BY <2>1, <2>2 DEF NoMode
<1>3. 0 \in 0..Len(r) /\ 0 + 1 = 1
  BY <1>1
<1>4. NoMode(r, 0) <=> NoMode(q, 1)
  BY <1>2, <1>3
<1>5. NoMode(q, 0) => NoMode(q, 1)
  BY <1>1 DEF NoMode
<1>6. ASSUME NoMode(q, 1), q[1].kind # "mode" PROVE NoMode(q, 0)
  <2> SUFFICES ASSUME NEW k \in DOMAIN q PROVE q[k].kind # "mode"
    BY DEF NoMode
  <2>1. k = 1 \/ k > 1
    BY <1>1
  <2> QED BY <1>6, <2>1 DEF NoMode
<1> QED BY <1>2, <1>4, <1>5, <1>6

LEMMA ModeLonger ==
  ASSUME NEW q, NEW r, NEW m, NEW md, NEW sm, Longer(q, r, m), m.kind # "mode",
         ModeFollows(q, md, sm)
  PROVE  ModeFollows(r, md, sm)
<1>1. /\ DOMAIN q = 1..Len(q) /\ Len(q) \in Nat
      /\ r[Len(q) + 1] = m /\ \A k \in 1..Len(q) : r[k] = q[k]
      /\ \A k \in DOMAIN r : k \in 1..Len(q) \/ k = Len(q) + 1
  BY DEF Longer
<1>2. \A i \in 0..Len(q) : NoMode(r, i) <=> NoMode(q, i)
  BY NoModeLonger
<1>3. 0 \in 0..Len(q) /\ 1..Len(q) \subseteq 0..Len(q)
  BY <1>1
<1>4. NoMode(r, 0) => sm = md
  BY <1>2, <1>3 DEF ModeFollows
<1>5. ASSUME NEW i \in DOMAIN r, r[i].kind = "mode", NoMode(r, i) PROVE r[i].mode = md
  <2>1. i \in 1..Len(q) /\ r[i] = q[i]
    BY <1>1, <1>5
  <2>2. NoMode(q, i) /\ i \in DOMAIN q
    BY <1>1, <1>2, <1>3, <1>5, <2>1
  <2> QED BY <1>5, <2>1, <2>2 DEF ModeFollows
<1> QED BY <1>4, <1>5 DEF ModeFollows

LEMMA ModeChanges ==
  ASSUME NEW q, NEW r, NEW m, NEW sm, Longer(q, r, m), m.kind = "mode"
  PROVE  ModeFollows(r, m.mode, sm)
<1>1. /\ DOMAIN r = 1..(Len(q) + 1) /\ Len(q) \in Nat /\ r[Len(q) + 1] = m
      /\ \A k \in DOMAIN r : k \in 1..Len(q) \/ k = Len(q) + 1
  BY DEF Longer
<1>2. Len(q) + 1 \in DOMAIN r /\ Len(q) + 1 > 0 /\ \A i \in 1..Len(q) : Len(q) + 1 > i
  BY <1>1
<1>3. ~NoMode(r, 0)
  BY <1>1, <1>2 DEF NoMode
<1>4. ASSUME NEW i \in DOMAIN r, NoMode(r, i) PROVE r[i].mode = m.mode
  <2>1. i \notin 1..Len(q)
    BY <1>1, <1>2, <1>4 DEF NoMode
  <2> QED BY <1>1, <2>1
<1> QED BY <1>3, <1>4 DEF ModeFollows

LEMMA ModeShorter ==
  ASSUME NEW q, NEW r, NEW md, NEW sm, NEW sm2, Shorter(q, r), ModeFollows(q, md, sm),
         sm2 = IF q[1].kind = "mode" THEN q[1].mode ELSE sm
  PROVE  ModeFollows(r, md, sm2)
<1>1. /\ DOMAIN r = 1..(Len(q) - 1) /\ Len(r) = Len(q) - 1 /\ 1 \in DOMAIN q
      /\ \A k \in DOMAIN r : k + 1 \in DOMAIN q /\ r[k] = q[k + 1]
      /\ Len(q) \in Nat /\ Len(q) >= 1
  BY DEF Shorter
<1>2. /\ \A i \in 0..Len(r) : NoMode(r, i) <=> NoMode(q, i + 1)
      /\ q[1].kind # "mode" => (NoMode(r, 0) <=> NoMode(q, 0))
  BY NoModeShorter
<1>3. 0 \in 0..Len(r) /\ 0 + 1 = 1 /\ \A i \in DOMAIN r : i \in 0..Len(r)
  BY <1>1
<1>4. NoMode(r, 0) <=> NoMode(q, 1)
  BY <1>2, <1>3
<1>5. NoMode(r, 0) => sm2 = md
  BY <1>1, <1>2, <1>4 DEF ModeFollows
<1>6. ASSUME NEW i \in DOMAIN r, r[i].kind = "mode", NoMode(r, i) PROVE r[i].mode = md
  BY <1>1, <1>2, <1>3, <1>6 DEF ModeFollows
<1> QED BY <1>5, <1>6 DEF ModeFollows

Pipeline(q, acc, ag, j, sg) ==
  /\ q \in Seq(Segments) /\ acc \subseteq Segments /\ ag \in Nat /\ sg \in Nat
  /\ j \in Jobs \union {NoJob}
  /\ LoopFits(q, acc, ag, j, sg)

LEMMA WorkIsSent ==
  ASSUME NEW q, NEW acc, NEW ag, NEW j, NEW sg, Pipeline(q, acc, ag, j, sg),
         NEW g \in Nat, sg <= g, NEW out, NEW snt, AskedOnce(out, g, snt, acc, ag),
         NEW s, WorkedOn(s, g, q, ag, j)
  PROVE  s \in snt /\ s \in acc /\ sg = g /\ ag = g
<1>1. ag \in Nat /\ sg \in Nat /\ ag <= sg
  BY DEF Pipeline, LoopFits
<1>2. CASE s \in ToSet(q) /\ ag = g
  <2>1. sg = g
    BY <1>1, <1>2
  <2> QED BY <1>2, <2>1 DEF Pipeline, LoopFits, AskedOnce
<1>3. CASE j # NoJob /\ j.segment = s /\ j.generation = g
  <2>1. g <= ag
    BY <1>3 DEF Pipeline, LoopFits
  <2>2. sg = g /\ ag = g
    BY <1>1, <2>1
  <2> QED BY <1>3, <2>2 DEF Pipeline, LoopFits, AskedOnce
<1> QED BY <1>2, <1>3 DEF WorkedOn

-----------------------------------------------------------------------------
(* ScriptDubbing: what the page does to the requests.                       *)
LEMMA AsksOnceMore ==
  ASSUME NEW out, NEW r, NEW m, NEW g, NEW snt, NEW batch, NEW acc, NEW ag,
         AskedOnce(out, g, snt, acc, ag), Longer(out, r, m),
         m.kind = "segments", m.generation = g, m.segments = batch,
         ToSet(batch) \cap snt = {}
  PROVE  AskedOnce(r, g, snt \union ToSet(batch), acc, ag)
<1>1. /\ DOMAIN out = 1..Len(out) /\ Len(out) \in Nat /\ r[Len(out) + 1] = m
      /\ \A k \in 1..Len(out) : r[k] = out[k]
      /\ \A k \in DOMAIN r : k \in 1..Len(out) \/ k = Len(out) + 1
  BY DEF Longer
<1>2. ag = g => acc \subseteq snt
  BY DEF AskedOnce
<1>3. \A s \in Segments, i \in 1..Len(out) : AsksFor(r[i], g, s) =>
        /\ s \in snt /\ (ag = g => s \notin acc) /\ s \notin ToSet(batch)
        /\ \A j \in 1..Len(out) : AsksFor(r[j], g, s) => j = i
  BY <1>1 DEF AskedOnce
<1>4. \A s \in Segments : AsksFor(m, g, s) <=> s \in ToSet(batch)
  BY DEF AsksFor
<1>5. ASSUME NEW s \in Segments, NEW i \in DOMAIN r, AsksFor(r[i], g, s)
      PROVE  /\ s \in snt \union ToSet(batch) /\ (ag = g => s \notin acc)
             /\ \A j \in DOMAIN r : AsksFor(r[j], g, s) => j = i
  <2>1. CASE i \in 1..Len(out)
    <3>1. s \in snt /\ (ag = g => s \notin acc) /\ s \notin ToSet(batch)
      BY <1>3, <1>5, <2>1
    <3>2. ASSUME NEW j \in DOMAIN r, AsksFor(r[j], g, s) PROVE j = i
      <4>1. r[j] # m
        BY <1>4, <3>1, <3>2
      <4>2. j \in 1..Len(out)
        BY <1>1, <4>1
      <4> QED BY <1>3, <1>5, <2>1, <3>2, <4>2
    <3> QED BY <3>1, <3>2
  <2>2. CASE i = Len(out) + 1
    <3>1. r[i] = m
      BY <1>1, <2>2
    <3>2. s \in ToSet(batch) /\ s \notin snt
      BY <1>4, <1>5, <3>1
    <3>3. ASSUME NEW j \in DOMAIN r, AsksFor(r[j], g, s) PROVE j = i
      <4>1. j \notin 1..Len(out)
        BY <1>3, <3>2, <3>3
      <4> QED BY <1>1, <2>2, <4>1
    <3> QED BY <1>2, <3>2, <3>3
  <2> QED BY <1>1, <2>1, <2>2
<1> QED BY <1>2, <1>5 DEF AskedOnce

LEMMA AsksOnceLonger ==
  ASSUME NEW out, NEW r, NEW m, NEW g, NEW snt, NEW acc, NEW ag,
         AskedOnce(out, g, snt, acc, ag), Longer(out, r, m), m.kind # "segments"
  PROVE  AskedOnce(r, g, snt, acc, ag)
<1>1. /\ DOMAIN out = 1..Len(out) /\ r[Len(out) + 1] = m
      /\ \A k \in 1..Len(out) : r[k] = out[k]
      /\ \A k \in DOMAIN r : k \in 1..Len(out) \/ k = Len(out) + 1
  BY DEF Longer
<1>2. ASSUME NEW s \in Segments, NEW i \in DOMAIN r, AsksFor(r[i], g, s)
      PROVE  i \in DOMAIN out /\ r[i] = out[i]
  BY <1>1, <1>2 DEF AsksFor
<1> QED BY <1>2 DEF AskedOnce

(* A message that is no request and no change of mode leaves everything.    *)
LEMMA InModeLonger ==
  ASSUME NEW s, NEW out, NEW r, NEW m, NEW g, NEW q, NEW ag, NEW j, NEW back, NEW md,
         AskedInMode(s, out, g, q, ag, j, back, md), Longer(out, r, m), m.kind # "mode",
         ~AsksFor(m, g, s)
  PROVE  AskedInMode(s, r, g, q, ag, j, back, md)
<1>1. /\ DOMAIN out = 1..Len(out) /\ r[Len(out) + 1] = m /\ Len(out) \in Nat
      /\ \A k \in 1..Len(out) : r[k] = out[k]
      /\ \A k \in DOMAIN r : k \in 1..Len(out) \/ k = Len(out) + 1
  BY DEF Longer
<1>2. \A i \in 0..Len(out) : NoMode(r, i) <=> NoMode(out, i)
  BY NoModeLonger
<1>3. 0 \in 0..Len(out) /\ \A i \in 1..Len(out) : i \in 0..Len(out)
  BY <1>1
<1>4. ASSUME NEW i \in DOMAIN r, AsksFor(r[i], g, s) PROVE NoMode(r, i)
  <2>1. r[i] # m
    BY <1>4
  <2>2. i \in DOMAIN out /\ r[i] = out[i] /\ i \in 0..Len(out)
    BY <1>1, <1>3, <2>1
  <2> QED BY <1>2, <1>4, <2>2 DEF AskedInMode
<1>5. WorkedOn(s, g, q, ag, j) => NoMode(r, 0)
  BY <1>2, <1>3 DEF AskedInMode
<1> QED BY <1>4, <1>5 DEF AskedInMode

LEMMA ComingLonger ==
  ASSUME NEW s, NEW out, NEW r, NEW m, NEW g, NEW q, NEW ag, NEW j, NEW back, NEW dec,
         Coming(s, out, g, q, ag, j, back, dec), Longer(out, r, m)
  PROVE  Coming(s, r, g, q, ag, j, back, dec)
<1>1. \A i \in DOMAIN out : i \in DOMAIN r /\ r[i] = out[i]
  BY DEF Longer
<1> QED BY <1>1 DEF Coming

LEMMA AsksMore ==
  ASSUME NEW pg \in Pages, NEW x \in Pages, NEW batch, NEW m, Longer(pg.toServer, x.toServer, m),
         m.kind = "segments", m.generation = pg.generation, m.segments = batch,
         ToSet(batch) \cap pg.sent = {}, ToSet(batch) \subseteq pg.known,
         x.sent = pg.sent \union ToSet(batch), x.excused = pg.excused \ ToSet(batch),
         x.generation = pg.generation, x.mode = pg.mode, x.known = pg.known,
         x.texts = pg.texts, x.audio = pg.audio,
         NEW q, NEW acc, NEW ag, NEW j, NEW sg, NEW sm, NEW back, NEW dec,
         Pipeline(q, acc, ag, j, sg), sg <= pg.generation,
         Remembered(pg, q, acc, ag, j, sg, sm, back, dec)
  PROVE  Remembered(x, q, acc, ag, j, sg, sm, back, dec)
<1> DEFINE out == pg.toServer
           r == x.toServer
           g == pg.generation
<1>1. /\ g \in Nat /\ sg \in Nat /\ ToSet(batch) \subseteq Segments /\ x.sent \subseteq Segments
      /\ x.generation = g
  BY DEF Pages, Pipeline
<1>2. x.sent \subseteq x.known /\ dec \subseteq x.texts
  BY DEF Remembered
<1>3. Longer(out, r, m) /\ m.kind = "segments" /\ m.kind # "mode" /\ m.generation = g
  OBVIOUS
<1>4. /\ Counted(out, sg, g) /\ AskedOnce(out, g, pg.sent, acc, ag)
      /\ Answered(back, g, pg.sent, sg) /\ ModeFollows(out, pg.mode, sm)
  BY DEF Remembered
<1>5. \A s \in pg.sent \ pg.excused :
        /\ AskedInMode(s, out, g, q, ag, j, back, pg.mode)
        /\ IsComplete(pg, s) \/ Coming(s, out, g, q, ag, j, back, dec)
  BY DEF Remembered
<1>6. \A s : IsComplete(x, s) <=> IsComplete(pg, s)
  BY DEF IsComplete
<1> HIDE DEF out, r, g
<1>7. Counted(r, sg, g)
  BY <1>1, <1>3, <1>4, CountsLonger
<1>8. AskedOnce(r, g, x.sent, acc, ag)
  BY <1>3, <1>4, AsksOnceMore
<1>9. Answered(back, g, x.sent, sg)
  BY <1>4 DEF Answered
<1>10. ModeFollows(r, x.mode, sm)
  BY <1>3, <1>4, ModeLonger
<1>11. ASSUME NEW s \in ToSet(batch)
       PROVE  /\ AskedInMode(s, r, g, q, ag, j, back, x.mode)
              /\ Coming(s, r, g, q, ag, j, back, dec)
  <2>1. s \in Segments /\ s \notin pg.sent
    BY <1>1
  <2>2. ~WorkedOn(s, g, q, ag, j)
    <3>1. sg <= g
      BY DEF g
    <3> QED BY <1>1, <1>4, <2>1, <3>1, WorkIsSent
  <2>3. \A i \in DOMAIN back : ~AnswerTo(back[i], g, s)
    BY <1>4, <2>1 DEF Answered, AnswerTo
  <2>4. /\ Len(out) \in Nat /\ DOMAIN r = 1..(Len(out) + 1) /\ r[Len(out) + 1] = m
        /\ \A k \in 1..Len(out) : r[k] = out[k] /\ k \in DOMAIN out
        /\ \A k \in DOMAIN r : k \in 1..Len(out) \/ k = Len(out) + 1
    BY <1>3 DEF Longer
  <2>5. \A i \in 1..Len(out) : ~AsksFor(r[i], g, s)
    BY <1>4, <2>1, <2>4 DEF AskedOnce
  <2>6. ASSUME NEW i \in DOMAIN r, AsksFor(r[i], g, s) PROVE NoMode(r, i)
    <3>1. i = Len(out) + 1
      BY <2>4, <2>5, <2>6
    <3>2. \A k \in DOMAIN r : ~(k > i)
      BY <2>4, <3>1
    <3> QED BY <3>2 DEF NoMode
  <2>7. AskedInMode(s, r, g, q, ag, j, back, x.mode)
    BY <2>2, <2>3, <2>6 DEF AskedInMode
  <2>8. Len(out) + 1 \in DOMAIN r /\ AsksFor(r[Len(out) + 1], g, s)
    BY <1>3, <2>4 DEF AsksFor
  <2> QED BY <2>7, <2>8 DEF Coming
<1>12. ASSUME NEW s \in pg.sent \ pg.excused, s \notin ToSet(batch)
       PROVE  /\ AskedInMode(s, r, g, q, ag, j, back, x.mode)
              /\ IsComplete(x, s) \/ Coming(s, r, g, q, ag, j, back, dec)
  <2>1. ~AsksFor(m, g, s)
    BY <1>12 DEF AsksFor
  <2>2. /\ AskedInMode(s, out, g, q, ag, j, back, pg.mode)
        /\ IsComplete(pg, s) \/ Coming(s, out, g, q, ag, j, back, dec)
    BY <1>5, <1>12
  <2>3. AskedInMode(s, r, g, q, ag, j, back, x.mode)
    BY <1>3, <2>1, <2>2, InModeLonger
  <2>4. Coming(s, out, g, q, ag, j, back, dec) => Coming(s, r, g, q, ag, j, back, dec)
    BY <1>3, ComingLonger
  <2> QED BY <1>6, <2>2, <2>3, <2>4
<1>13. \A s \in x.sent \ x.excused :
         s \in ToSet(batch) \/ (s \in pg.sent \ pg.excused /\ s \notin ToSet(batch))
  OBVIOUS
<1>14. \A s \in x.sent \ x.excused :
         /\ AskedInMode(s, r, g, q, ag, j, back, x.mode)
         /\ IsComplete(x, s) \/ Coming(s, r, g, q, ag, j, back, dec)
  BY <1>11, <1>12, <1>13
<1> QED BY <1>1, <1>2, <1>7, <1>8, <1>9, <1>10, <1>14 DEF Remembered, r

-----------------------------------------------------------------------------
(* ScriptDubbing: the tick.                                                 *)
LEMMA RequestTypes ==
  ASSUME NEW m \in Requests
  PROVE  /\ m.kind \in {"segments", "words", "seek", "mode"}
         /\ m.kind = "segments" => m.generation \in Nat /\ m.segments \in Seq(Segments)
         /\ m.kind = "mode" => m.mode \in Modes
         /\ m.kind = "words" => m.chunk \in SUBSET Segments
BY DEF Requests

LEMMA RequestsAgree ==
  ASSUME NEW pg \in Pages, NEW sg \in Nat, Counted(pg.toServer, sg, pg.generation)
  PROVE  /\ sg <= pg.generation
         /\ \A i \in DOMAIN pg.toServer : pg.toServer[i].kind = "segments" =>
              pg.toServer[i].generation <= pg.generation
         /\ sg = pg.generation => \A i \in DOMAIN pg.toServer : pg.toServer[i].kind # "seek"
<1> DEFINE out == pg.toServer
           g == pg.generation
<1>1. out \in Seq(Requests) /\ g \in Nat
  BY DEF Pages
<1>2. Len(out) \in Nat /\ DOMAIN out = 1..Len(out) /\ \A i \in DOMAIN out : out[i] \in Requests
  BY <1>1
<1>3. \A i \in DOMAIN out : out[i].kind = "segments" => out[i].generation \in Nat
  BY <1>2, RequestTypes
<1> HIDE DEF out, g
<1>4. Counted(out, sg, g)
  BY DEF out, g
<1>5. /\ sg <= g
      /\ \A i \in DOMAIN out : out[i].kind = "segments" => out[i].generation <= g
      /\ sg = g => \A i \in DOMAIN out : out[i].kind # "seek"
  BY <1>1, <1>2, <1>3, <1>4, CountedBounds
<1> QED BY <1>5 DEF out, g

LEMMA ToSetLonger ==
  ASSUME NEW S, NEW q \in Seq(S), NEW m \in S
  PROVE  ToSet(Append(q, m)) = ToSet(q) \union {m}
<1> DEFINE r == Append(q, m)
<1>1. Longer(q, r, m)
  BY Lengthens
<1> HIDE DEF r
<1>2. /\ DOMAIN q = 1..Len(q) /\ r[Len(q) + 1] = m /\ \A i \in DOMAIN q : r[i] = q[i]
      /\ \A i \in DOMAIN q : i \in DOMAIN r
      /\ \A i \in DOMAIN r : i \in DOMAIN q \/ i = Len(q) + 1
      /\ Len(q) + 1 \in DOMAIN r
  BY <1>1 DEF Longer
<1>3. ToSet(r) = ToSet(q) \union {m}
  BY <1>2 DEF ToSet
<1> QED BY <1>3 DEF r

KeepsRequests(pg, x) ==
  /\ x.generation = pg.generation /\ x.mode = pg.mode /\ x.known = pg.known
  /\ x.sent = pg.sent /\ x.texts = pg.texts /\ x.audio = pg.audio
  /\ x.toServer = pg.toServer /\ x.excused = pg.excused

LEMMA StaysRemembered ==
  ASSUME NEW pg, NEW x, KeepsRequests(pg, x), NEW q, NEW acc, NEW ag, NEW j, NEW sg, NEW sm,
         NEW back, NEW dec, Remembered(pg, q, acc, ag, j, sg, sm, back, dec)
  PROVE  Remembered(x, q, acc, ag, j, sg, sm, back, dec)
BY DEF KeepsRequests, Remembered, IsComplete

LEMMA UpcomingIs ==
  ASSUME NEW pg
  PROVE  /\ Upcoming(pg) \in Seq(Segments)
         /\ ToSet(Upcoming(pg)) \subseteq pg.known /\ ToSet(Upcoming(pg)) \cap pg.sent = {}
<1> DEFINE Fits(s) == s \in pg.known /\ s \notin pg.sent
           P == {b \in Seq(Segments) : \A s \in ToSet(b) : Fits(s)}
<1>1. <<>> \in P
  BY DEF ToSet
<1>2. ASSUME NEW b \in P, NEW s \in Segments, IsUpcoming(pg, s) PROVE Append(b, s) \in P
  <2>1. Fits(s)
    BY <1>2 DEF IsUpcoming
  <2> HIDE DEF Fits
  <2>2. Append(b, s) \in Seq(Segments) /\ ToSet(Append(b, s)) = ToSet(b) \union {s}
    BY ToSetLonger
  <2> QED BY <2>1, <2>2
<1> HIDE DEF P
<1>3. Upcoming(pg) \in P
  BY <1>1, <1>2, UpcomingKeeps
<1> QED BY <1>3 DEF P

LEMMA Sends ==
  ASSUME NEW pg \in Pages, InPlace(pg), NEW q, NEW acc, NEW ag, NEW j, NEW sg, NEW sm,
         NEW back, NEW dec, Pipeline(q, acc, ag, j, sg),
         Remembered(pg, q, acc, ag, j, sg, sm, back, dec)
  PROVE  LET x == SendUpcoming(pg)
         IN /\ x \in Pages /\ InPlace(x) /\ x.paused = pg.paused
            /\ Remembered(x, q, acc, ag, j, sg, sm, back, dec)
<1> DEFINE batch == Upcoming(pg)
           m == [kind |-> "segments", segments |-> batch, generation |-> pg.generation]
           x == [pg EXCEPT !.sent = @ \union ToSet(batch), !.excused = @ \ ToSet(batch),
                           !.toServer = Append(@, m)]
<1>1. SendUpcoming(pg) = IF batch = <<>> THEN pg ELSE x
  BY DEF SendUpcoming
<1>2. /\ batch \in Seq(Segments) /\ ToSet(batch) \subseteq pg.known
      /\ ToSet(batch) \cap pg.sent = {}
  BY UpcomingIs
<1> HIDE DEF batch
<1>3. pg.generation \in Nat /\ pg.toServer \in Seq(Requests) /\ pg.known \subseteq Segments
  BY DEF Pages
<1>4. /\ m \in Requests /\ m.kind = "segments" /\ m.generation = pg.generation
      /\ m.segments = batch
  BY <1>2, <1>3 DEF Requests
<1> HIDE DEF m
<1>5. Longer(pg.toServer, Append(pg.toServer, m), m) /\ Append(pg.toServer, m) \in Seq(Requests)
  BY <1>3, <1>4, Lengthens
<1>6. ToSet(batch) \subseteq Segments
  BY <1>2, <1>3
<1>7. /\ x \in Pages /\ x.sent = pg.sent \union ToSet(batch)
      /\ x.excused = pg.excused \ ToSet(batch) /\ x.toServer = Append(pg.toServer, m)
  BY <1>5, <1>6 DEF Pages
<1>8. /\ x.generation = pg.generation /\ x.mode = pg.mode /\ x.known = pg.known
      /\ x.texts = pg.texts /\ x.audio = pg.audio
      /\ x.at = pg.at /\ x.paused = pg.paused /\ x.seeking = pg.seeking
      /\ x.playing = pg.playing /\ x.lastVoiceEnd = pg.lastVoiceEnd
  BY DEF Pages
<1> HIDE DEF x
<1>9. Longer(pg.toServer, x.toServer, m)
  BY <1>5, <1>7
<1>10. sg \in Nat /\ Counted(pg.toServer, sg, pg.generation)
  BY DEF Pipeline, Remembered
<1>11. sg <= pg.generation
  BY <1>10, RequestsAgree
<1>12. Remembered(x, q, acc, ag, j, sg, sm, back, dec)
  BY <1>2, <1>4, <1>7, <1>8, <1>9, <1>11, AsksMore
<1>13. InPlace(x)
  BY <1>8 DEF InPlace, InTurn, EndsBy, NotAhead
<1> QED BY <1>1, <1>7, <1>8, <1>12, <1>13

LEMMA Ticks ==
  ASSUME NEW pg \in Pages, InPlace(pg), NEW q, NEW acc, NEW ag, NEW j, NEW sg, NEW sm,
         NEW back, NEW dec, Pipeline(q, acc, ag, j, sg),
         Remembered(pg, q, acc, ag, j, sg, sm, back, dec)
  PROVE  LET x == TickOf(pg)
         IN x \in Pages /\ InPlace(x) /\ Remembered(x, q, acc, ag, j, sg, sm, back, dec)
<1> DEFINE x == SendUpcoming(pg)
           y == PlayAll(x)
<1>1. /\ x \in Pages /\ InPlace(x) /\ x.paused = pg.paused
      /\ Remembered(x, q, acc, ag, j, sg, sm, back, dec)
  BY Sends
<1>2. TickOf(pg) = IF pg.paused \/ pg.seeking \/ pg.at = Finish THEN x ELSE y
  BY DEF TickOf
<1> HIDE DEF x
<1>3. ASSUME ~pg.paused PROVE y \in Pages /\ KeepsRest(x, y) /\ InPlace(y)
  BY <1>1, <1>3, PlaysAll
<1> HIDE DEF y
<1>4. ASSUME ~pg.paused PROVE Remembered(y, q, acc, ag, j, sg, sm, back, dec)
  <2>1. KeepsRequests(x, y)
    BY <1>3, <1>4 DEF KeepsRest, KeepsRequests
  <2> QED BY <1>1, <2>1, StaysRemembered
<1> QED BY <1>1, <1>2, <1>3, <1>4

-----------------------------------------------------------------------------
(* ScriptDubbing: what else changes the requests the page remembers.        *)
LEMMA SeekAsks ==
  ASSUME NEW pg \in Pages, NEW x \in Pages, NEW m, Longer(pg.toServer, x.toServer, m),
         m.kind = "seek", x.generation = pg.generation + 1,
         x.mode = pg.mode, x.known = pg.known, x.sent \subseteq pg.sent,
         \A s \in x.sent : IsComplete(x, s), x.texts = pg.texts,
         NEW q, NEW acc, NEW ag, NEW j, NEW sg, NEW sm, NEW back, NEW dec,
         back \in Seq(Answers), Pipeline(q, acc, ag, j, sg),
         Remembered(pg, q, acc, ag, j, sg, sm, back, dec)
  PROVE  Remembered(x, q, acc, ag, j, sg, sm, back, dec)
<1> DEFINE out == pg.toServer
           r == x.toServer
           g == pg.generation
           g2 == x.generation
<1>1. g \in Nat /\ sg \in Nat /\ ag \in Nat /\ g2 = g + 1 /\ ag <= sg
  BY DEF Pages, Pipeline, LoopFits
<1>2. x.sent \subseteq x.known /\ dec \subseteq x.texts
  BY DEF Remembered
<1>3. Longer(out, r, m) /\ m.kind # "segments" /\ m.kind # "mode"
  OBVIOUS
<1>4. /\ Counted(out, sg, g) /\ Answered(back, g, pg.sent, sg) /\ ModeFollows(out, pg.mode, sm)
  BY DEF Remembered
<1>5. /\ sg <= g
      /\ \A i \in DOMAIN out : out[i].kind = "segments" => out[i].generation <= g
  BY <1>1, <1>4, RequestsAgree
<1> HIDE DEF out, r, g, g2
<1>6. Counted(r, sg, g2)
  BY <1>1, <1>3, <1>4, CountsLonger
<1>7. ModeFollows(r, x.mode, sm)
  BY <1>3, <1>4, ModeLonger
<1>8. ag # g2 /\ sg # g2 /\ sg <= g2
  BY <1>1, <1>5
<1>9. \A i \in DOMAIN r : \A s : ~AsksFor(r[i], g2, s)
  <2> SUFFICES ASSUME NEW i \in DOMAIN r, NEW s, AsksFor(r[i], g2, s) PROVE FALSE
    OBVIOUS
  <2>1. /\ DOMAIN out = 1..Len(out) /\ r[Len(out) + 1] = m
        /\ \A k \in 1..Len(out) : r[k] = out[k]
        /\ \A k \in DOMAIN r : k \in 1..Len(out) \/ k = Len(out) + 1
    BY <1>3 DEF Longer
  <2>2. r[i].kind = "segments" /\ r[i].generation = g2
    BY DEF AsksFor
  <2>3. i \in DOMAIN out /\ out[i].kind = "segments" /\ out[i].generation = g2
    BY <1>3, <2>1, <2>2
  <2>4. g2 <= g
    BY <1>5, <2>3
  <2> QED BY <1>1, <2>4
<1>10. AskedOnce(r, g2, x.sent, acc, ag)
  BY <1>8, <1>9 DEF AskedOnce
<1>11. \A i \in DOMAIN back : back[i].kind = "answer" =>
         back[i].generation <= sg /\ back[i].generation # g2
  <2> SUFFICES ASSUME NEW i \in DOMAIN back, back[i].kind = "answer"
               PROVE  back[i].generation <= sg /\ back[i].generation # g2
    OBVIOUS
  <2>1. back[i] \in Answers
    OBVIOUS
  <2> DEFINE h == back[i].generation
  <2>2. h \in Nat /\ h <= sg
    BY <1>4, <2>1 DEF Answers, Answered
  <2> HIDE DEF h
  <2>3. h # g2
    BY <1>1, <1>5, <2>2
  <2> QED BY <2>2, <2>3 DEF h
<1>12. Answered(back, g2, x.sent, sg)
  BY <1>11 DEF Answered
<1>13. \A s : ~WorkedOn(s, g2, q, ag, j)
  <2>1. j # NoJob => j.generation # g2
    <3> SUFFICES ASSUME j # NoJob PROVE j.generation # g2
      OBVIOUS
    <3> DEFINE h == j.generation
    <3>1. h \in Nat /\ h <= ag
      BY DEF Pipeline, LoopFits, Jobs
    <3> HIDE DEF h
    <3>2. h # g2
      BY <1>1, <1>5, <3>1
    <3> QED BY <3>2 DEF h
  <2> QED BY <1>8, <2>1 DEF WorkedOn
<1>14. \A s \in x.sent : AskedInMode(s, r, g2, q, ag, j, back, x.mode)
  BY <1>9, <1>11, <1>13 DEF AskedInMode, AnswerTo
<1> QED BY <1>2, <1>6, <1>7, <1>10, <1>12, <1>14 DEF Remembered, r, g2

LEMMA ModeAsks ==
  ASSUME NEW pg \in Pages, NEW x \in Pages, NEW m, Longer(pg.toServer, x.toServer, m),
         m.kind = "mode", x.generation = pg.generation, x.mode = m.mode,
         x.known = pg.known, x.sent = pg.sent, x.texts = pg.texts, x.sent \subseteq x.excused,
         NEW q, NEW acc, NEW ag, NEW j, NEW sg \in Nat, NEW sm, NEW back, NEW dec,
         Remembered(pg, q, acc, ag, j, sg, sm, back, dec)
  PROVE  Remembered(x, q, acc, ag, j, sg, sm, back, dec)
<1>1. pg.generation \in Nat
  BY DEF Pages
<1>2. /\ Counted(pg.toServer, sg, pg.generation)
      /\ AskedOnce(pg.toServer, pg.generation, pg.sent, acc, ag)
      /\ Answered(back, pg.generation, pg.sent, sg)
      /\ x.sent \subseteq x.known /\ dec \subseteq x.texts
  BY DEF Remembered
<1>3. Counted(x.toServer, sg, x.generation)
  <2>1. m.kind # "seek" /\ m.kind # "segments"
    OBVIOUS
  <2>2. Counted(x.toServer, sg, pg.generation)
    BY <1>1, <1>2, <2>1, CountsLonger
  <2> QED BY <2>2
<1>4. AskedOnce(x.toServer, x.generation, x.sent, acc, ag)
  BY <1>2, AsksOnceLonger
<1>5. ModeFollows(x.toServer, x.mode, sm)
  BY ModeChanges
<1> QED BY <1>2, <1>3, <1>4, <1>5 DEF Remembered

LEMMA WordsAsk ==
  ASSUME NEW pg \in Pages, NEW x \in Pages, NEW m, Longer(pg.toServer, x.toServer, m),
         m.kind = "words", x.generation = pg.generation, x.mode = pg.mode,
         x.known = pg.known, x.sent = pg.sent, x.texts = pg.texts, x.audio = pg.audio,
         x.excused = pg.excused,
         NEW q, NEW acc, NEW ag, NEW j, NEW sg \in Nat, NEW sm, NEW back, NEW dec,
         Remembered(pg, q, acc, ag, j, sg, sm, back, dec)
  PROVE  Remembered(x, q, acc, ag, j, sg, sm, back, dec)
<1> DEFINE out == pg.toServer
           r == x.toServer
           g == pg.generation
<1>1. g \in Nat /\ Longer(out, r, m) /\ m.kind # "segments" /\ m.kind # "mode"
  BY DEF Pages
<1>2. /\ Counted(out, sg, g) /\ AskedOnce(out, g, pg.sent, acc, ag)
      /\ Answered(back, g, pg.sent, sg) /\ ModeFollows(out, pg.mode, sm)
      /\ x.sent \subseteq x.known /\ dec \subseteq x.texts
  BY DEF Remembered
<1>3. \A s \in pg.sent \ pg.excused :
        /\ AskedInMode(s, out, g, q, ag, j, back, pg.mode)
        /\ IsComplete(pg, s) \/ Coming(s, out, g, q, ag, j, back, dec)
  BY DEF Remembered
<1>4. \A s : IsComplete(x, s) <=> IsComplete(pg, s)
  BY DEF IsComplete
<1> HIDE DEF out, r, g
<1>5. Counted(r, sg, g)
  BY <1>1, <1>2, CountsLonger
<1>6. AskedOnce(r, g, x.sent, acc, ag) /\ ModeFollows(r, x.mode, sm)
  BY <1>1, <1>2, AsksOnceLonger, ModeLonger
<1>7. ASSUME NEW s \in x.sent \ x.excused
      PROVE  /\ AskedInMode(s, r, g, q, ag, j, back, x.mode)
             /\ IsComplete(x, s) \/ Coming(s, r, g, q, ag, j, back, dec)
  <2>1. ~AsksFor(m, g, s)
    BY <1>1 DEF AsksFor
  <2>2. /\ AskedInMode(s, out, g, q, ag, j, back, pg.mode)
        /\ IsComplete(pg, s) \/ Coming(s, out, g, q, ag, j, back, dec)
    BY <1>3
  <2>3. AskedInMode(s, r, g, q, ag, j, back, x.mode)
    BY <1>1, <2>1, <2>2, InModeLonger
  <2>4. Coming(s, out, g, q, ag, j, back, dec) => Coming(s, r, g, q, ag, j, back, dec)
    BY <1>1, ComingLonger
  <2> QED BY <1>4, <2>2, <2>3, <2>4
<1>8. x.generation = g
  BY DEF g
<1> QED BY <1>2, <1>5, <1>6, <1>7, <1>8 DEF Remembered, r

LEMMA KnowsMore ==
  ASSUME NEW pg, NEW x, x.sent \subseteq x.known,
         x.generation = pg.generation, x.mode = pg.mode,
         x.sent = pg.sent, x.texts = pg.texts, x.audio = pg.audio,
         x.toServer = pg.toServer, x.excused = pg.excused,
         NEW q, NEW acc, NEW ag, NEW j, NEW sg, NEW sm, NEW back, NEW dec,
         Remembered(pg, q, acc, ag, j, sg, sm, back, dec)
  PROVE  Remembered(x, q, acc, ag, j, sg, sm, back, dec)
BY DEF Remembered, IsComplete

-----------------------------------------------------------------------------
(* ScriptDubbing: what the answers change.                                  *)
LEMMA AnswersLonger ==
  ASSUME NEW back, NEW b2, NEW m, Longer(back, b2, m), m.kind # "answer",
         NEW pg, NEW q, NEW acc, NEW ag, NEW j, NEW sg, NEW sm, NEW dec,
         Remembered(pg, q, acc, ag, j, sg, sm, back, dec)
  PROVE  Remembered(pg, q, acc, ag, j, sg, sm, b2, dec)
<1> DEFINE g == pg.generation
<1>1. \A i \in DOMAIN b2 : b2[i].kind = "answer" => i \in DOMAIN back /\ b2[i] = back[i]
  BY DEF Longer
<1>2. \A i \in DOMAIN back : i \in DOMAIN b2 /\ b2[i] = back[i]
  BY DEF Longer
<1>3. Answered(b2, g, pg.sent, sg)
  BY <1>1 DEF Remembered, Answered
<1>4. \A s \in pg.sent \ pg.excused :
        /\ AskedInMode(s, pg.toServer, g, q, ag, j, back, pg.mode)
        /\ IsComplete(pg, s) \/ Coming(s, pg.toServer, g, q, ag, j, back, dec)
  BY DEF Remembered
<1>5. \A s : Coming(s, pg.toServer, g, q, ag, j, back, dec) =>
               Coming(s, pg.toServer, g, q, ag, j, b2, dec)
  BY <1>2 DEF Coming
<1>6. \A s : AskedInMode(s, pg.toServer, g, q, ag, j, back, pg.mode) =>
               AskedInMode(s, pg.toServer, g, q, ag, j, b2, pg.mode)
  BY <1>1 DEF AskedInMode, AnswerTo
<1>7. \A s \in pg.sent \ pg.excused :
        /\ AskedInMode(s, pg.toServer, g, q, ag, j, b2, pg.mode)
        /\ IsComplete(pg, s) \/ Coming(s, pg.toServer, g, q, ag, j, b2, dec)
  BY <1>4, <1>5, <1>6
<1> QED BY <1>3, <1>7 DEF Remembered

LEMMA AnswersShorter ==
  ASSUME NEW back, NEW b2, Shorter(back, b2), NEW pg,
         \A s : ~AnswerTo(back[1], pg.generation, s),
         NEW q, NEW acc, NEW ag, NEW j, NEW sg, NEW sm, NEW dec,
         Remembered(pg, q, acc, ag, j, sg, sm, back, dec)
  PROVE  Remembered(pg, q, acc, ag, j, sg, sm, b2, dec)
<1> DEFINE g == pg.generation
<1>1. \A i \in DOMAIN b2 : i + 1 \in DOMAIN back /\ b2[i] = back[i + 1]
  BY DEF Shorter
<1>2. \A i \in DOMAIN back : i = 1 \/ (i - 1 \in DOMAIN b2 /\ b2[i - 1] = back[i])
  BY DEF Shorter
<1>3. Answered(b2, g, pg.sent, sg)
  BY <1>1 DEF Remembered, Answered
<1>4. \A s \in pg.sent \ pg.excused :
        /\ AskedInMode(s, pg.toServer, g, q, ag, j, back, pg.mode)
        /\ IsComplete(pg, s) \/ Coming(s, pg.toServer, g, q, ag, j, back, dec)
  BY DEF Remembered
<1>5. \A s : Coming(s, pg.toServer, g, q, ag, j, back, dec) =>
               Coming(s, pg.toServer, g, q, ag, j, b2, dec)
  BY <1>2 DEF Coming
<1>6. \A s : AskedInMode(s, pg.toServer, g, q, ag, j, back, pg.mode) =>
               AskedInMode(s, pg.toServer, g, q, ag, j, b2, pg.mode)
  BY <1>1 DEF AskedInMode
<1>7. \A s \in pg.sent \ pg.excused :
        /\ AskedInMode(s, pg.toServer, g, q, ag, j, b2, pg.mode)
        /\ IsComplete(pg, s) \/ Coming(s, pg.toServer, g, q, ag, j, b2, dec)
  BY <1>4, <1>5, <1>6
<1> QED BY <1>3, <1>7 DEF Remembered

LEMMA AnswerArrives ==
  ASSUME NEW back, NEW b2, Shorter(back, b2), NEW pg, NEW x, NEW a, a = back[1],
         a.kind = "answer", a.generation = pg.generation,
         x.generation = pg.generation, x.mode = pg.mode, x.known = pg.known,
         x.sent = pg.sent, x.texts = pg.texts \union {a.segment}, x.audio = pg.audio,
         x.toServer = pg.toServer, x.excused = pg.excused,
         NEW q, NEW acc, NEW ag, NEW j, NEW sg, NEW sm, NEW dec, NEW dec2,
         dec2 = IF a.voice THEN dec \union {a.segment} ELSE dec,
         Remembered(pg, q, acc, ag, j, sg, sm, back, dec)
  PROVE  Remembered(x, q, acc, ag, j, sg, sm, b2, dec2)
<1> DEFINE g == pg.generation
           out == pg.toServer
<1>1. \A i \in DOMAIN b2 : i + 1 \in DOMAIN back /\ b2[i] = back[i + 1]
  BY DEF Shorter
<1>2. \A i \in DOMAIN back : i = 1 \/ (i - 1 \in DOMAIN b2 /\ b2[i - 1] = back[i])
  BY DEF Shorter
<1>3. Answered(b2, g, pg.sent, sg) /\ dec2 \subseteq x.texts
  BY <1>1 DEF Remembered, Answered
<1>4. \A s : IsComplete(pg, s) => IsComplete(x, s)
  BY DEF IsComplete
<1>5. ASSUME NEW s \in pg.sent \ pg.excused
      PROVE  /\ AskedInMode(s, out, g, q, ag, j, b2, pg.mode)
             /\ IsComplete(x, s) \/ Coming(s, out, g, q, ag, j, b2, dec2)
  <2>1. /\ AskedInMode(s, out, g, q, ag, j, back, pg.mode)
        /\ IsComplete(pg, s) \/ Coming(s, out, g, q, ag, j, back, dec)
    BY DEF Remembered
  <2>2. AskedInMode(s, out, g, q, ag, j, b2, pg.mode)
    BY <1>1, <2>1 DEF AskedInMode
  <2>3. CASE AnswerTo(back[1], g, s)
    <3>1. s = a.segment
      BY <2>3 DEF AnswerTo
    <3>2. CASE a.voice
      BY <2>2, <3>1, <3>2 DEF Coming
    <3>3. CASE ~a.voice
      <4>1. 1 \in DOMAIN back
        BY DEF Shorter
      <4>2. pg.mode = "subtitle_only"
        BY <2>1, <2>3, <3>3, <4>1 DEF AskedInMode
      <4> QED BY <2>2, <3>1, <4>2 DEF IsComplete
    <3> QED BY <3>2, <3>3
  <2>4. CASE ~AnswerTo(back[1], g, s)
    <3>1. Coming(s, out, g, q, ag, j, back, dec) => Coming(s, out, g, q, ag, j, b2, dec2)
      BY <1>2, <2>4 DEF Coming
    <3> QED BY <1>4, <2>1, <2>2, <3>1
  <2> QED BY <2>3, <2>4
<1> HIDE DEF g, out
<1>6. x.generation = g /\ x.toServer = out
  BY DEF g, out
<1>7. /\ x.sent \subseteq x.known /\ Counted(out, sg, g) /\ AskedOnce(out, g, x.sent, acc, ag)
      /\ ModeFollows(out, x.mode, sm)
  BY DEF Remembered, g, out
<1>8. \A s \in x.sent \ x.excused :
        /\ AskedInMode(s, out, g, q, ag, j, b2, x.mode)
        /\ IsComplete(x, s) \/ Coming(s, out, g, q, ag, j, b2, dec2)
  BY <1>5
<1> QED BY <1>3, <1>6, <1>7, <1>8 DEF Remembered

LEMMA VoiceDecodes ==
  ASSUME NEW pg, NEW x, NEW s, NEW dec, s \in dec, x.audio[s] > 0,
         \A t \in Segments : t # s => x.audio[t] = pg.audio[t], pg.sent \subseteq Segments,
         x.generation = pg.generation, x.mode = pg.mode, x.known = pg.known,
         x.sent = pg.sent, x.texts = pg.texts, x.toServer = pg.toServer,
         x.excused = pg.excused,
         NEW q, NEW acc, NEW ag, NEW j, NEW sg, NEW sm, NEW back,
         Remembered(pg, q, acc, ag, j, sg, sm, back, dec)
  PROVE  Remembered(x, q, acc, ag, j, sg, sm, back, dec \ {s})
<1>1. IsComplete(x, s) /\ \A t \in Segments : t # s /\ IsComplete(pg, t) => IsComplete(x, t)
  BY DEF IsComplete, Remembered
<1>2. ASSUME NEW t \in pg.sent \ pg.excused
      PROVE  /\ AskedInMode(t, pg.toServer, pg.generation, q, ag, j, back, pg.mode)
             /\ \/ IsComplete(x, t)
                \/ Coming(t, pg.toServer, pg.generation, q, ag, j, back, dec \ {s})
  <2>1. /\ AskedInMode(t, pg.toServer, pg.generation, q, ag, j, back, pg.mode)
        /\ IsComplete(pg, t) \/ Coming(t, pg.toServer, pg.generation, q, ag, j, back, dec)
    BY DEF Remembered
  <2>2. CASE t = s
    BY <1>1, <2>1, <2>2
  <2>3. CASE t # s
    BY <1>1, <2>1, <2>3 DEF Coming
  <2> QED BY <2>2, <2>3
<1> QED BY <1>2 DEF Remembered

LEMMA VoiceFails ==
  ASSUME NEW pg, NEW x, NEW s, NEW dec,
         x.excused = pg.excused \union {s},
         x.generation = pg.generation, x.mode = pg.mode, x.known = pg.known,
         x.sent = pg.sent, x.texts = pg.texts, x.audio = pg.audio, x.toServer = pg.toServer,
         NEW q, NEW acc, NEW ag, NEW j, NEW sg, NEW sm, NEW back,
         Remembered(pg, q, acc, ag, j, sg, sm, back, dec)
  PROVE  Remembered(x, q, acc, ag, j, sg, sm, back, dec \ {s})
<1>1. \A t : IsComplete(x, t) <=> IsComplete(pg, t)
  BY DEF IsComplete
<1>2. ASSUME NEW t \in x.sent \ x.excused
      PROVE  /\ AskedInMode(t, pg.toServer, pg.generation, q, ag, j, back, pg.mode)
             /\ \/ IsComplete(x, t)
                \/ Coming(t, pg.toServer, pg.generation, q, ag, j, back, dec \ {s})
  <2>1. t \in pg.sent \ pg.excused /\ t # s
    OBVIOUS
  <2>2. /\ AskedInMode(t, pg.toServer, pg.generation, q, ag, j, back, pg.mode)
        /\ IsComplete(pg, t) \/ Coming(t, pg.toServer, pg.generation, q, ag, j, back, dec)
    BY <2>1 DEF Remembered
  <2> QED BY <1>1, <2>1, <2>2 DEF Coming
<1> QED BY <1>2 DEF Remembered

-----------------------------------------------------------------------------
(* ScriptDubbing: the steps of the pipeline.                                *)
Taken(q, g, q2, j2) ==
  IF q = <<>> THEN q2 = <<>> /\ j2 = NoJob
  ELSE q2 = Tail(q) /\ j2 = [segment |-> Head(q), generation |-> g, step |-> "translate"]

LEMMA HeadAndTail ==
  ASSUME NEW S, NEW q \in Seq(S), q # <<>>, IsInjective(q)
  PROVE  /\ IsInjective(Tail(q)) /\ ToSet(q) = {Head(q)} \union ToSet(Tail(q))
         /\ Head(q) \notin ToSet(Tail(q))
<1> DEFINE r == Tail(q)
           h == Head(q)
<1>1. Shorter(q, r) /\ h = q[1]
  BY Shortens
<1> HIDE DEF r, h
<1>2. /\ 1 \in DOMAIN q
      /\ \A i \in DOMAIN r : i + 1 \in DOMAIN q /\ r[i] = q[i + 1] /\ i \in Nat /\ i >= 1
      /\ \A i \in DOMAIN q : i = 1 \/ (i - 1 \in DOMAIN r /\ r[i - 1] = q[i])
  BY <1>1 DEF Shorter
<1>3. \A i, k \in DOMAIN q : q[i] = q[k] => i = k
  BY DEF IsInjective
<1>4. ASSUME NEW i \in DOMAIN r, NEW k \in DOMAIN r, r[i] = r[k] PROVE i = k
  <2>1. i + 1 = k + 1
    BY <1>2, <1>3, <1>4
  <2> QED BY <1>2, <2>1
<1>5. \A i \in DOMAIN r : r[i] # h
  <2> SUFFICES ASSUME NEW i \in DOMAIN r, r[i] = h PROVE FALSE
    OBVIOUS
  <2>1. i + 1 = 1
    BY <1>1, <1>2, <1>3
  <2> QED BY <1>2, <2>1
<1>6. ToSet(q) = {h} \union ToSet(r)
  BY <1>1, <1>2 DEF ToSet
<1>7. IsInjective(r)
  BY <1>4 DEF IsInjective
<1>8. h \notin ToSet(r)
  BY <1>5 DEF ToSet
<1> QED BY <1>6, <1>7, <1>8 DEF r, h

LEMMA EmptyQueue == ToSet(<<>>) = {} /\ IsInjective(<<>>)
BY DEF ToSet, IsInjective

WorksFrom(q, acc, ag, sg, q2, j2) ==
  /\ Pipeline(q2, acc, ag, j2, sg)
  /\ \A s, g : WorkedOn(s, g, q2, ag, j2) <=> (s \in ToSet(q) /\ ag = g)

LEMMA TakesNext ==
  ASSUME NEW q \in Seq(Segments), NEW acc, acc \subseteq Segments, NEW ag \in Nat, NEW sg \in Nat,
         ag <= sg, q # <<>> => ag = sg, IsInjective(q), ToSet(q) \subseteq acc,
         NEW q2, NEW j2, Taken(q, ag, q2, j2)
  PROVE  WorksFrom(q, acc, ag, sg, q2, j2)
<1>1. CASE q = <<>>
  <2>1. q2 = <<>> /\ j2 = NoJob
    BY <1>1 DEF Taken
  <2>2. \A s, g : WorkedOn(s, g, q2, ag, j2) <=> (s \in ToSet(q) /\ ag = g)
    BY <1>1, <2>1, EmptyQueue DEF WorkedOn
  <2> QED BY <1>1, <2>1, <2>2, EmptyQueue DEF Pipeline, LoopFits, WorksFrom
<1>2. CASE q # <<>>
  <2> DEFINE h == Head(q)
  <2>1. /\ q2 = Tail(q) /\ j2 = [segment |-> h, generation |-> ag, step |-> "translate"]
        /\ ag = sg
    BY <1>2 DEF Taken
  <2>2. q2 \in Seq(Segments) /\ h \in Segments
    BY <1>2, <2>1
  <2>3. /\ IsInjective(q2) /\ ToSet(q) = {h} \union ToSet(q2) /\ h \notin ToSet(q2)
    BY <1>2, <2>1, HeadAndTail
  <2> HIDE DEF h
  <2>4. /\ j2 \in Jobs /\ j2.segment = h /\ j2.generation = ag /\ j2.step = "translate"
    BY <2>1, <2>2 DEF Jobs
  <2>5. j2 # NoJob
    BY <2>4 DEF NoJob
  <2>6. LoopFits(q2, acc, ag, j2, sg)
    BY <2>1, <2>3, <2>4, <2>5 DEF LoopFits
  <2>7. Pipeline(q2, acc, ag, j2, sg)
    BY <2>2, <2>4, <2>6 DEF Pipeline
  <2>8. \A s, g : WorkedOn(s, g, q2, ag, j2) <=> (s \in ToSet(q) /\ ag = g)
    BY <2>3, <2>4, <2>5 DEF WorkedOn
  <2> QED BY <2>7, <2>8 DEF WorksFrom
<1> QED BY <1>1, <1>2

LEMMA WorkMoves ==
  ASSUME NEW pg, NEW x, x.generation = pg.generation, x.mode = pg.mode, x.known = pg.known,
         x.sent = pg.sent, x.texts = pg.texts, x.audio = pg.audio, x.toServer = pg.toServer,
         pg.excused \subseteq x.excused,
         NEW q, NEW acc, NEW ag, NEW j, NEW sg, NEW sm, NEW back, NEW dec,
         Remembered(pg, q, acc, ag, j, sg, sm, back, dec),
         NEW q2, NEW j2, NEW b2,
         Answered(b2, pg.generation, pg.sent, sg),
         \A i \in DOMAIN back : i \in DOMAIN b2 /\ b2[i] = back[i],
         \A s \in x.sent \ x.excused :
           /\ WorkedOn(s, pg.generation, q2, ag, j2) => WorkedOn(s, pg.generation, q, ag, j)
           /\ WorkedOn(s, pg.generation, q, ag, j) =>
                \/ WorkedOn(s, pg.generation, q2, ag, j2)
                \/ \E i \in DOMAIN b2 : AnswerTo(b2[i], pg.generation, s)
           /\ \A i \in DOMAIN b2 : i \in DOMAIN back \/
                (AnswerTo(b2[i], pg.generation, s) /\ ~b2[i].voice => pg.mode = "subtitle_only")
  PROVE  Remembered(x, q2, acc, ag, j2, sg, sm, b2, dec)
<1> DEFINE g == pg.generation
           out == pg.toServer
<1>1. \A s : IsComplete(x, s) <=> IsComplete(pg, s)
  BY DEF IsComplete
<1>2. ASSUME NEW s \in x.sent \ x.excused
      PROVE  /\ AskedInMode(s, out, g, q2, ag, j2, b2, pg.mode)
             /\ IsComplete(x, s) \/ Coming(s, out, g, q2, ag, j2, b2, dec)
  <2>1. /\ AskedInMode(s, out, g, q, ag, j, back, pg.mode)
        /\ IsComplete(pg, s) \/ Coming(s, out, g, q, ag, j, back, dec)
    BY DEF Remembered
  <2>2. WorkedOn(s, g, q2, ag, j2) => WorkedOn(s, g, q, ag, j)
    OBVIOUS
  <2>3. \A i \in DOMAIN b2 : AnswerTo(b2[i], g, s) /\ ~b2[i].voice => pg.mode = "subtitle_only"
    BY <2>1 DEF AskedInMode
  <2>4. AskedInMode(s, out, g, q2, ag, j2, b2, pg.mode)
    BY <2>1, <2>2, <2>3 DEF AskedInMode
  <2>5. Coming(s, out, g, q, ag, j, back, dec) => Coming(s, out, g, q2, ag, j2, b2, dec)
    <3>1. WorkedOn(s, g, q, ag, j) =>
            WorkedOn(s, g, q2, ag, j2) \/ \E i \in DOMAIN b2 : AnswerTo(b2[i], g, s)
      OBVIOUS
    <3>2. (\E i \in DOMAIN back : AnswerTo(back[i], g, s)) =>
            \E i \in DOMAIN b2 : AnswerTo(b2[i], g, s)
      OBVIOUS
    <3> QED BY <3>1, <3>2 DEF Coming
  <2> QED BY <1>1, <2>1, <2>4, <2>5
<1> QED BY <1>2 DEF Remembered

LEMMA RequestTaken ==
  ASSUME NEW pg, NEW x, x.generation = pg.generation, x.mode = pg.mode, x.known = pg.known,
         x.sent = pg.sent, x.texts = pg.texts, x.audio = pg.audio,
         pg.excused \subseteq x.excused, Shorter(pg.toServer, x.toServer),
         NEW q, NEW acc, NEW ag, NEW j, NEW sg \in Nat, NEW sm, NEW back, NEW dec,
         back \in Seq(Answers), pg.generation \in Nat,
         Remembered(pg, q, acc, ag, j, sg, sm, back, dec),
         NEW q2, NEW acc2, NEW ag2, NEW j2, NEW sg2 \in Nat, NEW sm2,
         sg2 = IF pg.toServer[1].kind = "seek" THEN sg + 1 ELSE sg,
         sm2 = IF pg.toServer[1].kind = "mode" THEN pg.toServer[1].mode ELSE sm,
         AskedOnce(x.toServer, pg.generation, pg.sent, acc2, ag2),
         \A s \in x.sent \ x.excused :
           /\ WorkedOn(s, pg.generation, q2, ag2, j2) => NoMode(x.toServer, 0)
           /\ WorkedOn(s, pg.generation, q, ag, j) => WorkedOn(s, pg.generation, q2, ag2, j2)
           /\ AsksFor(pg.toServer[1], pg.generation, s) =>
                WorkedOn(s, pg.generation, q2, ag2, j2)
  PROVE  Remembered(x, q2, acc2, ag2, j2, sg2, sm2, back, dec)
<1> DEFINE g == pg.generation
           out == pg.toServer
           r == x.toServer
<1>1. \A s : IsComplete(x, s) <=> IsComplete(pg, s)
  BY DEF IsComplete
<1>2. /\ Counted(out, sg, g) /\ ModeFollows(out, pg.mode, sm) /\ Shorter(out, r)
      /\ Answered(back, g, pg.sent, sg) /\ x.sent \subseteq x.known /\ dec \subseteq x.texts
  BY DEF Remembered
<1>3. /\ \A i \in DOMAIN r : i + 1 \in DOMAIN out /\ r[i] = out[i + 1] /\ i \in 0..Len(r)
      /\ \A i \in DOMAIN out : i = 1 \/ (i - 1 \in DOMAIN r /\ r[i - 1] = out[i])
  <2> HIDE DEF r, out
  <2>1. Shorter(out, r)
    BY <1>2
  <2>2. DOMAIN r = 1..Len(r)
    BY <2>1 DEF Shorter
  <2> QED BY <2>1, <2>2 DEF Shorter
<1>4. \A i \in 0..Len(r) : NoMode(r, i) <=> NoMode(out, i + 1)
  BY <1>2, NoModeShorter
<1>5. Counted(r, sg2, g)
  BY <1>2, CountsShorter
<1>6. ModeFollows(r, x.mode, sm2)
  BY <1>2, ModeShorter
<1>7. Answered(back, g, x.sent, sg2)
  <2> SUFFICES ASSUME NEW i \in DOMAIN back, back[i].kind = "answer"
               PROVE  back[i].generation <= sg2
    BY <1>2 DEF Answered
  <2>1. back[i] \in Answers
    OBVIOUS
  <2> DEFINE h == back[i].generation
  <2>2. h \in Nat /\ h <= sg
    BY <1>2, <2>1 DEF Answers, Answered
  <2> HIDE DEF h
  <2>3. h <= sg2
    BY <2>2
  <2> QED BY <2>3 DEF h
<1>8. ASSUME NEW s \in x.sent \ x.excused
      PROVE  /\ AskedInMode(s, r, g, q2, ag2, j2, back, x.mode)
             /\ IsComplete(x, s) \/ Coming(s, r, g, q2, ag2, j2, back, dec)
  <2>1. /\ AskedInMode(s, out, g, q, ag, j, back, pg.mode)
        /\ IsComplete(pg, s) \/ Coming(s, out, g, q, ag, j, back, dec)
    BY DEF Remembered
  <2>2. /\ WorkedOn(s, g, q2, ag2, j2) => NoMode(r, 0)
        /\ WorkedOn(s, g, q, ag, j) => WorkedOn(s, g, q2, ag2, j2)
        /\ AsksFor(out[1], g, s) => WorkedOn(s, g, q2, ag2, j2)
    OBVIOUS
  <2> HIDE DEF g, out, r
  <2>3. \A i \in DOMAIN r : AsksFor(r[i], g, s) => NoMode(r, i)
    BY <1>3, <1>4, <2>1 DEF AskedInMode
  <2>4. AskedInMode(s, r, g, q2, ag2, j2, back, x.mode)
    BY <2>1, <2>2, <2>3 DEF AskedInMode
  <2>5. Coming(s, out, g, q, ag, j, back, dec) => Coming(s, r, g, q2, ag2, j2, back, dec)
    BY <1>3, <2>2 DEF Coming
  <2> QED BY <1>1, <2>1, <2>4, <2>5
<1>9. AskedOnce(r, g, x.sent, acc2, ag2) /\ x.generation = g
  OBVIOUS
<1> HIDE DEF g, out
<1> QED BY <1>2, <1>5, <1>6, <1>7, <1>8, <1>9 DEF Remembered, r

-----------------------------------------------------------------------------
(* ScriptDubbing: enqueue, and the other messages the pipeline receives.    *)
Admits(q, earlier, segments, e) ==
  /\ e.queue \in Seq(Segments) /\ e.accepted \subseteq Segments
  /\ IsInjective(e.queue) /\ ToSet(e.queue) \subseteq e.accepted
  /\ earlier \subseteq e.accepted /\ e.accepted \subseteq earlier \union ToSet(segments)
  /\ ToSet(q) \subseteq ToSet(e.queue) /\ e.accepted \ earlier \subseteq ToSet(e.queue)
  /\ ToSet(e.queue) \cap earlier \subseteq ToSet(q)

LEMMA LongerInjective ==
  ASSUME NEW q, NEW r, NEW m, Longer(q, r, m), IsInjective(q), m \notin ToSet(q)
  PROVE  IsInjective(r)
<1>1. /\ DOMAIN q = 1..Len(q) /\ r[Len(q) + 1] = m /\ \A i \in DOMAIN q : r[i] = q[i]
      /\ \A i \in DOMAIN r : i \in DOMAIN q \/ i = Len(q) + 1
  BY DEF Longer
<1>2. \A i \in DOMAIN q : r[i] # m
  BY <1>1 DEF ToSet
<1>3. \A i, k \in DOMAIN q : q[i] = q[k] => i = k
  BY DEF IsInjective
<1>4. ASSUME NEW i \in DOMAIN r, NEW k \in DOMAIN r, r[i] = r[k] PROVE i = k
  <2>1. CASE i \in DOMAIN q
    BY <1>1, <1>2, <1>3, <1>4, <2>1
  <2>2. CASE i = Len(q) + 1
    BY <1>1, <1>2, <1>4, <2>2
  <2> QED BY <1>1, <2>1, <2>2
<1> QED BY <1>4 DEF IsInjective

LEMMA EnqueuedAdmits ==
  ASSUME NEW q \in Seq(Segments), NEW earlier, earlier \subseteq Segments,
         IsInjective(q), ToSet(q) \subseteq earlier, NEW segments \in Seq(Segments)
  PROVE  Admits(q, earlier, segments, Enqueued(q, earlier, segments))
<1> DEFINE P == {e \in [queue : Seq(Segments), accepted : SUBSET Segments] :
                   Admits(q, earlier, segments, e)}
<1>1. [queue |-> q, accepted |-> earlier] \in P
  <2> DEFINE e == [queue |-> q, accepted |-> earlier]
  <2>1. e.queue = q /\ e.accepted = earlier
        /\ e \in [queue : Seq(Segments), accepted : SUBSET Segments]
    OBVIOUS
  <2> HIDE DEF e
  <2>2. Admits(q, earlier, segments, e)
    BY <2>1 DEF Admits
  <2> QED BY <2>1, <2>2 DEF e
<1>2. ASSUME NEW e \in P, NEW s \in ToSet(segments), s \notin e.accepted
      PROVE  [queue |-> Append(e.queue, s), accepted |-> e.accepted \union {s}] \in P
  <2> DEFINE a == Append(e.queue, s)
             f == [queue |-> a, accepted |-> e.accepted \union {s}]
  <2>1. s \in Segments /\ Admits(q, earlier, segments, e) /\ e.queue \in Seq(Segments)
    BY DEF ToSet, Admits
  <2>2. s \notin ToSet(e.queue) /\ s \notin earlier
    BY <1>2, <2>1 DEF Admits
  <2>3. a \in Seq(Segments) /\ IsInjective(a) /\ ToSet(a) = ToSet(e.queue) \union {s}
    <3>1. IsInjective(e.queue)
      BY <2>1 DEF Admits
    <3>2. a \in Seq(Segments) /\ ToSet(a) = ToSet(e.queue) \union {s}
      BY <2>1, ToSetLonger
    <3>3. Longer(e.queue, a, s)
      BY <2>1, Lengthens
    <3> HIDE DEF a
    <3>4. IsInjective(a)
      BY <2>2, <3>1, <3>3, LongerInjective
    <3> QED BY <3>2, <3>4
  <2> HIDE DEF a
  <2>4. f.queue = a /\ f.accepted = e.accepted \union {s}
    OBVIOUS
  <2>5. f \in [queue : Seq(Segments), accepted : SUBSET Segments]
    BY <2>1, <2>3 DEF Admits
  <2> HIDE DEF f
  <2>6. Admits(q, earlier, segments, f)
    BY <2>1, <2>2, <2>3, <2>4 DEF Admits
  <2> QED BY <2>5, <2>6 DEF f, a
<1> HIDE DEF P
<1>3. Enqueued(q, earlier, segments) \in P
  BY <1>1, <1>2, EnqueuedKeeps
<1> QED BY <1>3 DEF P

EnqueuesTo(q, acc, ag, j, sg, segments, earlier, q2, acc2, j2) ==
  /\ Pipeline(q2, acc2, sg, j2, sg)
  /\ acc2 \subseteq earlier \union ToSet(segments)
  /\ \A s \in acc2 : s \notin earlier => WorkedOn(s, sg, q2, sg, j2)
  /\ \A s, g : WorkedOn(s, g, q, ag, j) => WorkedOn(s, g, q2, sg, j2)
  /\ \A s, g : WorkedOn(s, g, q2, sg, j2) =>
       WorkedOn(s, g, q, ag, j) \/ (g = sg /\ s \in ToSet(segments))

LEMMA EnqueuesAll ==
  ASSUME NEW q, NEW acc, NEW ag, NEW j, NEW sg, Pipeline(q, acc, ag, j, sg),
         NEW segments \in Seq(Segments), NEW old, old = IF ag # sg THEN <<>> ELSE q,
         NEW earlier, earlier = IF ag # sg THEN {} ELSE acc,
         NEW e, e = Enqueued(old, earlier, segments), NEW q2, NEW j2,
         IF j = NoJob THEN Taken(e.queue, sg, q2, j2) ELSE q2 = e.queue /\ j2 = j
  PROVE  EnqueuesTo(q, acc, ag, j, sg, segments, earlier, q2, e.accepted, j2)
<1>1. /\ q \in Seq(Segments) /\ acc \subseteq Segments /\ ag \in Nat /\ sg \in Nat
      /\ j \in Jobs \union {NoJob} /\ ag <= sg /\ (j # NoJob => j.generation <= ag)
      /\ q # <<>> => j # NoJob /\ ag = sg
      /\ IsInjective(q) /\ ToSet(q) \subseteq acc
      /\ j # NoJob /\ j.generation = sg => j.segment \in acc /\ j.segment \notin ToSet(q)
  BY DEF Pipeline, LoopFits
<1>2. old = q /\ ToSet(q) \subseteq earlier /\ earlier \subseteq Segments
  BY <1>1, EmptyQueue
<1>3. Admits(q, earlier, segments, e)
  BY <1>1, <1>2, EnqueuedAdmits
<1> DEFINE t == e.queue
           a == e.accepted
<1>4. /\ t \in Seq(Segments) /\ a \subseteq Segments /\ IsInjective(t) /\ ToSet(t) \subseteq a
      /\ earlier \subseteq a /\ a \subseteq earlier \union ToSet(segments)
      /\ ToSet(q) \subseteq ToSet(t) /\ a \ earlier \subseteq ToSet(t)
      /\ ToSet(t) \cap earlier \subseteq ToSet(q)
  BY <1>3 DEF Admits
<1> HIDE DEF t, a
<1>5. \A s \in ToSet(t) : (s \in ToSet(q) /\ ag = sg) \/ s \in ToSet(segments)
  BY <1>1, <1>4, EmptyQueue
<1>6. \A s \in ToSet(q) : ag = sg /\ s \in ToSet(t)
  BY <1>1, <1>4, EmptyQueue
<1>7. CASE j = NoJob
  <2>1. Taken(t, sg, q2, j2)
    BY <1>7 DEF t
  <2>2. /\ Pipeline(q2, a, sg, j2, sg)
        /\ \A s, g : WorkedOn(s, g, q2, sg, j2) <=> (s \in ToSet(t) /\ sg = g)
    <3>1. sg \in Nat /\ sg <= sg /\ (t # <<>> => sg = sg)
      BY <1>1
    <3>2. WorksFrom(t, a, sg, sg, q2, j2)
      BY <1>4, <2>1, <3>1, TakesNext
    <3> QED BY <3>2 DEF WorksFrom
  <2>3. \A s \in a : s \notin earlier => WorkedOn(s, sg, q2, sg, j2)
    BY <1>4, <2>2
  <2>4. \A s, g : WorkedOn(s, g, q, ag, j) => WorkedOn(s, g, q2, sg, j2)
    BY <1>6, <1>7, <2>2 DEF WorkedOn
  <2>5. \A s, g : WorkedOn(s, g, q2, sg, j2) =>
          WorkedOn(s, g, q, ag, j) \/ (g = sg /\ s \in ToSet(segments))
    BY <1>5, <2>2 DEF WorkedOn
  <2> QED BY <1>4, <2>2, <2>3, <2>4, <2>5 DEF EnqueuesTo, a
<1>8. CASE j # NoJob
  <2>1. q2 = t /\ j2 = j
    BY <1>8 DEF t
  <2>2. j.generation \in Nat /\ j.generation <= sg
    <3> DEFINE h == j.generation
    <3>1. h \in Nat /\ h <= ag
      BY <1>1, <1>8 DEF Jobs
    <3> HIDE DEF h
    <3>2. h <= sg
      BY <1>1, <3>1
    <3> QED BY <3>1, <3>2 DEF h
  <2>3. j.generation = sg => ag = sg
    <3> DEFINE h == j.generation
    <3>1. h \in Nat /\ h <= ag
      BY <1>1, <1>8, <2>2
    <3> HIDE DEF h
    <3>2. h = sg => ag = sg
      BY <1>1, <3>1
    <3> QED BY <3>2 DEF h
  <2>4. j.generation = sg => j.segment \in a /\ j.segment \notin ToSet(t)
    BY <1>1, <1>4, <1>8, <2>3
  <2>5. LoopFits(q2, a, sg, j2, sg)
    BY <1>1, <1>4, <1>8, <2>1, <2>2, <2>4 DEF LoopFits
  <2>6. Pipeline(q2, a, sg, j2, sg)
    BY <1>1, <1>4, <2>1, <2>5 DEF Pipeline
  <2>7. \A s \in a : s \notin earlier => WorkedOn(s, sg, q2, sg, j2)
    BY <1>4, <2>1 DEF WorkedOn
  <2>8. \A s, g : WorkedOn(s, g, q, ag, j) => WorkedOn(s, g, q2, sg, j2)
    BY <1>6, <2>1 DEF WorkedOn
  <2>9. \A s, g : WorkedOn(s, g, q2, sg, j2) =>
          WorkedOn(s, g, q, ag, j) \/ (g = sg /\ s \in ToSet(segments))
    BY <1>5, <2>1 DEF WorkedOn
  <2> QED BY <1>4, <2>6, <2>7, <2>8, <2>9 DEF EnqueuesTo, a
<1> QED BY <1>7, <1>8

-----------------------------------------------------------------------------
(* ScriptDubbing: the pipeline receives.                                    *)
LEMMA OnceShorter ==
  ASSUME NEW out, NEW r, NEW g, NEW snt, NEW acc, NEW ag,
         AskedOnce(out, g, snt, acc, ag), Shorter(out, r)
  PROVE  AskedOnce(r, g, snt, acc, ag)
<1>1. \A i \in DOMAIN r : i + 1 \in DOMAIN out /\ r[i] = out[i + 1] /\ i \in Nat
  BY DEF Shorter
<1>2. ASSUME NEW s \in Segments, NEW i \in DOMAIN r, AsksFor(r[i], g, s)
      PROVE  /\ s \in snt /\ (ag = g => s \notin acc)
             /\ \A j \in DOMAIN r : AsksFor(r[j], g, s) => j = i
  <2>1. i + 1 \in DOMAIN out /\ AsksFor(out[i + 1], g, s)
    BY <1>1, <1>2
  <2>2. ASSUME NEW j \in DOMAIN r, AsksFor(r[j], g, s) PROVE j = i
    <3>1. j + 1 \in DOMAIN out /\ AsksFor(out[j + 1], g, s)
      BY <1>1, <2>2
    <3>2. j + 1 = i + 1
      BY <2>1, <3>1 DEF AskedOnce
    <3> QED BY <1>1, <3>2
  <2> QED BY <2>1, <2>2 DEF AskedOnce
<1> QED BY <1>2 DEF AskedOnce

SamePage(pg, x) ==
  /\ x.generation = pg.generation /\ x.mode = pg.mode /\ x.known = pg.known
  /\ x.sent = pg.sent /\ x.texts = pg.texts /\ x.audio = pg.audio

LEMMA SeekReceived ==
  ASSUME NEW pg \in Pages, NEW x, SamePage(pg, x), x.excused = pg.excused,
         Shorter(pg.toServer, x.toServer), pg.toServer[1].kind = "seek",
         NEW q, NEW acc, NEW ag, NEW j, NEW sg, NEW sm, NEW back, NEW dec,
         Pipeline(q, acc, ag, j, sg), back \in Seq(Answers),
         Remembered(pg, q, acc, ag, j, sg, sm, back, dec)
  PROVE  /\ Pipeline(<<>>, {}, sg + 1, j, sg + 1)
         /\ Remembered(x, <<>>, {}, sg + 1, j, sg + 1, sm, back, dec)
<1> DEFINE g == pg.generation
           out == pg.toServer
           r == x.toServer
           sg2 == sg + 1
<1>1. g \in Nat /\ sg \in Nat /\ ag \in Nat /\ ag <= sg /\ j \in Jobs \union {NoJob}
  BY DEF Pages, Pipeline, LoopFits
<1>2. sg2 \in Nat /\ sg2 <= sg2 /\ sg2 = sg + 1
  BY <1>1
<1>3. j # NoJob => j.generation <= sg2 /\ j.generation # sg2
  <2> SUFFICES ASSUME j # NoJob PROVE j.generation <= sg2 /\ j.generation # sg2
    OBVIOUS
  <2> DEFINE h == j.generation
  <2>1. h \in Nat /\ h <= ag
    BY <1>1 DEF Pipeline, LoopFits, Jobs
  <2> HIDE DEF h
  <2>2. h <= sg2 /\ h # sg2
    BY <1>1, <2>1
  <2> QED BY <2>2 DEF h
<1>4. Pipeline(<<>>, {}, sg2, j, sg2)
  <2> HIDE DEF sg2
  <2>1. LoopFits(<<>>, {}, sg2, j, sg2)
    BY <1>2, <1>3, EmptyQueue DEF LoopFits
  <2> QED BY <1>1, <1>2, <2>1 DEF Pipeline
<1>5. /\ Counted(out, sg, g) /\ AskedOnce(out, g, pg.sent, acc, ag) /\ Shorter(out, r)
  BY DEF Remembered
<1>6. /\ sg <= g /\ (sg = g => \A i \in DOMAIN out : out[i].kind # "seek")
  BY <1>1, <1>5, RequestsAgree
<1>7. sg # g
  <2>1. 1 \in DOMAIN out
    BY <1>5 DEF Shorter
  <2> QED BY <1>6, <2>1
<1>8. AskedOnce(r, g, pg.sent, {}, sg2)
  <2>1. AskedOnce(r, g, pg.sent, acc, ag)
    BY <1>5, OnceShorter
  <2> QED BY <2>1 DEF AskedOnce
<1>9. \A s : ~WorkedOn(s, g, q, ag, j)
  BY <1>1, <1>5, <1>6, <1>7, WorkIsSent
<1>10. \A s : ~WorkedOn(s, g, <<>>, sg2, j) /\ ~AsksFor(out[1], g, s)
  BY <1>9, EmptyQueue DEF WorkedOn, AsksFor
<1>11. sm = IF out[1].kind = "mode" THEN out[1].mode ELSE sm
  OBVIOUS
<1>12. sg2 = IF out[1].kind = "seek" THEN sg + 1 ELSE sg
  OBVIOUS
<1>13. x.generation = g /\ x.mode = pg.mode /\ x.known = pg.known
       /\ x.sent = pg.sent /\ x.texts = pg.texts /\ x.audio = pg.audio
       /\ pg.excused \subseteq x.excused
  BY DEF SamePage
<1> HIDE DEF sg2
<1>14. Remembered(x, <<>>, {}, sg2, j, sg2, sm, back, dec)
  <2>1. /\ pg.generation \in Nat /\ sg \in Nat /\ sg2 \in Nat /\ back \in Seq(Answers)
        /\ Shorter(pg.toServer, x.toServer)
        /\ Remembered(pg, q, acc, ag, j, sg, sm, back, dec)
        /\ AskedOnce(x.toServer, pg.generation, pg.sent, {}, sg2)
    BY <1>1, <1>2, <1>5, <1>8
  <2>2. \A s \in x.sent \ x.excused :
          /\ WorkedOn(s, pg.generation, <<>>, sg2, j) => NoMode(x.toServer, 0)
          /\ WorkedOn(s, pg.generation, q, ag, j) => WorkedOn(s, pg.generation, <<>>, sg2, j)
          /\ AsksFor(pg.toServer[1], pg.generation, s) =>
               WorkedOn(s, pg.generation, <<>>, sg2, j)
    BY <1>9, <1>10
  <2> QED BY ONLY <1>11, <1>12, <1>13, <2>1, <2>2, RequestTaken, ZenonT(30)
<1> QED BY <1>4, <1>14 DEF sg2

LEMMA OtherReceived ==
  ASSUME NEW pg \in Pages, NEW x, SamePage(pg, x), x.excused = pg.excused,
         Shorter(pg.toServer, x.toServer), pg.toServer[1].kind \in {"mode", "words"},
         NEW q, NEW acc, NEW ag, NEW j, NEW sg \in Nat, NEW sm, NEW back, NEW dec,
         back \in Seq(Answers), Remembered(pg, q, acc, ag, j, sg, sm, back, dec),
         NEW sm2, sm2 = IF pg.toServer[1].kind = "mode" THEN pg.toServer[1].mode ELSE sm
  PROVE  Remembered(x, q, acc, ag, j, sg, sm2, back, dec)
<1> DEFINE g == pg.generation
           out == pg.toServer
           r == x.toServer
<1>1. g \in Nat /\ Shorter(out, r)
  BY DEF Pages
<1>2. AskedOnce(r, g, pg.sent, acc, ag)
  BY <1>1, OnceShorter DEF Remembered
<1>3. \A s \in x.sent \ x.excused : WorkedOn(s, g, q, ag, j) => NoMode(r, 0)
  <2>1. NoMode(out, 0) => NoMode(r, 0)
    BY <1>1, NoModeShorter
  <2> QED BY <2>1 DEF Remembered, AskedInMode, SamePage
<1>4. \A s : ~AsksFor(out[1], g, s)
  BY DEF AsksFor
<1>5. sg = IF out[1].kind = "seek" THEN sg + 1 ELSE sg
  OBVIOUS
<1>6. x.generation = g /\ x.mode = pg.mode /\ x.known = pg.known
       /\ x.sent = pg.sent /\ x.texts = pg.texts /\ x.audio = pg.audio
       /\ pg.excused \subseteq x.excused
  BY DEF SamePage
<1>7. /\ pg.generation \in Nat /\ sg \in Nat /\ back \in Seq(Answers)
      /\ Shorter(pg.toServer, x.toServer)
      /\ Remembered(pg, q, acc, ag, j, sg, sm, back, dec)
      /\ AskedOnce(x.toServer, pg.generation, pg.sent, acc, ag)
      /\ sm2 = IF pg.toServer[1].kind = "mode" THEN pg.toServer[1].mode ELSE sm
  BY <1>1, <1>2
<1>8. \A s \in x.sent \ x.excused :
        /\ WorkedOn(s, pg.generation, q, ag, j) => NoMode(x.toServer, 0)
        /\ WorkedOn(s, pg.generation, q, ag, j) => WorkedOn(s, pg.generation, q, ag, j)
        /\ AsksFor(pg.toServer[1], pg.generation, s) => WorkedOn(s, pg.generation, q, ag, j)
  BY <1>3, <1>4
<1> QED BY ONLY <1>5, <1>6, <1>7, <1>8, RequestTaken

EnqueueGives(segments, q, acc, ag, j, sg, acc2, q2, j2) ==
  LET e == Enqueued(IF ag # sg THEN <<>> ELSE q, IF ag # sg THEN {} ELSE acc, segments)
  IN /\ acc2 = e.accepted
     /\ IF j = NoJob THEN Taken(e.queue, sg, q2, j2) ELSE q2 = e.queue /\ j2 = j

Receives(x, q2, acc2, j2, sg, sm, back, dec) ==
  Pipeline(q2, acc2, sg, j2, sg) /\ Remembered(x, q2, acc2, sg, j2, sg, sm, back, dec)

LEMMA SegmentsReceived ==
  ASSUME NEW pg \in Pages, NEW x, SamePage(pg, x), NEW m, m = pg.toServer[1],
         Shorter(pg.toServer, x.toServer), m.kind = "segments", m.segments \in Seq(Segments),
         NEW q, NEW acc, NEW ag, NEW j, NEW sg, NEW sm, NEW back, NEW dec,
         Pipeline(q, acc, ag, j, sg), back \in Seq(Answers),
         Remembered(pg, q, acc, ag, j, sg, sm, back, dec),
         NEW acc2, NEW q2, NEW j2, EnqueueGives(m.segments, q, acc, ag, j, sg, acc2, q2, j2),
         x.excused = pg.excused \union (ToSet(m.segments) \ acc2)
  PROVE  Receives(x, q2, acc2, j2, sg, sm, back, dec)
<1> DEFINE g == pg.generation
           out == pg.toServer
           r == x.toServer
           old == IF ag # sg THEN <<>> ELSE q
           earlier == IF ag # sg THEN {} ELSE acc
           e == Enqueued(old, earlier, m.segments)
           asked == ToSet(m.segments)
<1>0. acc2 = e.accepted /\ IF j = NoJob THEN Taken(e.queue, sg, q2, j2) ELSE q2 = e.queue /\ j2 = j
  BY DEF EnqueueGives
<1>1. g \in Nat /\ sg \in Nat /\ ag \in Nat /\ Shorter(out, r) /\ asked \subseteq Segments
  BY DEF Pages, Pipeline, ToSet
<1>2. Counted(out, sg, g) /\ AskedOnce(out, g, pg.sent, acc, ag)
  BY DEF Remembered
<1>3. m.generation = sg
  <2>1. sg = IF out[1].kind = "seek" THEN sg + 1 ELSE sg
    OBVIOUS
  <2> QED BY <1>1, <1>2, <2>1, CountsShorter
<1>4. /\ Pipeline(q2, acc2, sg, j2, sg)
      /\ acc2 \subseteq earlier \union asked
      /\ \A s \in acc2 : s \notin earlier => WorkedOn(s, sg, q2, sg, j2)
      /\ \A s, h : WorkedOn(s, h, q, ag, j) => WorkedOn(s, h, q2, sg, j2)
      /\ \A s, h : WorkedOn(s, h, q2, sg, j2) =>
           WorkedOn(s, h, q, ag, j) \/ (h = sg /\ s \in asked)
  <2>1. /\ old = IF ag # sg THEN <<>> ELSE q
        /\ earlier = IF ag # sg THEN {} ELSE acc
        /\ e = Enqueued(old, earlier, m.segments)
    OBVIOUS
  <2> HIDE DEF old, earlier, e
  <2>2. EnqueuesTo(q, acc, ag, j, sg, m.segments, earlier, q2, e.accepted, j2)
    BY <1>0, <2>1, EnqueuesAll
  <2> QED BY <1>0, <2>2 DEF EnqueuesTo
<1>5. \A s : AsksFor(out[1], g, s) <=> (sg = g /\ s \in asked)
  BY <1>3 DEF AsksFor
<1> HIDE DEF asked, g, out, r
<1>6. AskedOnce(r, g, pg.sent, acc, ag)
  BY <1>1, <1>2, OnceShorter
<1>7. 1 \in DOMAIN out
  BY <1>1 DEF Shorter
<1>8. sg = g => \A s \in asked :
        /\ s \in pg.sent /\ s \notin earlier
        /\ \A i \in DOMAIN r : ~AsksFor(r[i], g, s)
  <2> SUFFICES ASSUME sg = g, NEW s \in asked
               PROVE  /\ s \in pg.sent /\ s \notin earlier
                      /\ \A i \in DOMAIN r : ~AsksFor(r[i], g, s)
    OBVIOUS
  <2>1. AsksFor(out[1], g, s) /\ s \in Segments
    BY <1>1, <1>5
  <2>2. s \in pg.sent /\ s \notin earlier
    BY <1>2, <1>7, <2>1 DEF AskedOnce
  <2>3. ASSUME NEW i \in DOMAIN r PROVE ~AsksFor(r[i], g, s)
    <3>1. i + 1 \in DOMAIN out /\ r[i] = out[i + 1] /\ i \in Nat /\ i >= 1
      BY <1>1 DEF Shorter
    <3>2. i + 1 # 1
      BY <3>1
    <3> QED BY <1>2, <1>7, <2>1, <3>1, <3>2 DEF AskedOnce
  <2> QED BY <2>2, <2>3
<1>9. earlier = {} \/ (ag = sg /\ earlier = acc)
  OBVIOUS
<1>10. AskedOnce(r, g, pg.sent, acc2, sg)
  <2>1. sg = g => acc2 \subseteq pg.sent
    BY <1>2, <1>4, <1>8, <1>9 DEF AskedOnce
  <2>2. ASSUME NEW s \in Segments, NEW i \in DOMAIN r, AsksFor(r[i], g, s)
        PROVE  sg = g => s \notin acc2
    BY <1>4, <1>6, <1>8, <1>9, <2>2 DEF AskedOnce
  <2> QED BY <1>6, <2>1, <2>2 DEF AskedOnce
<1>11. ASSUME NEW s \in x.sent \ x.excused
       PROVE  /\ WorkedOn(s, g, q2, sg, j2) => NoMode(r, 0)
              /\ WorkedOn(s, g, q, ag, j) => WorkedOn(s, g, q2, sg, j2)
              /\ AsksFor(out[1], g, s) => WorkedOn(s, g, q2, sg, j2)
  <2>1. s \in pg.sent \ pg.excused /\ (s \in asked => s \in acc2)
    BY DEF SamePage, asked
  <2>2. AskedInMode(s, out, g, q, ag, j, back, pg.mode)
    BY <2>1 DEF Remembered, g, out
  <2>3. WorkedOn(s, g, q, ag, j) \/ AsksFor(out[1], g, s) => NoMode(r, 0)
    <3>1. out[1].kind # "mode"
      BY DEF out
    <3>2. NoMode(out, 0) => NoMode(r, 0)
      BY <1>1, NoModeShorter
    <3>3. NoMode(out, 1) => NoMode(r, 0)
      <4>1. 0 \in 0..Len(r) /\ 0 + 1 = 1
        BY <1>1 DEF Shorter
      <4> QED BY <1>1, <4>1, NoModeShorter
    <3> QED BY <1>7, <2>2, <3>2, <3>3 DEF AskedInMode
  <2>4. WorkedOn(s, g, q2, sg, j2) => WorkedOn(s, g, q, ag, j) \/ AsksFor(out[1], g, s)
    BY <1>4, <1>5
  <2>5. AsksFor(out[1], g, s) => WorkedOn(s, g, q2, sg, j2)
    BY <1>4, <1>5, <1>8, <2>1
  <2> QED BY <1>4, <2>3, <2>4, <2>5
<1>12. sm = IF out[1].kind = "mode" THEN out[1].mode ELSE sm
  BY DEF out
<1>13. sg = IF out[1].kind = "seek" THEN sg + 1 ELSE sg
  BY DEF out
<1>14. x.generation = pg.generation /\ x.mode = pg.mode /\ x.known = pg.known
       /\ x.sent = pg.sent /\ x.texts = pg.texts /\ x.audio = pg.audio
       /\ pg.excused \subseteq x.excused
  BY DEF SamePage
<1> USE DEF g, out, r
<1>15. /\ pg.generation \in Nat /\ sg \in Nat /\ Shorter(pg.toServer, x.toServer)
       /\ back \in Seq(Answers) /\ Remembered(pg, q, acc, ag, j, sg, sm, back, dec)
  BY <1>1
<1>16. \A s \in x.sent \ x.excused :
         /\ WorkedOn(s, pg.generation, q2, sg, j2) => NoMode(x.toServer, 0)
         /\ WorkedOn(s, pg.generation, q, ag, j) => WorkedOn(s, pg.generation, q2, sg, j2)
         /\ AsksFor(pg.toServer[1], pg.generation, s) =>
              WorkedOn(s, pg.generation, q2, sg, j2)
  BY <1>11
<1>17. Remembered(x, q2, acc2, sg, j2, sg, sm, back, dec)
  BY ONLY <1>10, <1>12, <1>13, <1>14, <1>15, <1>16, RequestTaken
<1> QED BY <1>4, <1>17 DEF Receives

-----------------------------------------------------------------------------
(* ScriptDubbing: a sentence is done with.                                  *)
LEMMA TakesAfter ==
  ASSUME NEW q, NEW acc, NEW ag, NEW j, NEW sg, Pipeline(q, acc, ag, j, sg),
         NEW q2, NEW j2, Taken(q, ag, q2, j2)
  PROVE  /\ Pipeline(q2, acc, ag, j2, sg)
         /\ \A s, g : WorkedOn(s, g, q2, ag, j2) <=> (s \in ToSet(q) /\ ag = g)
<1>1. /\ q \in Seq(Segments) /\ acc \subseteq Segments /\ ag \in Nat /\ sg \in Nat /\ ag <= sg
      /\ (q # <<>> => ag = sg) /\ IsInjective(q) /\ ToSet(q) \subseteq acc
  BY DEF Pipeline, LoopFits
<1>2. WorksFrom(q, acc, ag, sg, q2, j2)
  BY <1>1, TakesNext
<1> QED BY <1>2 DEF WorksFrom

LEMMA JobLost ==
  ASSUME NEW pg \in Pages, NEW x, SamePage(pg, x), x.toServer = pg.toServer,
         NEW q, NEW acc, NEW ag, NEW j, NEW sg, NEW sm, NEW back, NEW dec,
         Pipeline(q, acc, ag, j, sg), Remembered(pg, q, acc, ag, j, sg, sm, back, dec),
         pg.excused \subseteq x.excused, j.generation # sg \/ j.segment \in x.excused,
         NEW q2, NEW j2, Taken(q, ag, q2, j2)
  PROVE  Pipeline(q2, acc, ag, j2, sg) /\ Remembered(x, q2, acc, ag, j2, sg, sm, back, dec)
<1> DEFINE g == pg.generation
           out == pg.toServer
<1>1. /\ Pipeline(q2, acc, ag, j2, sg)
      /\ \A s, h : WorkedOn(s, h, q2, ag, j2) <=> (s \in ToSet(q) /\ ag = h)
  BY TakesAfter
<1>2. /\ g \in Nat /\ sg \in Nat /\ Counted(out, sg, g) /\ AskedOnce(out, g, pg.sent, acc, ag)
      /\ Answered(back, g, pg.sent, sg)
  BY DEF Pages, Pipeline, Remembered
<1>3. sg <= g
  BY <1>2, RequestsAgree
<1>4. \A s : WorkedOn(s, g, q, ag, j) => sg = g
  BY <1>2, <1>3, WorkIsSent
<1>5. \A s \in x.sent \ x.excused :
        /\ WorkedOn(s, g, q2, ag, j2) => WorkedOn(s, g, q, ag, j)
        /\ WorkedOn(s, g, q, ag, j) => WorkedOn(s, g, q2, ag, j2)
  BY <1>1, <1>4 DEF WorkedOn
<1>6. /\ x.generation = pg.generation /\ x.mode = pg.mode /\ x.known = pg.known
      /\ x.sent = pg.sent /\ x.texts = pg.texts /\ x.audio = pg.audio
  BY DEF SamePage
<1>7. Remembered(x, q2, acc, ag, j2, sg, sm, back, dec)
  BY <1>2, <1>5, <1>6, WorkMoves
<1> QED BY <1>1, <1>7

LEMMA JobAnswered ==
  ASSUME NEW pg \in Pages, NEW x, SamePage(pg, x), x.toServer = pg.toServer,
         NEW q, NEW acc, NEW ag, NEW j, NEW sg, NEW sm, NEW back, NEW dec,
         Pipeline(q, acc, ag, j, sg), Remembered(pg, q, acc, ag, j, sg, sm, back, dec),
         pg.excused \subseteq x.excused, j # NoJob, j.generation = sg,
         NEW q2, NEW j2, Taken(q, ag, q2, j2),
         NEW a, NEW b2, Longer(back, b2, a), AnswerTo(a, sg, j.segment),
         a.voice \/ sm = "subtitle_only" \/ j.segment \in x.excused
  PROVE  Pipeline(q2, acc, ag, j2, sg) /\ Remembered(x, q2, acc, ag, j2, sg, sm, b2, dec)
<1> DEFINE g == pg.generation
           out == pg.toServer
<1>1. /\ Pipeline(q2, acc, ag, j2, sg)
      /\ \A s, h : WorkedOn(s, h, q2, ag, j2) <=> (s \in ToSet(q) /\ ag = h)
  BY TakesAfter
<1>2. /\ g \in Nat /\ sg \in Nat /\ Counted(out, sg, g) /\ AskedOnce(out, g, pg.sent, acc, ag)
      /\ Answered(back, g, pg.sent, sg) /\ ModeFollows(out, pg.mode, sm)
  BY DEF Pages, Pipeline, Remembered
<1>3. sg <= g
  BY <1>2, RequestsAgree
<1>4. sg = g => WorkedOn(j.segment, g, q, ag, j)
  BY DEF WorkedOn
<1>5. sg = g => j.segment \in pg.sent
  BY <1>2, <1>3, <1>4, WorkIsSent
<1>6. /\ DOMAIN back = 1..Len(back) /\ b2[Len(back) + 1] = a
      /\ \A i \in DOMAIN back : i \in DOMAIN b2 /\ b2[i] = back[i]
      /\ \A i \in DOMAIN b2 : i \in DOMAIN back \/ i = Len(back) + 1
      /\ Len(back) + 1 \in DOMAIN b2
  BY DEF Longer
<1>7. a.kind = "answer" /\ a.generation = sg /\ a.segment = j.segment /\ sg <= sg
  BY <1>2 DEF AnswerTo
<1>8. Answered(b2, g, pg.sent, sg)
  <2> SUFFICES ASSUME NEW i \in DOMAIN b2, b2[i].kind = "answer"
               PROVE  b2[i].generation <= sg
                        /\ (b2[i].generation = g => b2[i].segment \in pg.sent)
    BY DEF Answered
  <2>1. CASE i \in DOMAIN back
    BY <1>2, <1>6, <2>1 DEF Answered
  <2>2. CASE i = Len(back) + 1
    <3>1. b2[i] = a
      BY <1>6, <2>2
    <3> QED BY <1>5, <1>7, <3>1
  <2> QED BY <1>6, <2>1, <2>2
<1>9. ASSUME NEW s \in x.sent \ x.excused
      PROVE  /\ WorkedOn(s, g, q2, ag, j2) => WorkedOn(s, g, q, ag, j)
             /\ WorkedOn(s, g, q, ag, j) =>
                  \/ WorkedOn(s, g, q2, ag, j2)
                  \/ \E i \in DOMAIN b2 : AnswerTo(b2[i], g, s)
             /\ \A i \in DOMAIN b2 : i \in DOMAIN back \/
                  (AnswerTo(b2[i], g, s) /\ ~b2[i].voice => pg.mode = "subtitle_only")
  <2>1. WorkedOn(s, g, q2, ag, j2) => WorkedOn(s, g, q, ag, j)
    BY <1>1 DEF WorkedOn
  <2>2. ASSUME WorkedOn(s, g, q, ag, j), ~WorkedOn(s, g, q2, ag, j2)
        PROVE  \E i \in DOMAIN b2 : AnswerTo(b2[i], g, s)
    <3>1. s = j.segment /\ j.generation = g
      BY <1>1, <2>2 DEF WorkedOn
    <3>2. AnswerTo(b2[Len(back) + 1], g, s)
      BY <1>6, <3>1
    <3> QED BY <1>6, <3>2
  <2>3. ASSUME AnswerTo(a, g, s), ~a.voice PROVE pg.mode = "subtitle_only"
    <3>1. s = j.segment /\ sg = g
      BY <1>7, <2>3 DEF AnswerTo
    <3>2. sm = "subtitle_only"
      BY <2>3, <3>1
    <3>3. s \in pg.sent \ pg.excused
      BY DEF SamePage
    <3>4. AskedInMode(s, out, g, q, ag, j, back, pg.mode)
      BY <3>3 DEF Remembered
    <3>5. NoMode(out, 0)
      BY <1>4, <3>1, <3>4 DEF AskedInMode
    <3> QED BY <1>2, <3>2, <3>5 DEF ModeFollows
  <2>4. \A i \in DOMAIN b2 : i \in DOMAIN back \/
          (AnswerTo(b2[i], g, s) /\ ~b2[i].voice => pg.mode = "subtitle_only")
    BY <1>6, <2>3
  <2> QED BY <2>1, <2>2, <2>4
<1>10. /\ x.generation = pg.generation /\ x.mode = pg.mode /\ x.known = pg.known
       /\ x.sent = pg.sent /\ x.texts = pg.texts /\ x.audio = pg.audio
  BY DEF SamePage
<1>11. \A i \in DOMAIN back : i \in DOMAIN b2 /\ b2[i] = back[i]
  BY <1>6
<1>12. Remembered(x, q2, acc, ag, j2, sg, sm, b2, dec)
  BY <1>8, <1>9, <1>10, <1>11, WorkMoves
<1> QED BY <1>1, <1>12

LEMMA JobSpeaks ==
  ASSUME NEW pg, NEW q, NEW acc, NEW ag, NEW j, NEW sg, NEW sm, NEW back, NEW dec,
         Pipeline(q, acc, ag, j, sg), Remembered(pg, q, acc, ag, j, sg, sm, back, dec),
         j # NoJob, NEW j2, j2 = [j EXCEPT !.step = "speak"]
  PROVE  Pipeline(q, acc, ag, j2, sg) /\ Remembered(pg, q, acc, ag, j2, sg, sm, back, dec)
<1>1. j \in Jobs
  BY DEF Pipeline
<1>2. j2 \in Jobs /\ j2.segment = j.segment /\ j2.generation = j.generation /\ j2.step = "speak"
  BY <1>1 DEF Jobs
<1>3. j2 # NoJob
  BY <1>2 DEF NoJob
<1>4. LoopFits(q, acc, ag, j2, sg)
  BY <1>2, <1>3 DEF Pipeline, LoopFits
<1>5. Pipeline(q, acc, ag, j2, sg)
  BY <1>2, <1>4 DEF Pipeline
<1>6. \A s, g : WorkedOn(s, g, q, ag, j2) <=> WorkedOn(s, g, q, ag, j)
  BY <1>2, <1>3 DEF WorkedOn
<1>7. Remembered(pg, q, acc, ag, j2, sg, sm, back, dec)
  BY <1>6 DEF Remembered, AskedInMode, Coming
<1> QED BY <1>5, <1>7

-----------------------------------------------------------------------------
(* ScriptDubbing: the invariant, and the steps of the page.                 *)
PageRemembers(pg, back, dec) ==
  Remembered(pg, queue, accepted, acceptedGeneration, job, serverGeneration, serverMode, back,
             dec)

PipelineFits == Pipeline(queue, accepted, acceptedGeneration, job, serverGeneration)

ScriptInv ==
  /\ Page \in Pages
  /\ remaining \in Seq(SUBSET Segments) /\ awaited \subseteq Segments
  /\ punctuating \subseteq SUBSET Segments /\ decoding \subseteq Segments
  /\ toPage \in Seq(Answers) /\ serverMode \in Modes
  /\ PipelineFits /\ InPlace(Page) /\ PageRemembers(Page, toPage, decoding)

LEMMA PageIs ==
  ASSUME NEW x \in Pages, PageBecomes(x)
  PROVE  Page' = x
BY DEF Page, Pages, PageBecomes

LEMMA PageFields ==
  /\ Page.at = at /\ Page.paused = paused /\ Page.seeking = seeking
  /\ Page.generation = generation /\ Page.mode = mode /\ Page.known = known
  /\ Page.sent = sent /\ Page.texts = texts /\ Page.audio = audio
  /\ Page.handled = handled /\ Page.interrupted = interrupted /\ Page.voices = voices
  /\ Page.lastVoiceEnd = lastVoiceEnd /\ Page.playing = playing /\ Page.timers = timers
  /\ Page.toServer = toServer /\ Page.excused = excused
BY DEF Page

LEMMA PageStep ==
  ASSUME ScriptInv, NEW x \in Pages, PageBecomes(x), InPlace(x), UNCHANGED server,
         remaining' \in Seq(SUBSET Segments), awaited' \subseteq Segments,
         punctuating' \subseteq SUBSET Segments, decoding' \subseteq Segments,
         toPage' \in Seq(Answers), PageRemembers(x, toPage', decoding')
  PROVE  ScriptInv'
<1>1. Page' = x
  BY PageIs
<1>2. /\ serverGeneration' = serverGeneration /\ serverMode' = serverMode /\ queue' = queue
      /\ accepted' = accepted /\ acceptedGeneration' = acceptedGeneration /\ job' = job
  BY DEF server
<1>3. PipelineFits' /\ serverMode' \in Modes
  BY <1>2 DEF ScriptInv, PipelineFits
<1>4. PageRemembers(Page, toPage, decoding)'
  BY <1>1, <1>2 DEF PageRemembers
<1>5. InPlace(Page)'
  BY <1>1
<1> QED BY <1>1, <1>3, <1>4, <1>5 DEF ScriptInv

LEMMA SilentInPlace ==
  ASSUME NEW x \in Pages, x.playing = <<>>
  PROVE  InPlace(x)
BY DEF InPlace, InTurn, EndsBy, NotAhead

LEMMA Silences ==
  ASSUME NEW pg \in Pages
  PROVE  LET x == Silenced(pg)
         IN /\ x \in Pages /\ x.playing = <<>> /\ KeepsRest(pg, x)
            /\ x.handled = pg.handled /\ x.interrupted = pg.interrupted
<1> DEFINE x == [pg EXCEPT !.playing = <<>>, !.voices = <<>>, !.lastVoiceEnd = 0, !.timers = {}]
<1>1. <<>> \in Seq(Sources) /\ <<>> \in Seq(ScriptVoices) /\ {} \in SUBSET ScriptVoices
  OBVIOUS
<1>2. x \in Pages
  BY <1>1 DEF Pages
<1>3. x.playing = <<>> /\ KeepsRest(pg, x) /\ x.handled = pg.handled
      /\ x.interrupted = pg.interrupted
  BY DEF Pages, KeepsRest
<1> QED BY <1>2, <1>3 DEF Silenced

LEMMA TickRemembers ==
  ASSUME NEW pg \in Pages, InPlace(pg), PipelineFits, NEW back, NEW dec,
         PageRemembers(pg, back, dec)
  PROVE  LET x == TickOf(pg) IN x \in Pages /\ InPlace(x) /\ PageRemembers(x, back, dec)
BY Ticks DEF PipelineFits, PageRemembers

LEMMA PlayerTicksStep == ASSUME ScriptInv, PlayerTicks PROVE ScriptInv'
<1> DEFINE x == TickOf(Page)
<1>1. x \in Pages /\ InPlace(x) /\ PageRemembers(x, toPage, decoding)
  BY TickRemembers DEF ScriptInv
<1>2. PageBecomes(x) /\ UNCHANGED <<remaining, awaited, punctuating, decoding, toPage, server>>
  BY DEF PlayerTicks, chunks
<1> HIDE DEF x
<1> QED BY <1>1, <1>2, PageStep DEF ScriptInv

LEMMA PauseStep == ASSUME ScriptInv, Pause PROVE ScriptInv'
<1> DEFINE cut == {v.segment : v \in {y \in ToSet(voices) : y.left > 0}}
           z == Silenced(Page)
           x == [z EXCEPT !.paused = TRUE, !.handled = @ \ cut,
                          !.interrupted = @ \union cut]
<1>1. PageBecomes(x) /\ UNCHANGED <<remaining, awaited, punctuating, decoding, toPage, server>>
  BY DEF Pause, chunks
<1>2. cut \subseteq Segments
  <2>1. voices \in Seq(ScriptVoices)
    BY PageFields DEF ScriptInv, Pages
  <2>2. \A y \in ToSet(voices) : y \in ScriptVoices
    BY <2>1 DEF ToSet
  <2> QED BY <2>2 DEF ScriptVoices
<1>3. z \in Pages /\ z.playing = <<>> /\ KeepsRest(Page, z)
  BY Silences DEF ScriptInv
<1> HIDE DEF cut, z
<1>4. x \in Pages /\ x.playing = <<>> /\ KeepsRequests(Page, x)
  BY <1>2, <1>3 DEF Pages, KeepsRest, KeepsRequests
<1> HIDE DEF x
<1>5. InPlace(x) /\ PageRemembers(x, toPage, decoding)
  BY <1>4, SilentInPlace, StaysRemembered DEF ScriptInv, PageRemembers
<1> QED BY <1>1, <1>4, <1>5, PageStep DEF ScriptInv

LEMMA ResumeStep == ASSUME ScriptInv, Resume PROVE ScriptInv'
<1> DEFINE x == [Page EXCEPT !.paused = FALSE]
<1>1. /\ PageBecomes(x) /\ paused
      /\ UNCHANGED <<remaining, awaited, punctuating, decoding, toPage, server>>
  BY DEF Resume, chunks
<1>2. Page \in Pages /\ Page.playing = <<>>
  BY <1>1, PageFields DEF ScriptInv, InPlace
<1>3. x \in Pages /\ x.playing = <<>> /\ KeepsRequests(Page, x)
  BY <1>2 DEF Pages, KeepsRequests
<1> HIDE DEF x
<1>4. InPlace(x) /\ PageRemembers(x, toPage, decoding)
  BY <1>3, SilentInPlace, StaysRemembered DEF ScriptInv, PageRemembers
<1> QED BY <1>1, <1>3, <1>4, PageStep DEF ScriptInv

LEMMA BeginSeekStep == ASSUME ScriptInv, BeginSeek PROVE ScriptInv'
<1>1. PICK t \in {StartOf(s) : s \in Segments} \union {StartOf(s) + 1 : s \in Segments} :
        PageBecomes([Page EXCEPT !.at = t, !.seeking = TRUE,
                       !.playing = SubSeq(@, 1, Minus(Len(@), 1))])
  BY DEF BeginSeek
<1>2. UNCHANGED <<remaining, awaited, punctuating, decoding, toPage, server>>
  BY DEF BeginSeek, chunks
<1>3. t \in 0..Finish
  <2>1. PICK s \in Segments : t = StartOf(s) \/ t = StartOf(s) + 1
    OBVIOUS
  <2>2. StartOf(s) \in Nat /\ Finish \in Nat /\ StartOf(s) + 1 <= Finish
    BY Times
  <2> QED BY <2>1, <2>2
<1>4. Page \in Pages /\ InPlace(Page) /\ Page.playing \in Seq(Sources)
  BY DEF ScriptInv, Pages
<1> DEFINE n == Len(Page.playing)
           k == Minus(n, 1)
           left == SubSeq(Page.playing, 1, k)
           x == [Page EXCEPT !.at = t, !.seeking = TRUE, !.playing = left]
<1>5. n \in Nat /\ k \in Nat /\ k <= n /\ DOMAIN Page.playing = 1..n
  BY <1>4 DEF Minus
<1>6. left \in Seq(Sources) /\ DOMAIN left = 1..k
      /\ \A i \in 1..k : i \in 1..n /\ left[i] = Page.playing[i]
  BY <1>4, <1>5
<1>7. Page.playing = <<>> => left = <<>>
  <2> SUFFICES ASSUME Page.playing = <<>> PROVE left = <<>>
    OBVIOUS
  <2>1. n = 0
    OBVIOUS
  <2>2. k = 0
    BY <2>1 DEF Minus
  <2> QED BY <2>2
<1>8. PageBecomes(x)
  BY <1>1
<1> HIDE DEF n, k, left
<1>9. /\ x \in Pages /\ KeepsRequests(Page, x) /\ x.seeking /\ x.playing = left
      /\ x.lastVoiceEnd = Page.lastVoiceEnd /\ x.paused = Page.paused
  BY <1>3, <1>4, <1>6 DEF Pages, KeepsRequests
<1> HIDE DEF x
<1>10. InPlace(x)
  BY <1>4, <1>5, <1>6, <1>7, <1>9 DEF InPlace, InTurn, EndsBy, NotAhead
<1>11. PageRemembers(x, toPage, decoding)
  BY <1>9, StaysRemembered DEF ScriptInv, PageRemembers
<1> QED BY <1>2, <1>8, <1>9, <1>10, <1>11, PageStep DEF ScriptInv

SeekMessage == [kind |-> "seek"]

LEMMA SeekRemembers ==
  ASSUME NEW pg \in Pages, NEW x \in Pages, x.toServer = Append(pg.toServer, SeekMessage),
         x.generation = pg.generation + 1, x.mode = pg.mode, x.known = pg.known,
         x.sent \subseteq pg.sent, \A s \in x.sent : IsComplete(x, s), x.texts = pg.texts,
         PipelineFits, NEW back \in Seq(Answers), NEW dec, PageRemembers(pg, back, dec)
  PROVE  PageRemembers(x, back, dec)
<1>1. pg.toServer \in Seq(Requests) /\ SeekMessage \in Requests /\ SeekMessage.kind = "seek"
  BY DEF Pages, Requests, SeekMessage
<1> DEFINE m == SeekMessage
<1>2. Longer(pg.toServer, x.toServer, m)
  BY <1>1, Lengthens
<1> HIDE DEF m
<1>3. m.kind = "seek"
  BY <1>1 DEF m
<1> QED BY <1>2, <1>3, SeekAsks DEF PipelineFits, PageRemembers

LEMMA EndSeekStep == ASSUME ScriptInv, EndSeek PROVE ScriptInv'
<1> DEFINE z == Silenced(Page)
           kept == KeepsComplete(Page)
           y == [z EXCEPT !.seeking = FALSE, !.generation = @ + 1, !.handled = {},
                          !.toServer = Append(@, SeekMessage), !.sent = kept]
           x == TickOf(y)
<1>1. PageBecomes(x) /\ UNCHANGED <<remaining, awaited, punctuating, decoding, toPage, server>>
  BY DEF EndSeek, chunks, SeekMessage
<1>2. z \in Pages /\ z.playing = <<>> /\ KeepsRest(Page, z) /\ Page \in Pages
  BY Silences DEF ScriptInv
<1>3. kept \subseteq Page.sent /\ kept \subseteq Segments /\ \A s \in kept : IsComplete(Page, s)
  BY <1>2 DEF KeepsComplete, Pages
<1>4. Append(z.toServer, SeekMessage) \in Seq(Requests) /\ z.generation + 1 \in Nat
  <2>1. z.toServer \in Seq(Requests) /\ SeekMessage \in Requests /\ z.generation \in Nat
    BY <1>2 DEF Pages, Requests, SeekMessage
  <2> QED BY <2>1
<1> HIDE DEF z, kept
<1>5. /\ y \in Pages /\ y.playing = <<>> /\ y.toServer = Append(z.toServer, SeekMessage)
      /\ y.generation = z.generation + 1 /\ y.mode = z.mode /\ y.known = z.known
      /\ y.sent = kept /\ y.texts = z.texts /\ y.audio = z.audio
  BY <1>2, <1>3, <1>4 DEF Pages
<1> HIDE DEF y
<1>6. \A s \in y.sent : IsComplete(y, s)
  BY <1>2, <1>3, <1>5 DEF KeepsRest, IsComplete
<1>7. /\ y.toServer = Append(Page.toServer, SeekMessage)
      /\ y.generation = Page.generation + 1 /\ y.mode = Page.mode /\ y.known = Page.known
      /\ y.sent \subseteq Page.sent /\ y.texts = Page.texts
  BY <1>2, <1>3, <1>5 DEF KeepsRest
<1>8. PageRemembers(y, toPage, decoding)
  BY <1>2, <1>5, <1>6, <1>7, SeekRemembers DEF ScriptInv
<1>9. x \in Pages /\ InPlace(x) /\ PageRemembers(x, toPage, decoding)
  BY <1>5, <1>8, SilentInPlace, TickRemembers DEF ScriptInv
<1> HIDE DEF x
<1> QED BY <1>1, <1>9, PageStep DEF ScriptInv

LEMMA ChangeModeStep == ASSUME ScriptInv, ChangeMode PROVE ScriptInv'
<1>1. PICK md \in Modes \ {mode} :
        PageBecomes([Page EXCEPT !.mode = md, !.excused = @ \union sent,
                       !.toServer = Append(@, [kind |-> "mode", mode |-> md])])
  BY DEF ChangeMode
<1>2. UNCHANGED <<remaining, awaited, punctuating, decoding, toPage, server>>
  BY DEF ChangeMode, chunks
<1> DEFINE pg == Page
           m == [kind |-> "mode", mode |-> md]
           x == [pg EXCEPT !.mode = md, !.excused = @ \union sent, !.toServer = Append(@, m)]
<1>3. /\ pg \in Pages /\ pg.sent = sent /\ sent \subseteq Segments
      /\ pg.toServer \in Seq(Requests) /\ InPlace(pg) /\ PageRemembers(pg, toPage, decoding)
  BY PageFields DEF ScriptInv, Pages
<1>4. m \in Requests /\ m.kind = "mode" /\ m.mode = md
  BY DEF Requests
<1>5. PageBecomes(x)
  BY <1>1
<1> HIDE DEF pg, m
<1>6. Longer(pg.toServer, Append(pg.toServer, m), m) /\ Append(pg.toServer, m) \in Seq(Requests)
  BY <1>3, <1>4, Lengthens
<1>7. /\ x \in Pages /\ x.toServer = Append(pg.toServer, m) /\ x.generation = pg.generation
      /\ x.mode = m.mode /\ x.known = pg.known /\ x.sent = pg.sent /\ x.texts = pg.texts
      /\ x.sent \subseteq x.excused
      /\ x.at = pg.at /\ x.paused = pg.paused /\ x.seeking = pg.seeking
      /\ x.playing = pg.playing /\ x.lastVoiceEnd = pg.lastVoiceEnd
  BY <1>3, <1>4, <1>6 DEF Pages
<1> HIDE DEF x
<1>8. InPlace(x)
  BY <1>3, <1>7 DEF InPlace, InTurn, EndsBy, NotAhead
<1>9. serverGeneration \in Nat
  BY DEF ScriptInv, PipelineFits, Pipeline
<1>10. PageRemembers(x, toPage, decoding)
  <2>1. Remembered(pg, queue, accepted, acceptedGeneration, job, serverGeneration, serverMode,
                   toPage, decoding)
    BY <1>3 DEF PageRemembers
  <2>2. Longer(pg.toServer, x.toServer, m)
    BY <1>6, <1>7
  <2>3. Remembered(x, queue, accepted, acceptedGeneration, job, serverGeneration, serverMode,
                   toPage, decoding)
    BY <1>3, <1>4, <1>7, <1>9, <2>1, <2>2, ModeAsks
  <2> QED BY <2>3 DEF PageRemembers
<1> QED BY <1>2, <1>5, <1>7, <1>8, <1>10, PageStep DEF ScriptInv

LEMMA TimePassesStep == ASSUME ScriptInv, TimePasses PROVE ScriptInv'
<1> DEFINE pg == Page
           Less(n) == Minus(n, 1)
           Moved(v) == [v EXCEPT !.from = Less(@), !.upto = Less(@)]
           at2 == IF paused \/ seeking \/ at = Finish THEN at ELSE at + 1
           moved == [i \in DOMAIN playing |-> Moved(playing[i])]
           expecting == [i \in DOMAIN voices |-> [voices[i] EXCEPT !.left = Less(@)]]
           soon == {[t EXCEPT !.left = Less(@)] : t \in timers}
           x == [pg EXCEPT !.at = at2, !.playing = moved, !.voices = expecting,
                           !.lastVoiceEnd = Less(lastVoiceEnd), !.timers = soon]
<1>1. PageBecomes(x) /\ UNCHANGED <<remaining, awaited, punctuating, decoding, toPage, server>>
  BY DEF TimePasses, chunks
<1>2. /\ pg \in Pages /\ InPlace(pg) /\ PageRemembers(pg, toPage, decoding)
      /\ pg.paused = paused /\ pg.seeking = seeking /\ pg.at = at
      /\ pg.playing = playing /\ pg.voices = voices /\ pg.lastVoiceEnd = lastVoiceEnd
      /\ pg.timers = timers
  BY PageFields DEF ScriptInv
<1> HIDE DEF pg
<1>3. \A n \in Nat : Less(n) \in Nat /\ Less(n) <= n
  BY DEF Minus
<1>4. \A n, k \in Nat : n <= k => Less(n) <= Less(k)
  BY DEF Minus
<1>5. \A n \in Nat : Less(n) > 0 => Less(n) + 1 = n
  BY DEF Minus
<1> HIDE DEF Less
<1>6. /\ playing \in Seq(Sources) /\ voices \in Seq(ScriptVoices) /\ lastVoiceEnd \in Nat
      /\ timers \subseteq ScriptVoices /\ at \in 0..Finish /\ Finish \in Nat
  BY <1>2, Times DEF Pages
<1>7. at2 \in 0..Finish
  BY <1>6
<1>8. \A i \in DOMAIN playing :
        /\ playing[i] \in Sources /\ Moved(playing[i]) \in Sources
        /\ moved[i].from = Less(playing[i].from) /\ moved[i].upto = Less(playing[i].upto)
        /\ moved[i].segment = playing[i].segment /\ moved[i].skipped = playing[i].skipped
  <2> SUFFICES ASSUME NEW i \in DOMAIN playing
               PROVE  /\ playing[i] \in Sources /\ Moved(playing[i]) \in Sources
                      /\ moved[i].from = Less(playing[i].from)
                      /\ moved[i].upto = Less(playing[i].upto)
                      /\ moved[i].segment = playing[i].segment
                      /\ moved[i].skipped = playing[i].skipped
    OBVIOUS
  <2> DEFINE v == playing[i]
  <2>1. v \in Sources
    BY <1>6
  <2> HIDE DEF Moved
  <2>3. moved[i] = Moved(v)
    OBVIOUS
  <2> HIDE DEF v, moved
  <2>2. /\ Moved(v) \in Sources /\ Moved(v).from = Less(v.from) /\ Moved(v).upto = Less(v.upto)
        /\ Moved(v).segment = v.segment /\ Moved(v).skipped = v.skipped
    BY <1>3, <2>1 DEF Sources, Moved
  <2> QED BY <2>1, <2>2, <2>3 DEF v
<1>9. moved \in Seq(Sources) /\ DOMAIN moved = DOMAIN playing
  <2>1. DOMAIN playing = 1..Len(playing) /\ Len(playing) \in Nat
    BY <1>6
  <2> HIDE DEF Moved
  <2>2. moved \in [1..Len(playing) -> Sources]
    BY <1>8, <2>1
  <2> QED BY <2>1, <2>2
<1>10. expecting \in Seq(ScriptVoices)
  <2>1. DOMAIN voices = 1..Len(voices) /\ Len(voices) \in Nat
        /\ \A i \in DOMAIN voices : voices[i] \in ScriptVoices
    BY <1>6
  <2>2. \A v \in ScriptVoices : [v EXCEPT !.left = Less(@)] \in ScriptVoices
    BY <1>3 DEF ScriptVoices
  <2>3. expecting \in [1..Len(voices) -> ScriptVoices]
    BY <2>1, <2>2
  <2> QED BY <2>1, <2>3
<1>11. soon \subseteq ScriptVoices
  BY <1>3, <1>6 DEF ScriptVoices
<1> HIDE DEF moved, expecting, soon, at2
<1>12. /\ x \in Pages /\ KeepsRequests(pg, x) /\ x.paused = pg.paused /\ x.seeking = pg.seeking
       /\ x.at = at2 /\ x.playing = moved /\ x.lastVoiceEnd = Less(lastVoiceEnd)
  BY <1>2, <1>3, <1>6, <1>7, <1>9, <1>10, <1>11 DEF Pages, KeepsRequests
<1> HIDE DEF x
<1>13. InTurn(x)
  <2> SUFFICES ASSUME NEW i \in DOMAIN playing, NEW k \in DOMAIN playing, i < k
               PROVE  moved[i].upto <= moved[k].from
    BY <1>9, <1>12 DEF InTurn
  <2>1. playing[i].upto <= playing[k].from
    BY <1>2 DEF InPlace, InTurn
  <2>2. playing[i].upto \in Nat /\ playing[k].from \in Nat
    BY <1>8 DEF Sources
  <2> QED BY <1>4, <1>8, <2>1, <2>2
<1>14. EndsBy(x)
  <2> SUFFICES ASSUME NEW i \in DOMAIN playing
               PROVE  moved[i].upto <= Less(lastVoiceEnd)
    BY <1>9, <1>12 DEF EndsBy
  <2>1. playing[i].upto <= lastVoiceEnd
    BY <1>2 DEF InPlace, EndsBy
  <2>2. playing[i].upto \in Nat
    BY <1>8 DEF Sources
  <2> QED BY <1>4, <1>6, <1>8, <2>1, <2>2
<1>15. NotAhead(x)
  <2> SUFFICES ASSUME ~pg.seeking, at2 < Finish, NEW i \in DOMAIN playing, moved[i].from > 0
               PROVE  at2 + moved[i].from >= StartOf(moved[i].segment) + moved[i].skipped
    BY <1>9, <1>12 DEF NotAhead
  <2> DEFINE f == playing[i].from
             c == StartOf(playing[i].segment) + playing[i].skipped
  <2>1. f \in Nat /\ c \in Nat
    <3>1. playing[i] \in Sources
      BY <1>8
    <3>2. /\ f \in Nat /\ playing[i].segment \in Segments /\ playing[i].skipped \in Nat
      BY <3>1 DEF Sources
    <3>3. StartOf(playing[i].segment) \in Nat
      BY <3>2, Times
    <3> QED BY <3>2, <3>3
  <2>2. ~pg.paused
    BY <1>2 DEF InPlace
  <2>3. at # Finish /\ at2 = at + 1 /\ at < Finish
    BY <1>2, <1>6, <2>2 DEF at2
  <2>4. moved[i].from = Less(f)
    BY <1>8
  <2>5. Less(f) + 1 = f /\ f > 0 /\ Less(f) \in Nat
    BY <1>3, <1>5, <2>1, <2>4
  <2>6. at + f >= c
    BY <1>2, <2>3, <2>5 DEF InPlace, NotAhead
  <2>7. at2 + Less(f) >= c
    <3> HIDE DEF f, c
    <3> QED BY <1>6, <2>1, <2>3, <2>5, <2>6
  <2> QED BY <1>8, <2>4, <2>7
<1>16. x.paused => x.playing = <<>>
  <2> SUFFICES ASSUME pg.paused PROVE moved = <<>>
    BY <1>12
  <2>1. playing = <<>>
    BY <1>2 DEF InPlace
  <2> QED BY <1>9, <2>1
<1>17. InPlace(x)
  BY <1>13, <1>14, <1>15, <1>16 DEF InPlace
<1>18. PageRemembers(x, toPage, decoding)
  BY <1>2, <1>12, StaysRemembered DEF PageRemembers
<1> QED BY <1>1, <1>12, <1>17, <1>18, PageStep DEF ScriptInv

-----------------------------------------------------------------------------
(* ScriptDubbing: the chunks of words, and the answers.                     *)
LEMMA NextChunkStep ==
  ASSUME ScriptInv, NEW pg \in Pages, InPlace(pg), toPage' \in Seq(Answers),
         PageRemembers(pg, toPage', decoding), NextChunk(pg),
         UNCHANGED <<punctuating, decoding, server>>
  PROVE  ScriptInv'
<1>1. CASE remaining = <<>>
  <2>1. PageBecomes(pg) /\ awaited' = {} /\ remaining' = remaining
    BY <1>1 DEF NextChunk
  <2> QED BY <2>1, PageStep DEF ScriptInv
<1>2. CASE remaining # <<>>
  <2> DEFINE h == Head(remaining)
             m == Words(h)
             x == [pg EXCEPT !.toServer = Append(@, m)]
  <2>1. PageBecomes(x) /\ awaited' = h /\ remaining' = Tail(remaining)
    BY <1>2 DEF NextChunk
  <2>2. h \subseteq Segments /\ remaining' \in Seq(SUBSET Segments)
    <3>1. remaining \in Seq(SUBSET Segments)
      BY DEF ScriptInv
    <3> QED BY <1>2, <2>1, <3>1
  <2> HIDE DEF h
  <2>3. m \in Requests /\ m.kind = "words"
    BY <2>2 DEF Requests, Words
  <2>4. pg.toServer \in Seq(Requests)
    BY DEF Pages
  <2> HIDE DEF m
  <2>5. Longer(pg.toServer, Append(pg.toServer, m), m) /\ Append(pg.toServer, m) \in Seq(Requests)
    BY <2>3, <2>4, Lengthens
  <2>6. /\ x \in Pages /\ x.toServer = Append(pg.toServer, m)
        /\ x.generation = pg.generation /\ x.mode = pg.mode /\ x.known = pg.known
        /\ x.sent = pg.sent /\ x.texts = pg.texts /\ x.audio = pg.audio
        /\ x.excused = pg.excused
        /\ x.at = pg.at /\ x.paused = pg.paused /\ x.seeking = pg.seeking
        /\ x.playing = pg.playing /\ x.lastVoiceEnd = pg.lastVoiceEnd
    BY <2>5 DEF Pages
  <2> HIDE DEF x
  <2>7. InPlace(x)
    BY <2>6 DEF InPlace, InTurn, EndsBy, NotAhead
  <2>8. serverGeneration \in Nat
    BY DEF ScriptInv, PipelineFits, Pipeline
  <2>9. PageRemembers(x, toPage', decoding)
    BY <2>3, <2>5, <2>6, <2>8, WordsAsk DEF PageRemembers
  <2> QED BY <2>1, <2>2, <2>6, <2>7, <2>9, PageStep DEF ScriptInv
<1> QED BY <1>1, <1>2

LEMMA KnowsThen ==
  ASSUME NEW pg \in Pages, InPlace(pg), PipelineFits, NEW back, NEW dec,
         PageRemembers(pg, back, dec), NEW k \in SUBSET Segments, pg.sent \subseteq k
  PROVE  LET x == TickOf([pg EXCEPT !.known = k])
         IN x \in Pages /\ InPlace(x) /\ PageRemembers(x, back, dec)
<1> DEFINE y == [pg EXCEPT !.known = k]
<1>1. /\ y \in Pages /\ y.known = k /\ y.generation = pg.generation /\ y.mode = pg.mode
      /\ y.sent = pg.sent /\ y.texts = pg.texts /\ y.audio = pg.audio
      /\ y.toServer = pg.toServer /\ y.excused = pg.excused
      /\ y.at = pg.at /\ y.paused = pg.paused /\ y.seeking = pg.seeking
      /\ y.playing = pg.playing /\ y.lastVoiceEnd = pg.lastVoiceEnd
  BY DEF Pages
<1> HIDE DEF y
<1>2. InPlace(y)
  BY <1>1 DEF InPlace, InTurn, EndsBy, NotAhead
<1>3. PageRemembers(y, back, dec)
  BY <1>1, KnowsMore DEF PageRemembers
<1>4. TickOf(y) \in Pages /\ InPlace(TickOf(y)) /\ PageRemembers(TickOf(y), back, dec)
  BY <1>1, <1>2, <1>3, TickRemembers
<1> QED BY <1>4 DEF y

LEMMA SwitchRemembers ==
  ASSUME NEW pg \in Pages, pg.sent = {}, PipelineFits, NEW back \in Seq(Answers), NEW dec,
         PageRemembers(pg, back, dec)
  PROVE  LET x == Switched(pg)
         IN x \in Pages /\ InPlace(x) /\ PageRemembers(x, back, dec) /\ x.sent = {}
<1> DEFINE z == Silenced(pg)
           x == [z EXCEPT !.generation = @ + 1, !.toServer = Append(@, SeekMessage)]
<1>1. z \in Pages /\ z.playing = <<>> /\ KeepsRest(pg, z)
  BY Silences
<1> HIDE DEF z
<1>2. Append(z.toServer, SeekMessage) \in Seq(Requests) /\ z.generation + 1 \in Nat
  <2>1. z.toServer \in Seq(Requests) /\ SeekMessage \in Requests /\ z.generation \in Nat
    BY <1>1 DEF Pages, Requests, SeekMessage
  <2> QED BY <2>1
<1>3. /\ x \in Pages /\ x.playing = <<>> /\ x.toServer = Append(z.toServer, SeekMessage)
      /\ x.generation = z.generation + 1 /\ x.mode = z.mode /\ x.known = z.known
      /\ x.sent = z.sent /\ x.texts = z.texts
  BY <1>1, <1>2 DEF Pages
<1> HIDE DEF x
<1>4. /\ x.toServer = Append(pg.toServer, SeekMessage) /\ x.generation = pg.generation + 1
      /\ x.mode = pg.mode /\ x.known = pg.known /\ x.sent = {} /\ x.texts = pg.texts
  BY <1>1, <1>3 DEF KeepsRest
<1>5. x.sent \subseteq pg.sent /\ \A s \in x.sent : IsComplete(x, s)
  BY <1>4
<1>6. PageRemembers(x, back, dec)
  BY <1>3, <1>4, <1>5, SeekRemembers
<1>7. InPlace(x)
  BY <1>3, SilentInPlace
<1>8. x = Switched(pg)
  BY DEF x, z, Switched, SeekMessage
<1> QED BY <1>3, <1>4, <1>6, <1>7, <1>8

LEMMA Settles ==
  ASSUME ScriptInv, toPage' \in Seq(Answers), PageRemembers(Page, toPage', decoding),
         UNCHANGED <<punctuating, decoding, server>>,
         NEW sentences \in SUBSET Segments, ChunkSettles(sentences)
  PROVE  ScriptInv'
<1>1. Page \in Pages /\ InPlace(Page) /\ PipelineFits /\ Page.known = known /\ Page.sent = sent
  BY PageFields DEF ScriptInv
<1>2. sent \subseteq known /\ known \subseteq Segments
  BY <1>1 DEF PageRemembers, Remembered, Pages
<1>3. CASE awaited' = {} /\ remaining' = <<>> /\ PageBecomes(Page)
  <2>1. remaining' \in Seq(SUBSET Segments)
    BY <1>3
  <2> QED BY <1>1, <1>3, <2>1, PageStep DEF ScriptInv
<1>4. ASSUME known = {}, NEW pg \in {Page, Switched(Page)},
             NextChunk(StartScriptDubbing(pg, sentences))
      PROVE  ScriptInv'
  <2>1. Page.sent = {}
    BY <1>1, <1>2, <1>4
  <2>2. pg \in Pages /\ InPlace(pg) /\ PageRemembers(pg, toPage', decoding) /\ pg.sent = {}
    <3>1. CASE pg = Page
      BY <1>1, <2>1, <3>1
    <3>2. CASE pg = Switched(Page)
      BY <1>1, <2>1, <3>2, SwitchRemembers
    <3> QED BY <3>1, <3>2
  <2> DEFINE x == TickOf([pg EXCEPT !.known = sentences])
  <2>3. x \in Pages /\ InPlace(x) /\ PageRemembers(x, toPage', decoding)
    BY <1>1, <2>2, KnowsThen
  <2>4. NextChunk(x)
    BY <1>4 DEF StartScriptDubbing
  <2> HIDE DEF x
  <2> QED BY <2>3, <2>4, NextChunkStep
<1>5. CASE NextChunk(AddSegments(Page, sentences))
  <2> DEFINE k == Page.known \union sentences
             x == TickOf([Page EXCEPT !.known = k])
  <2>1. AddSegments(Page, sentences) = IF sentences \subseteq Page.known THEN Page ELSE x
    BY DEF AddSegments
  <2>2. k \in SUBSET Segments /\ Page.sent \subseteq k
    BY <1>1, <1>2
  <2> HIDE DEF k
  <2>3. x \in Pages /\ InPlace(x) /\ PageRemembers(x, toPage', decoding)
    BY <1>1, <2>2, KnowsThen
  <2> HIDE DEF x
  <2> DEFINE w == AddSegments(Page, sentences)
  <2>4. w \in Pages /\ InPlace(w) /\ PageRemembers(w, toPage', decoding)
    BY <1>1, <2>1, <2>3
  <2>5. NextChunk(w)
    BY <1>5
  <2> HIDE DEF w
  <2> QED BY <2>4, <2>5, NextChunkStep
<1> QED BY <1>3, <1>4, <1>5 DEF ChunkSettles

LEMMA ChunkTimesOutStep == ASSUME ScriptInv, ChunkTimesOut PROVE ScriptInv'
<1>1. /\ ChunkSettles({}) /\ toPage' = toPage /\ {} \in SUBSET Segments
      /\ UNCHANGED <<punctuating, decoding, server>>
  BY DEF ChunkTimesOut
<1>2. toPage' \in Seq(Answers) /\ PageRemembers(Page, toPage', decoding)
  BY <1>1 DEF ScriptInv
<1> QED BY <1>1, <1>2, Settles

LEMMA SentencesArriveStep == ASSUME ScriptInv, SentencesArrive PROVE ScriptInv'
<1>1. /\ toPage # <<>> /\ toPage' = Tail(toPage) /\ Head(toPage).kind = "sentences"
      /\ UNCHANGED <<punctuating, decoding, server>>
      /\ IF Head(toPage).chunk = awaited THEN ChunkSettles(Head(toPage).sentences)
         ELSE PageBecomes(Page) /\ UNCHANGED <<remaining, awaited>>
  BY DEF SentencesArrive
<1>2. toPage \in Seq(Answers) /\ PageRemembers(Page, toPage, decoding)
  BY DEF ScriptInv
<1>3. /\ Shorter(toPage, toPage') /\ toPage' \in Seq(Answers) /\ Head(toPage) = toPage[1]
      /\ Head(toPage) \in Answers
  BY <1>1, <1>2, Shortens
<1>4. Head(toPage).sentences \in SUBSET Segments
  BY <1>1, <1>3 DEF Answers
<1>5. \A s : ~AnswerTo(toPage[1], Page.generation, s)
  BY <1>1, <1>3 DEF AnswerTo
<1>6. PageRemembers(Page, toPage', decoding)
  BY <1>2, <1>3, <1>5, AnswersShorter DEF PageRemembers
<1>7. CASE Head(toPage).chunk = awaited
  BY <1>1, <1>3, <1>4, <1>6, <1>7, Settles
<1>8. CASE Head(toPage).chunk # awaited
  <2>1. PageBecomes(Page) /\ remaining' = remaining /\ awaited' = awaited
    BY <1>1, <1>8
  <2> QED BY <1>1, <1>3, <1>6, <2>1, PageStep DEF ScriptInv
<1> QED BY <1>7, <1>8

LEMMA SamePageInPlace ==
  ASSUME NEW pg, NEW x, InPlace(pg), x.at = pg.at, x.paused = pg.paused,
         x.seeking = pg.seeking, x.playing = pg.playing, x.lastVoiceEnd = pg.lastVoiceEnd
  PROVE  InPlace(x)
BY DEF InPlace, InTurn, EndsBy, NotAhead

LEMMA PunctuatedStep == ASSUME ScriptInv, NEW c \in punctuating, Punctuated(c) PROVE ScriptInv'
<1>1. PICK sentences \in {{}, c} :
        toPage' = Append(toPage, [kind |-> "sentences", sentences |-> sentences, chunk |-> c])
  BY DEF Punctuated
<1>2. /\ punctuating' = punctuating \ {c}
      /\ UNCHANGED <<remaining, awaited, decoding, server>>
      /\ UNCHANGED <<video, generation, mode, player, output, toServer, excused>>
  BY DEF Punctuated, player
<1>3. c \subseteq Segments /\ sentences \subseteq Segments /\ toPage \in Seq(Answers)
  BY DEF ScriptInv
<1> DEFINE m == [kind |-> "sentences", sentences |-> sentences, chunk |-> c]
<1>4. m \in Answers /\ m.kind # "answer"
  BY <1>3 DEF Answers
<1>5. toPage' = Append(toPage, m)
  BY <1>1
<1> HIDE DEF m
<1>6. Longer(toPage, toPage', m) /\ toPage' \in Seq(Answers)
  BY <1>3, <1>4, <1>5, Lengthens
<1>7. PageRemembers(Page, toPage', decoding)
  BY <1>4, <1>6, AnswersLonger DEF ScriptInv, PageRemembers
<1>8. PageBecomes(Page)
  BY <1>2, PageFields DEF PageBecomes, video, player, output
<1>9. Page \in Pages /\ InPlace(Page) /\ punctuating' \subseteq SUBSET Segments
  BY <1>2 DEF ScriptInv
<1> QED BY <1>2, <1>6, <1>7, <1>8, <1>9, PageStep DEF ScriptInv

LEMMA PageReceivesStep == ASSUME ScriptInv, PageReceives PROVE ScriptInv'
<1> DEFINE a == Head(toPage)
           pg == Page
           x == [pg EXCEPT !.texts = texts']
<1>1. /\ toPage # <<>> /\ a.kind = "answer" /\ toPage' = Tail(toPage)
      /\ IF a.generation # generation THEN texts' = texts /\ decoding' = decoding
         ELSE /\ texts' = texts \union {a.segment}
              /\ decoding' = IF a.voice THEN decoding \union {a.segment} ELSE decoding
  BY DEF PageReceives
<1>2. /\ UNCHANGED <<remaining, awaited, punctuating, server>>
      /\ UNCHANGED <<video, generation, mode, known, sent, audio, handled, interrupted,
                     voices, lastVoiceEnd, output, toServer, excused>>
  BY DEF PageReceives, chunks
<1>3. toPage \in Seq(Answers) /\ PageRemembers(pg, toPage, decoding) /\ pg \in Pages /\ InPlace(pg)
  BY DEF ScriptInv
<1>4. /\ Shorter(toPage, toPage') /\ toPage' \in Seq(Answers) /\ a = toPage[1] /\ a \in Answers
  BY <1>1, <1>3, Shortens
<1>5. a.segment \in Segments /\ texts \subseteq Segments /\ decoding \subseteq Segments
  BY <1>1, <1>3, <1>4, PageFields DEF Answers, ScriptInv, Pages
<1>6. texts' \subseteq Segments /\ decoding' \subseteq Segments
  BY <1>1, <1>5
<1>7. pg.generation = generation /\ pg.texts = texts
  BY PageFields
<1> HIDE DEF a, pg
<1>8. /\ x \in Pages /\ x.texts = texts' /\ x.generation = pg.generation /\ x.mode = pg.mode
      /\ x.known = pg.known /\ x.sent = pg.sent /\ x.audio = pg.audio
      /\ x.toServer = pg.toServer /\ x.excused = pg.excused
      /\ x.at = pg.at /\ x.paused = pg.paused /\ x.seeking = pg.seeking
      /\ x.playing = pg.playing /\ x.lastVoiceEnd = pg.lastVoiceEnd
      /\ x.handled = pg.handled /\ x.interrupted = pg.interrupted /\ x.voices = pg.voices
      /\ x.timers = pg.timers
  BY <1>3, <1>6 DEF Pages
<1> HIDE DEF x
<1>9. InPlace(x)
  BY <1>3, <1>8, SamePageInPlace
<1>10. PageBecomes(x)
  BY <1>2, <1>8, PageFields DEF PageBecomes, video, output, pg
<1>11. PageRemembers(x, toPage', decoding')
  <2>1. CASE a.generation # generation
    <3>1. decoding' = decoding /\ KeepsRequests(pg, x)
      BY <1>1, <1>7, <1>8, <2>1 DEF KeepsRequests
    <3>2. \A s : ~AnswerTo(toPage[1], pg.generation, s)
      BY <1>4, <1>7, <2>1 DEF AnswerTo
    <3>3. PageRemembers(pg, toPage', decoding)
      BY <1>3, <1>4, <3>2, AnswersShorter DEF PageRemembers
    <3> QED BY <3>1, <3>3, StaysRemembered DEF PageRemembers
  <2>2. CASE a.generation = generation
    <3>1. /\ x.texts = pg.texts \union {a.segment} /\ a.generation = pg.generation
          /\ decoding' = IF a.voice THEN decoding \union {a.segment} ELSE decoding
      BY <1>1, <1>7, <1>8, <2>2
    <3>2. Remembered(pg, queue, accepted, acceptedGeneration, job, serverGeneration, serverMode,
                     toPage, decoding)
      BY <1>3 DEF PageRemembers
    <3>3. Remembered(x, queue, accepted, acceptedGeneration, job, serverGeneration, serverMode,
                     toPage', decoding')
      BY <1>1, <1>4, <1>8, <3>1, <3>2, AnswerArrives
    <3> QED BY <3>3 DEF PageRemembers
  <2> QED BY <2>1, <2>2
<1> QED BY <1>2, <1>4, <1>6, <1>8, <1>9, <1>10, <1>11, PageStep DEF ScriptInv

LEMMA DecodedStep == ASSUME ScriptInv, NEW s \in decoding, Decoded(s) PROVE ScriptInv'
<1>1. PICK length \in 1..MaxLength : PageBecomes(TickOf([Page EXCEPT !.audio[s] = length]))
  BY DEF Decoded
<1>2. decoding' = decoding \ {s} /\ UNCHANGED <<remaining, awaited, punctuating, toPage, server>>
  BY DEF Decoded, chunks
<1> DEFINE pg == Page
           y == [pg EXCEPT !.audio[s] = length]
           x == TickOf(y)
<1>3. /\ PageRemembers(pg, toPage, decoding) /\ pg \in Pages /\ InPlace(pg)
      /\ s \in Segments /\ PipelineFits
  BY DEF ScriptInv
<1>4. PageBecomes(x)
  BY <1>1
<1> HIDE DEF pg
<1>5. /\ length > 0 /\ length \in 0..MaxLength
      /\ pg.audio \in [Segments -> 0..MaxLength]
  <2>1. MaxLength \in Nat
    BY ScriptAssumption
  <2>2. pg.audio \in [Segments -> 0..MaxLength]
    BY <1>3 DEF Pages
  <2> QED BY <2>1, <2>2
<1>6. y.audio = [pg.audio EXCEPT ![s] = length]
  BY <1>3 DEF Pages
<1>7. /\ y.audio \in [Segments -> 0..MaxLength] /\ y.audio[s] = length
      /\ \A t \in Segments : t # s => y.audio[t] = pg.audio[t]
  BY <1>3, <1>5, <1>6
<1>8. /\ y \in Pages /\ y.generation = pg.generation /\ y.mode = pg.mode
      /\ y.known = pg.known /\ y.sent = pg.sent /\ y.texts = pg.texts
      /\ y.toServer = pg.toServer /\ y.excused = pg.excused
      /\ y.at = pg.at /\ y.paused = pg.paused /\ y.seeking = pg.seeking
      /\ y.playing = pg.playing /\ y.lastVoiceEnd = pg.lastVoiceEnd
  BY <1>3, <1>7 DEF Pages
<1> HIDE DEF y
<1>9. InPlace(y)
  BY <1>3, <1>8, SamePageInPlace
<1>10. PageRemembers(y, toPage, decoding \ {s})
  <2>1. pg.sent \subseteq Segments /\ y.audio[s] > 0
    BY <1>3, <1>5, <1>7 DEF Pages
  <2> QED BY <1>3, <1>7, <1>8, <2>1, VoiceDecodes DEF PageRemembers
<1>11. x \in Pages /\ InPlace(x) /\ PageRemembers(x, toPage, decoding \ {s})
  BY <1>3, <1>8, <1>9, <1>10, TickRemembers
<1> HIDE DEF x
<1> QED BY <1>2, <1>4, <1>11, PageStep DEF ScriptInv

LEMMA DecodingFailsStep == ASSUME ScriptInv, NEW s \in decoding, DecodingFails(s) PROVE ScriptInv'
<1> DEFINE pg == Page
           x == [pg EXCEPT !.excused = @ \union {s}]
<1>1. /\ decoding' = decoding \ {s} /\ excused' = excused \union {s}
      /\ UNCHANGED <<remaining, awaited, punctuating, toPage, server>>
      /\ UNCHANGED <<video, generation, mode, known, sent, texts, audio, handled,
                     interrupted, voices, lastVoiceEnd, output, toServer>>
  BY DEF DecodingFails, chunks
<1>2. /\ PageRemembers(pg, toPage, decoding) /\ pg \in Pages /\ InPlace(pg)
      /\ s \in Segments /\ pg.excused = excused
  BY PageFields DEF ScriptInv
<1> HIDE DEF pg
<1>3. /\ x \in Pages /\ x.excused = pg.excused \union {s} /\ x.texts = pg.texts
      /\ x.generation = pg.generation /\ x.mode = pg.mode
      /\ x.known = pg.known /\ x.sent = pg.sent /\ x.audio = pg.audio
      /\ x.toServer = pg.toServer
      /\ x.at = pg.at /\ x.paused = pg.paused /\ x.seeking = pg.seeking
      /\ x.playing = pg.playing /\ x.lastVoiceEnd = pg.lastVoiceEnd
      /\ x.handled = pg.handled /\ x.interrupted = pg.interrupted /\ x.voices = pg.voices
      /\ x.timers = pg.timers
  BY <1>2 DEF Pages
<1> HIDE DEF x
<1>4. InPlace(x)
  BY <1>2, <1>3, SamePageInPlace
<1>5. PageBecomes(x)
  BY <1>1, <1>2, <1>3, PageFields DEF PageBecomes, video, output, pg
<1>6. PageRemembers(x, toPage, decoding \ {s})
  BY <1>2, <1>3, VoiceFails DEF PageRemembers
<1> QED BY <1>1, <1>3, <1>4, <1>5, <1>6, PageStep DEF ScriptInv

LEMMA SubtitleShowsStep == ASSUME ScriptInv, NEW t \in timers, SubtitleShows(t) PROVE ScriptInv'
<1> DEFINE pg == Page
           x == [pg EXCEPT !.timers = @ \ {t}]
<1>1. /\ timers' = timers \ {t}
      /\ UNCHANGED <<remaining, awaited, punctuating, decoding, toPage, server>>
      /\ UNCHANGED <<video, generation, mode, player, playing, toServer, excused>>
  BY DEF SubtitleShows, chunks, player
<1>2. /\ PageRemembers(pg, toPage, decoding) /\ pg \in Pages /\ InPlace(pg)
      /\ pg.timers = timers
  BY PageFields DEF ScriptInv
<1> HIDE DEF pg
<1>3. /\ x \in Pages /\ KeepsRequests(pg, x)
      /\ x.at = pg.at /\ x.paused = pg.paused /\ x.seeking = pg.seeking
      /\ x.playing = pg.playing /\ x.lastVoiceEnd = pg.lastVoiceEnd
      /\ x.handled = pg.handled /\ x.interrupted = pg.interrupted /\ x.voices = pg.voices
      /\ x.timers = pg.timers \ {t}
  BY <1>2 DEF Pages, KeepsRequests
<1> HIDE DEF x
<1>4. InPlace(x) /\ PageRemembers(x, toPage, decoding)
  BY <1>2, <1>3, SamePageInPlace, StaysRemembered DEF PageRemembers
<1>5. PageBecomes(x)
  BY <1>1, <1>2, <1>3, PageFields DEF PageBecomes, video, player, pg, KeepsRequests
<1> QED BY <1>1, <1>3, <1>4, <1>5, PageStep DEF ScriptInv

-----------------------------------------------------------------------------
(* ScriptDubbing: the steps of the pipeline.                                *)
ServerPage == [Page EXCEPT !.toServer = toServer', !.excused = excused']

LEMMA ServerPageIs ==
  ASSUME ScriptInv, toServer' \in Seq(Requests), excused' \subseteq Segments,
         UNCHANGED <<video, generation, mode, player, output>>
  PROVE  /\ ServerPage \in Pages /\ PageBecomes(ServerPage) /\ InPlace(ServerPage)
         /\ SamePage(Page, ServerPage)
         /\ ServerPage.toServer = toServer' /\ ServerPage.excused = excused'
<1> DEFINE pg == Page
           x == [pg EXCEPT !.toServer = toServer', !.excused = excused']
<1>1. pg \in Pages /\ InPlace(pg)
  BY DEF ScriptInv
<1> HIDE DEF pg
<1>2. /\ x \in Pages /\ SamePage(pg, x) /\ x.toServer = toServer' /\ x.excused = excused'
      /\ x.at = pg.at /\ x.paused = pg.paused /\ x.seeking = pg.seeking
      /\ x.playing = pg.playing /\ x.lastVoiceEnd = pg.lastVoiceEnd
      /\ x.handled = pg.handled /\ x.interrupted = pg.interrupted /\ x.voices = pg.voices
      /\ x.timers = pg.timers
  BY <1>1 DEF Pages, SamePage
<1> HIDE DEF x
<1>3. InPlace(x)
  BY <1>1, <1>2, SamePageInPlace
<1>4. PageBecomes(x)
  BY <1>2, PageFields DEF PageBecomes, SamePage, video, player, output, pg
<1> QED BY <1>2, <1>3, <1>4 DEF ServerPage, x, pg

LEMMA ServerStep ==
  ASSUME ScriptInv, NEW x \in Pages, PageBecomes(x), InPlace(x),
         UNCHANGED <<remaining, awaited, decoding>>, punctuating' \subseteq SUBSET Segments,
         toPage' \in Seq(Answers), serverMode' \in Modes,
         Pipeline(queue', accepted', acceptedGeneration', job', serverGeneration'),
         Remembered(x, queue', accepted', acceptedGeneration', job', serverGeneration',
                    serverMode', toPage', decoding)
  PROVE  ScriptInv'
<1>1. Page' = x
  BY PageIs
<1>2. PipelineFits' /\ InPlace(Page)'
  BY <1>1 DEF PipelineFits
<1>3. PageRemembers(Page, toPage, decoding)'
  BY <1>1 DEF PageRemembers
<1> QED BY <1>1, <1>2, <1>3 DEF ScriptInv

LEMMA SeekArrives ==
  ASSUME ScriptInv, ServerReceives, Head(toServer).kind = "seek"
  PROVE  ScriptInv'
<1> DEFINE x == ServerPage
<1>1. /\ toServer # <<>> /\ toServer' = Tail(toServer)
      /\ Reset /\ UNCHANGED <<punctuating, serverMode, job, excused>>
      /\ UNCHANGED <<remaining, awaited, video, generation, mode, player, output, toPage>>
  BY DEF ServerReceives
<1>2. Page \in Pages /\ toServer \in Seq(Requests) /\ excused \subseteq Segments
      /\ PipelineFits /\ PageRemembers(Page, toPage, decoding) /\ toPage \in Seq(Answers)
  BY PageFields DEF ScriptInv, Pages
<1>3. /\ Shorter(toServer, toServer') /\ toServer' \in Seq(Requests)
      /\ toServer[1].kind = "seek"
  BY <1>1, <1>2, Shortens
<1>4. /\ x \in Pages /\ PageBecomes(x) /\ InPlace(x) /\ SamePage(Page, x)
      /\ x.toServer = toServer' /\ x.excused = excused
  BY <1>1, <1>2, <1>3, ServerPageIs
<1> HIDE DEF x
<1>5. Shorter(Page.toServer, x.toServer) /\ Page.toServer[1].kind = "seek"
      /\ x.excused = Page.excused
  BY <1>3, <1>4, PageFields
<1>6. /\ Pipeline(<<>>, {}, serverGeneration + 1, job, serverGeneration + 1)
      /\ Remembered(x, <<>>, {}, serverGeneration + 1, job, serverGeneration + 1, serverMode,
                    toPage, decoding)
  BY <1>2, <1>4, <1>5, SeekReceived DEF PipelineFits, PageRemembers
<1>7. /\ queue' = <<>> /\ accepted' = {} /\ acceptedGeneration' = serverGeneration + 1
      /\ serverGeneration' = serverGeneration + 1 /\ job' = job /\ serverMode' = serverMode
      /\ toPage' = toPage
  BY <1>1 DEF Reset
<1>8. decoding' = decoding
  BY <1>1 DEF player
<1> QED BY <1>1, <1>4, <1>6, <1>7, <1>8, ServerStep DEF ScriptInv

LEMMA OtherArrives ==
  ASSUME ScriptInv, ServerReceives, Head(toServer).kind \in {"mode", "words"}
  PROVE  ScriptInv'
<1> DEFINE x == ServerPage
           m == Head(toServer)
<1>1. /\ toServer # <<>> /\ toServer' = Tail(toServer)
      /\ UNCHANGED <<remaining, awaited, video, generation, mode, player, output, toPage>>
      /\ UNCHANGED <<serverGeneration, queue, accepted, acceptedGeneration, job, excused>>
      /\ serverMode' = IF m.kind = "mode" THEN m.mode ELSE serverMode
      /\ punctuating' = IF m.kind = "mode" THEN punctuating ELSE punctuating \union {m.chunk}
  BY DEF ServerReceives, server
<1>2. Page \in Pages /\ toServer \in Seq(Requests) /\ excused \subseteq Segments
      /\ PipelineFits /\ PageRemembers(Page, toPage, decoding) /\ toPage \in Seq(Answers)
      /\ punctuating \subseteq SUBSET Segments /\ serverMode \in Modes
  BY PageFields DEF ScriptInv, Pages
<1>3. /\ Shorter(toServer, toServer') /\ toServer' \in Seq(Requests)
      /\ toServer[1] = m /\ m \in Requests
  BY <1>1, <1>2, Shortens
<1>4. punctuating' \subseteq SUBSET Segments /\ serverMode' \in Modes
  BY <1>1, <1>2, <1>3, RequestTypes
<1>5. /\ x \in Pages /\ PageBecomes(x) /\ InPlace(x) /\ SamePage(Page, x)
      /\ x.toServer = toServer' /\ x.excused = excused
  BY <1>1, <1>2, <1>3, ServerPageIs
<1> HIDE DEF x, m
<1>6. Shorter(Page.toServer, x.toServer) /\ Page.toServer[1] = m
      /\ x.excused = Page.excused
  BY <1>3, <1>5, PageFields
<1>7. serverGeneration \in Nat
  BY <1>2 DEF PipelineFits, Pipeline
<1>8. Remembered(Page, queue, accepted, acceptedGeneration, job, serverGeneration, serverMode,
                 toPage, decoding)
  BY <1>2 DEF PageRemembers
<1>9. m.kind \in {"mode", "words"}
  BY DEF m
<1>10. Remembered(x, queue, accepted, acceptedGeneration, job, serverGeneration, serverMode',
                 toPage, decoding)
  BY <1>1, <1>2, <1>5, <1>6, <1>7, <1>8, <1>9, OtherReceived
<1>11. decoding' = decoding
  BY <1>1 DEF player
<1>12. Pipeline(queue', accepted', acceptedGeneration', job', serverGeneration')
  BY <1>1, <1>2 DEF PipelineFits
<1> QED BY <1>1, <1>2, <1>4, <1>5, <1>10, <1>11, <1>12, ServerStep

LEMMA SegmentsArrive ==
  ASSUME ScriptInv, ServerReceives, Head(toServer).kind = "segments"
  PROVE  ScriptInv'
<1> DEFINE pg == Page
           x == ServerPage
           m == Head(toServer)
           sg == serverGeneration
           asked == ToSet(m.segments)
<1>1. /\ toServer # <<>> /\ toServer' = Tail(toServer)
      /\ UNCHANGED <<remaining, awaited, video, generation, mode, player, output, toPage>>
      /\ Enqueue(m.segments, m.generation)
      /\ UNCHANGED <<punctuating, serverGeneration, serverMode>>
  BY DEF ServerReceives
<1>2. pg \in Pages /\ toServer \in Seq(Requests) /\ excused \subseteq Segments
      /\ PipelineFits /\ PageRemembers(pg, toPage, decoding) /\ toPage \in Seq(Answers)
      /\ punctuating \subseteq SUBSET Segments /\ serverMode \in Modes
  BY PageFields DEF ScriptInv, Pages
<1>3. /\ Shorter(toServer, toServer') /\ toServer' \in Seq(Requests)
      /\ toServer[1] = m /\ m \in Requests
  BY <1>1, <1>2, Shortens
<1>4. m.kind = "segments" /\ m.segments \in Seq(Segments) /\ asked \subseteq Segments
  BY <1>3, RequestTypes DEF ToSet
<1>5. /\ Counted(toServer, sg, generation) /\ sg \in Nat /\ generation \in Nat
  BY <1>2, PageFields DEF PipelineFits, Pipeline, PageRemembers, Remembered, Pages
<1>6. m.generation = sg
  <2>1. sg = IF toServer[1].kind = "seek" THEN sg + 1 ELSE sg
    BY <1>3, <1>4
  <2> QED BY <1>3, <1>4, <1>5, <2>1, CountsShorter
<1>7. /\ EnqueueGives(m.segments, queue, accepted, acceptedGeneration, job, sg, accepted',
                      queue', job')
      /\ acceptedGeneration' = sg
      /\ excused' = excused \union (asked \ accepted')
  BY <1>1, <1>6 DEF Enqueue, Take, Taken, EnqueueGives
<1>8. excused' \subseteq Segments
  BY <1>2, <1>4, <1>7
<1>9. /\ x \in Pages /\ PageBecomes(x) /\ InPlace(x) /\ SamePage(pg, x)
      /\ x.toServer = toServer' /\ x.excused = excused'
  BY <1>1, <1>2, <1>3, <1>8, ServerPageIs
<1> HIDE DEF x, m, pg
<1>10. /\ Shorter(pg.toServer, x.toServer) /\ m = pg.toServer[1]
       /\ x.excused = pg.excused \union (ToSet(m.segments) \ accepted')
  BY <1>3, <1>7, <1>9, PageFields DEF pg
<1>11. Pipeline(queue, accepted, acceptedGeneration, job, sg)
  BY <1>2 DEF PipelineFits
<1>12. Remembered(pg, queue, accepted, acceptedGeneration, job, sg, serverMode, toPage, decoding)
  BY <1>2 DEF PageRemembers, pg
<1>13. Receives(x, queue', accepted', job', sg, serverMode, toPage, decoding)
  BY <1>2, <1>4, <1>7, <1>9, <1>10, <1>11, <1>12, SegmentsReceived
<1>14. decoding' = decoding
  BY <1>1 DEF player
<1> QED BY <1>1, <1>2, <1>7, <1>9, <1>13, <1>14, ServerStep DEF Receives

LEMMA ServerReceivesStep == ASSUME ScriptInv, ServerReceives PROVE ScriptInv'
<1>1. Head(toServer).kind \in {"segments", "words", "seek", "mode"}
  <2>1. toServer # <<>> /\ toServer \in Seq(Requests)
    BY PageFields DEF ScriptInv, Pages, ServerReceives
  <2>2. Head(toServer) \in Requests
    BY <2>1
  <2> QED BY <2>2, RequestTypes
<1> QED BY <1>1, SeekArrives, OtherArrives, SegmentsArrive
-----------------------------------------------------------------------------
(* ScriptDubbing: the pipeline is done with a sentence, or goes on with it. *)
JobFrame ==
  /\ UNCHANGED <<chunks, video, generation, mode, player, output, toServer>>
  /\ UNCHANGED <<serverGeneration, serverMode, accepted, acceptedGeneration>>

LEMMA JobPage ==
  ASSUME ScriptInv, JobFrame, excused' \subseteq Segments
  PROVE  /\ ServerPage \in Pages /\ PageBecomes(ServerPage) /\ InPlace(ServerPage)
         /\ SamePage(Page, ServerPage) /\ ServerPage.toServer = Page.toServer
         /\ ServerPage.excused = excused' /\ Page.excused = excused
         /\ UNCHANGED <<remaining, awaited, punctuating, decoding>>
         /\ accepted' = accepted /\ acceptedGeneration' = acceptedGeneration
         /\ serverGeneration' = serverGeneration /\ serverMode' = serverMode
         /\ excused \subseteq Segments
<1>1. /\ toServer' = toServer /\ UNCHANGED <<video, generation, mode, player, output>>
      /\ UNCHANGED <<remaining, awaited, punctuating, decoding>>
      /\ accepted' = accepted /\ acceptedGeneration' = acceptedGeneration
      /\ serverGeneration' = serverGeneration /\ serverMode' = serverMode
  BY DEF JobFrame, chunks, player
<1>2. toServer \in Seq(Requests) /\ excused \subseteq Segments
  BY PageFields DEF ScriptInv, Pages
<1>3. toServer' \in Seq(Requests)
  BY <1>1, <1>2
<1>4. /\ ServerPage \in Pages /\ PageBecomes(ServerPage) /\ InPlace(ServerPage)
      /\ SamePage(Page, ServerPage)
      /\ ServerPage.toServer = toServer' /\ ServerPage.excused = excused'
  BY <1>1, <1>3, ServerPageIs
<1> QED BY <1>1, <1>2, <1>4, PageFields

LEMMA JobStep ==
  ASSUME ScriptInv, JobFrame, excused' \subseteq Segments, toPage' \in Seq(Answers),
         Pipeline(queue', accepted, acceptedGeneration, job', serverGeneration),
         Remembered(ServerPage, queue', accepted, acceptedGeneration, job', serverGeneration,
                    serverMode, toPage', decoding)
  PROVE  ScriptInv'
<1> DEFINE x == ServerPage
<1>1. /\ x \in Pages /\ PageBecomes(x) /\ InPlace(x)
      /\ UNCHANGED <<remaining, awaited, punctuating, decoding>>
      /\ accepted' = accepted /\ acceptedGeneration' = acceptedGeneration
      /\ serverGeneration' = serverGeneration /\ serverMode' = serverMode
  BY JobPage
<1>2. Remembered(x, queue', accepted, acceptedGeneration, job', serverGeneration,
                 serverMode, toPage', decoding)
  OBVIOUS
<1>3. punctuating' \subseteq SUBSET Segments /\ serverMode' \in Modes
  BY <1>1 DEF ScriptInv
<1> HIDE DEF x
<1>4. Pipeline(queue', accepted', acceptedGeneration', job', serverGeneration')
  BY <1>1
<1>5. Remembered(x, queue', accepted', acceptedGeneration', job', serverGeneration',
                 serverMode', toPage', decoding)
  BY <1>1, <1>2
<1> QED BY <1>1, <1>3, <1>4, <1>5, ServerStep

LEMMA JobLeaves ==
  ASSUME ScriptInv, JobFrame, Take(queue, acceptedGeneration), toPage' = toPage,
         excused' \subseteq Segments, excused \subseteq excused',
         job.generation # serverGeneration \/ job.segment \in excused'
  PROVE  ScriptInv'
<1> DEFINE x == ServerPage
           pg == Page
<1>1. /\ SamePage(pg, x) /\ x.toServer = pg.toServer /\ pg.excused \subseteq x.excused
      /\ x.excused = excused'
  BY JobPage
<1>2. /\ pg \in Pages /\ toPage \in Seq(Answers)
      /\ Pipeline(queue, accepted, acceptedGeneration, job, serverGeneration)
      /\ Remembered(pg, queue, accepted, acceptedGeneration, job, serverGeneration, serverMode,
                    toPage, decoding)
  BY DEF ScriptInv, PipelineFits, PageRemembers
<1>3. Taken(queue, acceptedGeneration, queue', job')
  BY DEF Take, Taken
<1> HIDE DEF x, pg
<1>4. job.generation # serverGeneration \/ job.segment \in x.excused
  BY <1>1
<1>5. /\ Pipeline(queue', accepted, acceptedGeneration, job', serverGeneration)
      /\ Remembered(x, queue', accepted, acceptedGeneration, job', serverGeneration, serverMode,
                    toPage, decoding)
  BY <1>1, <1>2, <1>3, <1>4, JobLost
<1>6. /\ Remembered(ServerPage, queue', accepted, acceptedGeneration, job', serverGeneration,
                    serverMode, toPage', decoding)
      /\ toPage' \in Seq(Answers)
  BY <1>2, <1>5 DEF x
<1> QED BY <1>5, <1>6, JobStep

LEMMA JobAnswers ==
  ASSUME ScriptInv, JobFrame, Take(queue, acceptedGeneration), NEW voice \in BOOLEAN,
         Answer(voice), job # NoJob, IsCurrent,
         excused' \subseteq Segments, excused \subseteq excused',
         voice \/ serverMode = "subtitle_only" \/ job.segment \in excused'
  PROVE  ScriptInv'
<1> DEFINE x == ServerPage
           pg == Page
           a == [kind |-> "answer", segment |-> job.segment, generation |-> job.generation,
                 voice |-> voice]
<1>1. /\ SamePage(pg, x) /\ x.toServer = pg.toServer /\ pg.excused \subseteq x.excused
      /\ x.excused = excused'
  BY JobPage
<1>2. /\ pg \in Pages /\ toPage \in Seq(Answers)
      /\ Pipeline(queue, accepted, acceptedGeneration, job, serverGeneration)
      /\ Remembered(pg, queue, accepted, acceptedGeneration, job, serverGeneration, serverMode,
                    toPage, decoding)
  BY DEF ScriptInv, PipelineFits, PageRemembers
<1>3. Taken(queue, acceptedGeneration, queue', job')
  BY DEF Take, Taken
<1>4. job \in Jobs /\ job.generation = serverGeneration
  BY <1>2 DEF Pipeline, IsCurrent
<1>5. job.segment \in Segments /\ job.generation \in Nat
  BY <1>4 DEF Jobs
<1>6. /\ a \in Answers /\ AnswerTo(a, serverGeneration, job.segment) /\ a.voice = voice
      /\ toPage' = Append(toPage, a)
  BY <1>4, <1>5 DEF Answers, AnswerTo, Answer
<1> HIDE DEF x, pg, a
<1>7. Longer(toPage, toPage', a) /\ toPage' \in Seq(Answers)
  BY <1>2, <1>6, Lengthens
<1>8. a.voice \/ serverMode = "subtitle_only" \/ job.segment \in x.excused
  BY <1>1, <1>6
<1>9. /\ Pipeline(queue', accepted, acceptedGeneration, job', serverGeneration)
      /\ Remembered(x, queue', accepted, acceptedGeneration, job', serverGeneration, serverMode,
                    toPage', decoding)
  BY <1>1, <1>2, <1>3, <1>4, <1>6, <1>7, <1>8, JobAnswered
<1> QED BY <1>7, <1>9, JobStep DEF x

LEMMA TranslatedStep == ASSUME ScriptInv, Translated PROVE ScriptInv'
<1>1. /\ job.step = "translate" /\ JobFrame
      /\ \/ ~IsCurrent /\ Take(queue, acceptedGeneration) /\ UNCHANGED <<toPage, excused>>
         \/ IsCurrent /\ Loses /\ Take(queue, acceptedGeneration)
         \/ /\ IsCurrent /\ serverMode = "subtitle_only"
            /\ Answer(FALSE) /\ Take(queue, acceptedGeneration) /\ UNCHANGED excused
         \/ /\ IsCurrent /\ serverMode # "subtitle_only"
            /\ job' = [job EXCEPT !.step = "speak"]
            /\ UNCHANGED <<queue, toPage, excused>>
  BY DEF Translated, JobFrame
<1>2. job # NoJob /\ excused \subseteq Segments
  BY <1>1, PageFields DEF NoJob, ScriptInv, Pages
<1>3. /\ Pipeline(queue, accepted, acceptedGeneration, job, serverGeneration)
      /\ toPage \in Seq(Answers)
  BY DEF ScriptInv, PipelineFits
<1>4. CASE ~IsCurrent /\ Take(queue, acceptedGeneration) /\ UNCHANGED <<toPage, excused>>
  BY <1>1, <1>2, <1>4, JobLeaves DEF IsCurrent
<1>5. CASE IsCurrent /\ Loses /\ Take(queue, acceptedGeneration)
  <2>1. job.segment \in Segments
    BY <1>2, <1>3 DEF Pipeline, Jobs
  <2>2. excused' \subseteq Segments /\ excused \subseteq excused' /\ job.segment \in excused'
        /\ toPage' = toPage
    BY <1>2, <1>5, <2>1 DEF Loses
  <2> QED BY <1>1, <1>5, <2>2, JobLeaves
<1>6. CASE /\ IsCurrent /\ serverMode = "subtitle_only"
           /\ Answer(FALSE) /\ Take(queue, acceptedGeneration) /\ UNCHANGED excused
  <2>1. excused' \subseteq Segments /\ excused \subseteq excused'
    BY <1>2, <1>6
  <2> QED BY <1>1, <1>2, <1>6, <2>1, JobAnswers
<1>7. CASE /\ IsCurrent /\ serverMode # "subtitle_only"
           /\ job' = [job EXCEPT !.step = "speak"]
           /\ UNCHANGED <<queue, toPage, excused>>
  <2> DEFINE x == ServerPage
             pg == Page
  <2>1. excused' \subseteq Segments
    BY <1>2, <1>7
  <2>2. /\ SamePage(pg, x) /\ x.toServer = pg.toServer /\ x.excused = pg.excused
    BY <1>1, <1>7, <2>1, JobPage
  <2>3. Remembered(pg, queue, accepted, acceptedGeneration, job, serverGeneration, serverMode,
                   toPage, decoding)
    BY DEF ScriptInv, PageRemembers
  <2> HIDE DEF x, pg
  <2>4. /\ Pipeline(queue, accepted, acceptedGeneration, job', serverGeneration)
        /\ Remembered(pg, queue, accepted, acceptedGeneration, job', serverGeneration,
                      serverMode, toPage, decoding)
    BY <1>2, <1>3, <1>7, <2>3, JobSpeaks
  <2>5. KeepsRequests(pg, x)
    BY <2>2 DEF SamePage, KeepsRequests
  <2>6. Remembered(x, queue, accepted, acceptedGeneration, job', serverGeneration,
                   serverMode, toPage, decoding)
    BY <2>4, <2>5, StaysRemembered
  <2>7. /\ Remembered(ServerPage, queue', accepted, acceptedGeneration, job', serverGeneration,
                      serverMode, toPage', decoding)
        /\ Pipeline(queue', accepted, acceptedGeneration, job', serverGeneration)
        /\ toPage' \in Seq(Answers)
    BY <1>3, <1>7, <2>4, <2>6 DEF x
  <2> QED BY <1>1, <2>1, <2>7, JobStep
<1> QED BY <1>1, <1>4, <1>5, <1>6, <1>7

LEMMA SpokenStep == ASSUME ScriptInv, Spoken PROVE ScriptInv'
<1>1. /\ job.step = "speak" /\ Take(queue, acceptedGeneration) /\ JobFrame
      /\ \/ ~IsCurrent /\ UNCHANGED <<toPage, excused>>
         \/ IsCurrent /\ Loses
         \/ IsCurrent /\ Answer(TRUE) /\ UNCHANGED excused
         \/ IsCurrent /\ Answer(FALSE) /\ excused' = excused \union {job.segment}
  BY DEF Spoken, JobFrame
<1>2. job # NoJob /\ excused \subseteq Segments
  BY <1>1, PageFields DEF NoJob, ScriptInv, Pages
<1>3. job.segment \in Segments
  BY <1>2 DEF ScriptInv, PipelineFits, Pipeline, Jobs
<1>4. CASE ~IsCurrent /\ UNCHANGED <<toPage, excused>>
  BY <1>1, <1>2, <1>4, JobLeaves DEF IsCurrent
<1>5. CASE IsCurrent /\ Loses
  <2>1. excused' \subseteq Segments /\ excused \subseteq excused' /\ job.segment \in excused'
        /\ toPage' = toPage
    BY <1>2, <1>3, <1>5 DEF Loses
  <2> QED BY <1>1, <2>1, JobLeaves
<1>6. CASE IsCurrent /\ Answer(TRUE) /\ UNCHANGED excused
  <2>1. excused' \subseteq Segments /\ excused \subseteq excused'
    BY <1>2, <1>6
  <2> QED BY <1>1, <1>2, <1>6, <2>1, JobAnswers
<1>7. CASE IsCurrent /\ Answer(FALSE) /\ excused' = excused \union {job.segment}
  <2>1. excused' \subseteq Segments /\ excused \subseteq excused' /\ job.segment \in excused'
    BY <1>2, <1>3, <1>7
  <2> QED BY <1>1, <1>2, <1>7, <2>1, JobAnswers
<1> QED BY <1>1, <1>4, <1>5, <1>6, <1>7
-----------------------------------------------------------------------------
(* ScriptDubbing: the invariant holds, and what follows from it.            *)
LEMMA FirstMessages ==
  ASSUME PrepareScript
  PROVE  /\ toServer \in Seq(Requests) /\ \A i \in DOMAIN toServer : toServer[i].kind = "words"
         /\ remaining \in Seq(SUBSET Segments) /\ awaited \subseteq Segments
         /\ known \subseteq Segments /\ at \in 0..Finish
<1>1. CASE known = Segments /\ remaining = <<>> /\ awaited = {} /\ toServer = <<>> /\ at = 0
  BY <1>1, Times
<1>2. ASSUME NEW a \in Segments, NEW b \in Segments, known = {}, at = StartOf(a),
             remaining = OtherChunks(a..b), awaited = a..b, toServer = <<Words(a..b)>>
      PROVE  /\ toServer \in Seq(Requests)
             /\ \A i \in DOMAIN toServer : toServer[i].kind = "words"
             /\ remaining \in Seq(SUBSET Segments) /\ awaited \subseteq Segments
             /\ known \subseteq Segments /\ at \in 0..Finish
  <2>1. a..b \subseteq Segments
    BY Times DEF Segments
  <2> DEFINE m == Words(a..b)
             after == {s \in Segments : \A f \in a..b : s > f}
             before == {s \in Segments : \A f \in a..b : s < f}
             p == IF after = {} THEN <<>> ELSE <<after>>
             r == IF before = {} THEN <<>> ELSE <<before>>
  <2>2. m \in Requests /\ m.kind = "words"
    BY <2>1 DEF Words, Requests
  <2>3. p \in Seq(SUBSET Segments) /\ r \in Seq(SUBSET Segments) /\ remaining = p \o r
    <3>1. after \in SUBSET Segments /\ before \in SUBSET Segments
      OBVIOUS
    <3>2. remaining = p \o r
      BY <1>2 DEF OtherChunks
    <3> HIDE DEF after, before
    <3> QED BY <3>1, <3>2
  <2> HIDE DEF m, p, r
  <2>4. toServer = <<m>>
    BY <1>2 DEF m
  <2>5. toServer \in Seq(Requests) /\ \A i \in DOMAIN toServer : toServer[i].kind = "words"
    BY <2>2, <2>4
  <2>6. remaining \in Seq(SUBSET Segments)
    BY <2>3
  <2>7. at \in 0..Finish
    <3>1. StartOf(a) \in Nat /\ Finish \in Nat /\ StartOf(a) + 1 <= Finish
      BY Times
    <3> QED BY <1>2, <3>1
  <2> QED BY <1>2, <2>1, <2>5, <2>6, <2>7
<1> QED BY <1>1, <1>2 DEF PrepareScript

LEMMA WordsCount ==
  ASSUME NEW out \in Seq(Requests), \A i \in DOMAIN out : out[i].kind = "words"
  PROVE  Counted(out, 1, 1)
<1> DEFINE n == Len(out)
           c == [i \in 0..n |-> 1]
<1>1. n \in Nat /\ DOMAIN out = 1..n
  OBVIOUS
<1> HIDE DEF n
<1>2. c \in [0..n -> 0..1] /\ \A i \in 0..n : c[i] = 1
  OBVIOUS
<1>3. 0 \in 0..n /\ n \in 0..n /\ \A i \in 1..n : i \in 0..n /\ i - 1 \in 0..n
  BY <1>1
<1> HIDE DEF c
<1>4. \A i \in 1..n : out[i].kind # "seek" /\ out[i].kind # "segments"
  BY <1>1
<1>5. \A i \in 1..n : c[i] = c[i - 1]
  BY <1>2, <1>3
<1>6. CountsTo(c, out, 1, 1)
  BY <1>2, <1>3, <1>4, <1>5 DEF CountsTo, n
<1> QED BY <1>2, <1>6 DEF Counted, n

LEMMA ScriptInitInv == ASSUME ScriptInit PROVE ScriptInv
<1> DEFINE pg == Page
<1>1. /\ toServer \in Seq(Requests) /\ \A i \in DOMAIN toServer : toServer[i].kind = "words"
      /\ remaining \in Seq(SUBSET Segments) /\ awaited \subseteq Segments
      /\ known \subseteq Segments /\ at \in 0..Finish
  BY FirstMessages DEF ScriptInit
<1>2. /\ paused = FALSE /\ seeking = FALSE /\ generation = 1 /\ mode \in Modes
      /\ sent = {} /\ texts = {} /\ audio = [s \in Segments |-> 0] /\ decoding = {}
      /\ handled = {} /\ interrupted = {} /\ voices = <<>> /\ lastVoiceEnd = 0
      /\ playing = <<>> /\ timers = {} /\ excused = {}
  BY DEF ScriptInit
<1>3. pg \in Pages
  <2>1. audio \in [Segments -> 0..MaxLength]
    <3>1. 0 \in 0..MaxLength
      BY ScriptAssumption
    <3> QED BY <1>2, <3>1
  <2>2. /\ voices \in Seq(ScriptVoices) /\ playing \in Seq(Sources)
        /\ timers \in SUBSET ScriptVoices /\ paused \in BOOLEAN /\ seeking \in BOOLEAN
        /\ generation \in Nat /\ lastVoiceEnd \in Nat /\ mode \in Modes
    <3>1. <<>> \in Seq(ScriptVoices) /\ <<>> \in Seq(Sources) /\ {} \in SUBSET ScriptVoices
      OBVIOUS
    <3>2. voices = <<>> /\ playing = <<>> /\ timers = {}
      BY <1>2
    <3>3. paused = FALSE /\ seeking = FALSE /\ generation = 1 /\ lastVoiceEnd = 0 /\ mode \in Modes
      BY <1>2
    <3> QED BY ONLY <3>1, <3>2, <3>3
  <2>3. /\ sent \in SUBSET Segments /\ texts \in SUBSET Segments
        /\ handled \in SUBSET Segments /\ interrupted \in SUBSET Segments
        /\ excused \in SUBSET Segments /\ known \in SUBSET Segments
    BY <1>1, <1>2
  <2>4. toServer \in Seq(Requests) /\ at \in 0..Finish
    BY <1>1
  <2> QED BY ONLY <2>1, <2>2, <2>3, <2>4 DEF Page, Pages
<1>4. InPlace(pg)
  BY <1>2, <1>3, PageFields, SilentInPlace
<1>5. /\ queue = <<>> /\ accepted = {} /\ acceptedGeneration = 0 /\ job = NoJob
      /\ serverGeneration = 1 /\ serverMode = mode /\ toPage = <<>> /\ punctuating = {}
  BY DEF ScriptInit
<1>6. PipelineFits
  BY <1>5, EmptyQueue DEF PipelineFits, Pipeline, LoopFits
<1>7. PageRemembers(pg, toPage, decoding)
  <2>1. /\ pg.generation = 1 /\ pg.mode = mode /\ pg.known = known /\ pg.sent = {}
        /\ pg.texts = {} /\ pg.toServer = toServer
    BY <1>2, PageFields
  <2>2. Counted(toServer, 1, 1)
    BY <1>1, WordsCount
  <2>3. AskedOnce(toServer, 1, {}, accepted, acceptedGeneration)
    <3>1. \A s \in Segments, i \in DOMAIN toServer : ~AsksFor(toServer[i], 1, s)
      BY <1>1 DEF AsksFor
    <3> QED BY <1>5, <3>1 DEF AskedOnce
  <2>4. Answered(toPage, 1, {}, 1)
    BY <1>5 DEF Answered
  <2>5. ModeFollows(toServer, mode, serverMode)
    BY <1>1, <1>5 DEF ModeFollows
  <2> HIDE DEF pg
  <2> QED BY <1>2, <1>5, <2>1, <2>2, <2>3, <2>4, <2>5 DEF PageRemembers, Remembered
<1>8. /\ punctuating \subseteq SUBSET Segments /\ decoding \subseteq Segments
      /\ toPage \in Seq(Answers) /\ serverMode \in Modes
  BY <1>2, <1>5
<1> QED BY <1>1, <1>3, <1>4, <1>6, <1>7, <1>8 DEF ScriptInv

LEMMA ScriptStutters == ASSUME ScriptInv, UNCHANGED scriptVars PROVE ScriptInv'
<1>1. /\ UNCHANGED <<video, player, output, generation, mode, toServer, excused>>
      /\ UNCHANGED <<remaining, awaited, punctuating, decoding, toPage, server>>
  BY DEF scriptVars, chunks, player
<1>2. PageBecomes(Page)
  BY <1>1, PageFields DEF PageBecomes, video, player, output
<1> QED BY <1>1, <1>2, PageStep DEF ScriptInv

LEMMA ScriptStep == ASSUME ScriptInv, [ScriptNext]_scriptVars PROVE ScriptInv'
<1>1. CASE PlayerTicks \/ Pause \/ Resume \/ BeginSeek \/ EndSeek \/ ChangeMode
  BY <1>1, PlayerTicksStep, PauseStep, ResumeStep, BeginSeekStep, EndSeekStep, ChangeModeStep
<1>2. CASE ServerReceives \/ Translated \/ Spoken \/ PageReceives
  BY <1>2, ServerReceivesStep, TranslatedStep, SpokenStep, PageReceivesStep
<1>3. CASE \E c \in punctuating : Punctuated(c)
  BY <1>3, PunctuatedStep
<1>4. CASE ChunkTimesOut \/ SentencesArrive
  BY <1>4, ChunkTimesOutStep, SentencesArriveStep
<1>5. CASE \E s \in decoding : Decoded(s) \/ DecodingFails(s)
  BY <1>5, DecodedStep, DecodingFailsStep
<1>6. CASE TimePasses \/ \E t \in timers : SubtitleShows(t)
  BY <1>6, TimePassesStep, SubtitleShowsStep
<1>7. CASE UNCHANGED scriptVars
  BY <1>7, ScriptStutters
<1> QED BY <1>1, <1>2, <1>3, <1>4, <1>5, <1>6, <1>7 DEF ScriptNext

(* In every behaviour of the dubbing from captions, its invariant holds.    *)
THEOREM ScriptInvariant == ScriptSpec => []ScriptInv
<1>1. ScriptInit => ScriptInv
  BY ScriptInitInv
<1>2. ScriptInv /\ [ScriptNext]_scriptVars => ScriptInv'
  BY ScriptStep
<1> QED BY <1>1, <1>2, PTL DEF ScriptSpec

LEMMA ScriptTypes == ASSUME ScriptInv PROVE ScriptTypeOK
<1>1. /\ at \in 0..Finish /\ paused \in BOOLEAN /\ seeking \in BOOLEAN /\ generation \in Nat
      /\ mode \in Modes /\ known \subseteq Segments /\ sent \subseteq Segments
      /\ texts \subseteq Segments /\ audio \in [Segments -> 0..MaxLength]
      /\ handled \subseteq Segments /\ interrupted \subseteq Segments
      /\ voices \in Seq(ScriptVoices) /\ lastVoiceEnd \in Nat
      /\ playing \in Seq(Sources) /\ timers \in SUBSET ScriptVoices
      /\ toServer \in Seq(Requests) /\ excused \subseteq Segments
  BY PageFields DEF ScriptInv, Pages
<1>2. /\ serverGeneration \in Nat /\ acceptedGeneration \in Nat /\ queue \in Seq(Segments)
      /\ accepted \subseteq Segments /\ job \in Jobs \union {NoJob}
  BY DEF ScriptInv, PipelineFits, Pipeline
<1> QED BY <1>1, <1>2 DEF ScriptInv, ScriptTypeOK, ScriptVoices, Sources

(* However the user seeks and pauses while voices are decoded, scheduled    *)
(* and heard, no two voices overlap and none runs ahead of its sentence.    *)
THEOREM VoicesStayInPlace == ScriptSpec => []VoiceInPlace
<1>1. ASSUME ScriptInv PROVE VoiceInPlace
  <2>1. /\ \A i, j \in DOMAIN playing : i < j => playing[i].upto <= playing[j].from
        /\ ~seeking /\ at < Finish =>
             \A i \in DOMAIN playing : playing[i].from > 0 =>
               at + playing[i].from >= StartOf(playing[i].segment) + playing[i].skipped
    BY <1>1, PageFields DEF ScriptInv, InPlace, InTurn, NotAhead
  <2> QED BY <1>1, <2>1, ScriptTypes DEF VoiceInPlace
<1> QED BY <1>1, ScriptInvariant, PTL

(* Whatever the player has asked for and will not ask for again is still on *)
(* its way, in the generation and the mode both ends accept, unless the     *)
(* code gave it up.                                                         *)
THEOREM NothingIsForgotten == ScriptSpec => []NothingForgotten
<1>1. ASSUME ScriptInv PROVE NothingForgotten
  <2> SUFFICES ASSUME NEW s \in sent \ excused PROVE IsComplete(Page, s) \/ OnItsWay(s)
    BY DEF NothingForgotten
  <2>1. /\ Pipeline(queue, accepted, acceptedGeneration, job, serverGeneration)
        /\ Page \in Pages /\ PageRemembers(Page, toPage, decoding)
    BY <1>1 DEF ScriptInv, PipelineFits
  <2>2. /\ Counted(toServer, serverGeneration, generation)
        /\ AskedOnce(toServer, generation, sent, accepted, acceptedGeneration)
        /\ IsComplete(Page, s) \/ Coming(s, toServer, generation, queue, acceptedGeneration, job,
                                         toPage, decoding)
    BY <2>1, PageFields DEF PageRemembers, Remembered
  <2>3. generation \in Nat /\ serverGeneration \in Nat
    BY <2>1, PageFields DEF Pages, Pipeline
  <2>4. /\ serverGeneration <= generation
        /\ serverGeneration = generation => \A i \in DOMAIN toServer : toServer[i].kind # "seek"
    BY <2>1, <2>2, <2>3, RequestsAgree, PageFields
  <2>5. CASE \E i \in DOMAIN toServer : AsksFor(toServer[i], generation, s)
    BY <2>5 DEF AsksFor, OnItsWay
  <2>6. CASE WorkedOn(s, generation, queue, acceptedGeneration, job)
    <3>1. serverGeneration = generation
      BY <2>1, <2>2, <2>3, <2>4, <2>6, WorkIsSent
    <3>2. ~SeekPending
      BY <2>4, <3>1 DEF SeekPending
    <3> QED BY <2>6, <3>1, <3>2 DEF WorkedOn, OnItsWay
  <2>7. CASE (\E i \in DOMAIN toPage : AnswerTo(toPage[i], generation, s)) \/ s \in decoding
    BY <2>7 DEF AnswerTo, OnItsWay
  <2> QED BY <2>2, <2>5, <2>6, <2>7 DEF Coming
<1> QED BY <1>1, ScriptInvariant, PTL

(* The pipeline's loop works whenever there is work, on each sentence of a  *)
(* generation once, and on nothing of an older generation that it queued.   *)
THEOREM ScriptLoopIsSound == ScriptSpec => []ScriptLoopSound
<1>1. ASSUME ScriptInv PROVE ScriptLoopSound
  BY <1>1 DEF ScriptInv, PipelineFits, Pipeline, LoopFits, ScriptLoopSound
<1> QED BY <1>1, ScriptInvariant, PTL
=============================================================================
