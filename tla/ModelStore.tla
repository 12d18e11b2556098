----------------------------- MODULE ModelStore -----------------------------
(***************************************************************************)
(* The model files: how install_models.mjs puts them on the disk, and how   *)
(* LocalModelManager decides whether they are those of the manifest without *)
(* reading gigabytes again, by a cache of hashes that outlives the process. *)
(*                                                                          *)
(* One artifact stands for all: each is looked at by itself.  Its content   *)
(* is the right one, or another of the right size or of another size; its   *)
(* stamp stands for mtime and ctime, which every change of the file sets.   *)
(***************************************************************************)
EXTENDS Naturals, FiniteSets

CONSTANT MaxStamp      \* bound: changes of the artifact

ASSUME StampAssumption == MaxStamp \in Nat

Contents == {"missing", "genuine", "sameSize", "otherSize"}

VARIABLES
  file,          \* the artifact
  manifestFile,  \* manifest.json
  installing,    \* how far install_models.mjs is
  manifest,      \* of the backend: the manifest was read
  hashCache,     \* of the backend: artifactHashCache, one entry or none
  hashFile       \* .verified-hashes.json

disk == <<file, manifestFile, installing, hashFile>>
storeVars == <<disk, manifest, hashCache>>

Sha(content) == IF content = "genuine" THEN "pinned" ELSE "another"

Manifests == {"none", "valid", "invalid"}

Entries == [stamp : 0..MaxStamp, sha : {"pinned", "another"}]

StoreTypeOK ==
  /\ file \in [content : Contents, stamp : 0..MaxStamp]
  /\ manifestFile \in Manifests /\ manifest \in BOOLEAN
  /\ installing \in {"no", "downloading", "verified"}
  /\ hashCache \subseteq Entries /\ Cardinality(hashCache) <= 1
  /\ hashFile \subseteq Entries /\ Cardinality(hashFile) <= 1

(* readManifest: nothing is read of one that lacks a field, or whose paths  *)
(* leave the directory of the models.                                       *)
ReadManifest == manifestFile = "valid"

StoreInit ==
  /\ file \in [content : {"missing", "genuine", "sameSize"}, stamp : {0}]
  /\ manifestFile \in Manifests /\ manifest = ReadManifest
  /\ installing = "no" /\ hashCache = {} /\ hashFile = {}

Changed(content) == [content |-> content, stamp |-> file.stamp + 1]
-----------------------------------------------------------------------------
(* install_models.mjs.  It keeps what is installed already, and stops at a  *)
(* file that is not the one it wants.                                       *)
InstallStarts ==
  /\ manifestFile = "none" /\ installing = "no"
  /\ \/ file.content = "missing" /\ installing' = "downloading"
     \/ file.content = "genuine" /\ installing' = "verified"
  /\ UNCHANGED <<file, manifestFile, hashFile, manifest, hashCache>>

(* downloadVerifiedModel: the parts go to a file of their own, which takes  *)
(* the place of the destination when its size and digest are the pinned     *)
(* ones, and is removed otherwise.                                          *)
DownloadEnds ==
  /\ installing = "downloading"
  /\ \/ /\ file.stamp < MaxStamp
        /\ file' = Changed("genuine") /\ installing' = "verified"
     \/ UNCHANGED file /\ installing' = "no"
  /\ UNCHANGED <<manifestFile, hashFile, manifest, hashCache>>

(* The manifest is written last, so that a half-made installation is none.  *)
WriteManifest ==
  /\ installing = "verified"
  /\ installing' = "no" /\ manifestFile' = "valid"
  /\ UNCHANGED <<file, hashFile, manifest, hashCache>>

InstallDies ==
  /\ installing # "no" /\ installing' = "no"
  /\ UNCHANGED <<file, manifestFile, hashFile, manifest, hashCache>>

(* Somebody else writes, restores or removes the file.                      *)
FileChanges ==
  /\ file.stamp < MaxStamp
  /\ file' \in {Changed(c) : c \in Contents}
  /\ UNCHANGED <<manifestFile, installing, hashFile, manifest, hashCache>>
-----------------------------------------------------------------------------
(* LocalModelManager.                                                       *)

(* The constructor, when a backend process starts.                          *)
OpenStore == manifest' = ReadManifest /\ hashCache' = hashFile

(* The new file of hashes takes the place of the old one, if it can be      *)
(* written.                                                                 *)
SaveHashCache == hashFile' \in {hashFile, hashCache'}

(* The file is hashed after it was inspected, and may change in between:    *)
(* the hash of what was read is stored under the stamp that was seen.       *)
Hash ==
  /\ file' \in {file} \union
       (IF file.stamp < MaxStamp THEN {Changed(c) : c \in Contents \ {"missing"}} ELSE {})
  /\ hashCache' = {[stamp |-> file.stamp, sha |-> Sha(file'.content)]}
  /\ SaveHashCache

Unhashed == file.content \in {"missing", "otherSize"}
Known == \E e \in hashCache : e.stamp = file.stamp

(* Faulty: the path alone is the key of the cache.                          *)
HashOnce ==
  IF hashCache # {} THEN UNCHANGED <<file, hashCache, hashFile>> ELSE Hash

(* getArtifactSha256, for a file that is there and has the right size.      *)
GetArtifactSha256 == IF Known THEN UNCHANGED <<file, hashCache, hashFile>> ELSE Hash

(* checkComponent: ok says whether the artifact passes.                     *)
CheckComponent(ok) ==
  /\ IF ~manifest \/ Unhashed THEN UNCHANGED <<file, hashCache, hashFile>> ELSE GetArtifactSha256
  /\ ok = (manifest /\ ~Unhashed /\ \E e \in hashCache' : e.sha = "pinned")
  /\ UNCHANGED <<manifest, manifestFile, installing>>

StoreStep ==
  \/ InstallStarts
  \/ DownloadEnds
  \/ WriteManifest
  \/ InstallDies
  \/ FileChanges
-----------------------------------------------------------------------------
(* A hash that the cache or its file holds for the present stamp is that of *)
(* the present content: no other file is taken for the verified one.        *)
HashesTellTruth ==
  /\ StoreTypeOK
  /\ \A e \in hashCache \union hashFile : e.stamp = file.stamp => e.sha = Sha(file.content)
=============================================================================
