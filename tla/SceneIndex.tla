------------------------------ MODULE SceneIndex ------------------------------
(***************************************************************************)
(* Concurrent uploads, from the moment ProcessUpload has validated the     *)
(* request to its reply, one storage write or Redis command per step:      *)
(*                                                                         *)
(*   save    Storage.SaveFile of every uploaded part     (random order)    *)
(*   record  HSET content_<root> and SADD uploaded-content, per CID group  *)
(*   get     GET <parcel> of every parcel, in order  \                     *)
(*   del     DEL <old root>, in random order          |  SetSceneParcels   *)
(*   push    LPUSH <root> parcels                     |                    *)
(*   set     SET <parcel> <root>, in order           /                     *)
(*   flag    SADD processed <parcel>, in order                             *)
(*   meta    HMSET metadata_<root>                                         *)
(*   scene   SET root-scene:<root>                   \  SaveRootCidSceneCid*)
(*   root    SET root-scene:<scene cid>              /                     *)
(*                                                                         *)
(* Nothing serialises uploads: every request runs in its own goroutine     *)
(* (and there may be several server processes), so the steps of different  *)
(* uploads interleave freely, and any step may fail or be the last one     *)
(* before a crash.                                                         *)
(***************************************************************************)
EXTENDS Integers, FiniteSets, SequencesExt

CONSTANTS
    Uploads,        \* the upload requests the servers receive
    Roots,          \* root CIDs
    Parcels,        \* parcel ids, "x,y"
    Cids,           \* CIDs of files and of directory entries
    Names,          \* manifest paths
    Dirs,           \* the paths that end in "/"
    SceneNames,     \* the paths that contain "scene.json"
    NoRoot,         \* answer of GET for a parcel key that is not set
    NoCid,          \* answer of HGET / GET for a CID that is not set
    EmptyCid,       \* the empty string used as a scene CID
    Requests        \* the requests that pass the signature and access checks

FileMetadata == [name : Names, cid : Cids]

UploadRequest == [root : Roots, scene : Seq(Parcels),
                  manifest : Seq(FileMetadata), parts : SUBSET Cids]

(***************************************************************************)
(* A validated request names at least one parcel (UserCanModifyParcels     *)
(* rejects an empty list) and carries at least the scene.json part; it has *)
(* no more parts than manifest entries (parseRequest).                     *)
(***************************************************************************)
ASSUME RequestsAssumption ==
    /\ Requests \subseteq UploadRequest
    /\ \A q \in Requests : q.scene # <<>> /\ q.manifest # <<>> /\ q.parts # {}

ASSUME NamesAssumption == Dirs \subseteq Names /\ SceneNames \subseteq Names

ASSUME NoneAssumption ==
    NoRoot \notin Roots /\ NoCid \notin Cids /\ EmptyCid \notin Cids \cup {NoCid}

VARIABLES
    storage,        \* CIDs that have an object in the content storage
    content,        \* content[r][n]: field n of the hash content_<r>
    uploaded,       \* members of the set uploaded-content
    parcelRoot,     \* value of the key <parcel>
    sceneParcels,   \* the list under the key <root>
    processed,      \* members of the set of processed parcels
    metadata,       \* roots that have a hash metadata_<root>
    sceneOf,        \* value of the key root-scene:<root>
    rootOf,         \* value of the key root-scene:<scene cid>
    pc,             \* pc[u]: the step upload u takes next
    req,            \* req[u]: the request u is processing
    parts,          \* parts[u]: uploaded parts not saved yet
    entries,        \* entries[u]: manifest entries not recorded yet
    group,          \* group[u]: CID whose paths u is recording, or NoCid
    idx,            \* idx[u]: position in the parcel loop u is in
    old,            \* old[u]: roots u has read and not deleted yet (cids)
    overlap,        \* history: parcels that two uploads were indexing at once
    alone           \* history: see EnterIndex

store   == <<storage, content, uploaded>>
index   == <<parcelRoot, sceneParcels, processed>>
publish == <<metadata, sceneOf, rootOf>>
work    == <<req, parts, entries, group, idx, old>>
history == <<overlap, alone>>
vars    == <<store, index, publish, pc, work, history>>

Indexing == {"get", "del", "push", "set", "setx"}
Settling == {"flag", "meta", "scene", "root"}
InFlight == {"save", "record"} \cup Indexing \cup Settling
Finished == {"rejected", "ok", "error", "torn"}
Stages   == {"idle"} \cup InFlight \cup Finished

(***************************************************************************)
(* What a request says.                                                    *)
(***************************************************************************)
Entries(q)  == Range(q.manifest)
Files(q)    == {e \in Entries(q) : e.name \notin Dirs}
Claims(q)   == Range(q.scene)

\* Position of the first manifest entry whose path contains "scene.json".
SceneEntry(q) ==
    LET hits == {i \in DOMAIN q.manifest : q.manifest[i].name \in SceneNames}
    IN  IF hits = {} THEN 0 ELSE CHOOSE i \in hits : \A j \in hits : i <= j

SceneCid(q) ==
    IF SceneEntry(q) = 0 THEN EmptyCid ELSE q.manifest[SceneEntry(q)].cid

\* Every file of the manifest comes with the request or is in the storage.
Available(q) == \A e \in Files(q) : e.cid \in q.parts \cup storage

ShareParcel(q, r) == Claims(q) \cap Claims(r) # {}
Related(q, r) ==
    ShareParcel(q, r) \/ q.root = r.root \/ SceneCid(q) = SceneCid(r)

-------------------------------------------------------------------------------

Init ==
    /\ storage = {}
    /\ content = [r \in Roots |-> [n \in Names |-> NoCid]]
    /\ uploaded = {}
    /\ parcelRoot = [p \in Parcels |-> NoRoot]
    /\ sceneParcels = [r \in Roots |-> <<>>]
    /\ processed = {}
    /\ metadata = {}
    /\ sceneOf = [r \in Roots |-> NoCid]
    /\ rootOf = [c \in Cids \cup {EmptyCid} |-> NoRoot]
    /\ pc = [u \in Uploads |-> "idle"]
    /\ req \in [Uploads -> Requests]
    /\ parts = [u \in Uploads |-> {}]
    /\ entries = [u \in Uploads |-> {}]
    /\ group = [u \in Uploads |-> NoCid]
    /\ idx = [u \in Uploads |-> 1]
    /\ old = [u \in Uploads |-> {}]
    /\ overlap = {}
    /\ alone = [u \in Uploads |-> FALSE]

Goto(u, stage) == pc' = [pc EXCEPT ![u] = stage]

\* Mutant: missing files are not looked for in the storage.
AcceptUnchecked(u) ==
    /\ pc[u] = "idle"
    /\ parts' = [parts EXCEPT ![u] = req[u].parts]
    /\ entries' = [entries EXCEPT ![u] = Entries(req[u])]
    /\ Goto(u, "save")
    /\ UNCHANGED <<store, index, publish, req, group, idx, old, history>>

(***************************************************************************)
(* ProcessUpload up to validateContentCID: a file that is neither a part   *)
(* of the request nor in the storage makes it an invalid argument.         *)
(***************************************************************************)
AcceptUpload(u) ==
    /\ pc[u] = "idle"
    /\ Available(req[u])
    /\ parts' = [parts EXCEPT ![u] = req[u].parts]
    /\ entries' = [entries EXCEPT ![u] = Entries(req[u])]
    /\ Goto(u, "save")
    /\ UNCHANGED <<store, index, publish, req, group, idx, old, history>>

RejectUpload(u) ==
    /\ pc[u] = "idle"
    /\ ~ Available(req[u])
    /\ Goto(u, "rejected")
    /\ UNCHANGED <<store, index, publish, work, history>>

(***************************************************************************)
(* processUploadedFiles: every part is saved, then every group of paths    *)
(* with the same CID is recorded and its CID marked as uploaded.           *)
(***************************************************************************)
SaveFile(u, c) ==
    /\ pc[u] = "save"
    /\ c \in parts[u]
    /\ storage' = storage \cup {c}
    /\ parts' = [parts EXCEPT ![u] = @ \ {c}]
    /\ Goto(u, IF parts[u] = {c} THEN "record" ELSE "save")
    /\ UNCHANGED <<content, uploaded, index, publish, req, entries, group,
                   idx, old, history>>

StoreContent(u, e) ==
    /\ pc[u] = "record"
    /\ e \in entries[u]
    /\ group[u] \in {NoCid, e.cid}
    /\ content' = [content EXCEPT ![req[u].root][e.name] = e.cid]
    /\ entries' = [entries EXCEPT ![u] = @ \ {e}]
    /\ group' = [group EXCEPT ![u] = e.cid]
    /\ UNCHANGED <<storage, uploaded, index, publish, pc, req, parts, idx, old,
                   history>>

(***************************************************************************)
(* The bookkeeping of an upload that enters SetSceneParcels.  overlap      *)
(* remembers the parcels another upload was inside for too.  alone[u] says *)
(* that no related upload was being published when u got here and that     *)
(* none has come here since.                                               *)
(***************************************************************************)
EnterIndex(u) ==
    /\ overlap' = overlap \cup {p \in Claims(req[u]) :
                       \E w \in Uploads \ {u} : pc[w] \in Indexing /\ p \in Claims(req[w])}
    /\ alone' = [w \in Uploads |->
                    IF w = u
                    THEN \A v \in Uploads \ {u} :
                            pc[v] \in Indexing \cup Settling => ~ Related(req[u], req[v])
                    ELSE alone[w] /\ ~ Related(req[u], req[w])]

\* Mutant: the loop over the CID groups returns after the first one.
AddCIDReturns(u) ==
    /\ pc[u] = "record"
    /\ group[u] # NoCid
    /\ \A e \in entries[u] : e.cid # group[u]
    /\ uploaded' = uploaded \cup {group[u]}
    /\ group' = [group EXCEPT ![u] = NoCid]
    /\ Goto(u, "get")
    /\ EnterIndex(u)
    /\ UNCHANGED <<storage, content, index, publish, req, parts, entries, idx, old>>

AddCID(u) ==
    /\ pc[u] = "record"
    /\ group[u] # NoCid
    /\ \A e \in entries[u] : e.cid # group[u]
    /\ uploaded' = uploaded \cup {group[u]}
    /\ group' = [group EXCEPT ![u] = NoCid]
    /\ \/ /\ entries[u] # {}
          /\ UNCHANGED <<pc, history>>
       \/ /\ entries[u] = {}
          /\ Goto(u, "get")
          /\ EnterIndex(u)
    /\ UNCHANGED <<storage, content, index, publish, req, parts, entries, idx, old>>

(***************************************************************************)
(* SetSceneParcels.  A parcel key that is not set reads as "": NoRoot is   *)
(* then one of the keys to delete, and deleting it changes nothing.        *)
(***************************************************************************)
Here(u) == req[u].scene[idx[u]]
AtLast(u) == idx[u] = Len(req[u].scene)
\* Mutant: one iteration too many.
NextParcelPastEnd(u) == idx' = [idx EXCEPT ![u] = @ + 1]
NextParcel(u) == idx' = [idx EXCEPT ![u] = IF AtLast(u) THEN 1 ELSE @ + 1]

\* Mutant: only the first parcel's previous scene is looked up.
GetFirstParcelCID(u) ==
    /\ pc[u] = "get"
    /\ old' = [old EXCEPT ![u] = {parcelRoot[Here(u)]}]
    /\ Goto(u, "del")
    /\ UNCHANGED <<store, index, publish, req, parts, entries, group, idx, history>>

\* Mutant: the map of previous scenes is shared by the uploads.
GetParcelCIDShared(u) ==
    /\ pc[u] = "get"
    /\ old' = [w \in Uploads |-> IF w = u \/ pc[w] \in {"get", "del"}
                                THEN old[w] \cup {parcelRoot[Here(u)]} ELSE old[w]]
    /\ NextParcel(u)
    /\ Goto(u, IF AtLast(u) THEN "del" ELSE "get")
    /\ UNCHANGED <<store, index, publish, req, parts, entries, group, history>>

GetParcelCID(u) ==
    /\ pc[u] = "get"
    /\ old' = [old EXCEPT ![u] = @ \cup {parcelRoot[Here(u)]}]
    /\ NextParcel(u)
    /\ Goto(u, IF AtLast(u) THEN "del" ELSE "get")
    /\ UNCHANGED <<store, index, publish, req, parts, entries, group, history>>

\* Mutant: one previous scene is deleted, the others are left.
DeleteOneOldScene(u, r) ==
    /\ pc[u] = "del"
    /\ r \in old[u]
    /\ sceneParcels' = [s \in Roots |-> IF s = r THEN <<>> ELSE sceneParcels[s]]
    /\ old' = [old EXCEPT ![u] = {}]
    /\ Goto(u, "push")
    /\ UNCHANGED <<store, parcelRoot, processed, publish, req, parts, entries,
                   group, idx, history>>

\* Mutant: the loop never leaves a scene it has deleted.
DeleteOldSceneForever(u, r) ==
    /\ pc[u] = "del"
    /\ r \in old[u]
    /\ sceneParcels' = [s \in Roots |-> IF s = r THEN <<>> ELSE sceneParcels[s]]
    /\ UNCHANGED <<store, parcelRoot, processed, publish, pc, work, history>>

DeleteOldScene(u, r) ==
    /\ pc[u] = "del"
    /\ r \in old[u]
    /\ sceneParcels' = [s \in Roots |-> IF s = r THEN <<>> ELSE sceneParcels[s]]
    /\ old' = [old EXCEPT ![u] = @ \ {r}]
    /\ Goto(u, IF old[u] = {r} THEN "push" ELSE "del")
    /\ UNCHANGED <<store, parcelRoot, processed, publish, req, parts, entries,
                   group, idx, history>>

Pushed(u) == [sceneParcels EXCEPT ![req[u].root] = Reverse(req[u].scene) \o @]

PushParcels(u) ==
    /\ pc[u] = "push"
    /\ sceneParcels' = Pushed(u)
    /\ Goto(u, "set")
    /\ UNCHANGED <<store, parcelRoot, processed, publish, work, history>>

\* An error of LPUSH (which may have been applied) is returned only after
\* the parcel keys have been set.
PushError(u) ==
    /\ pc[u] = "push"
    /\ sceneParcels' \in {sceneParcels, Pushed(u)}
    /\ Goto(u, "setx")
    /\ UNCHANGED <<store, parcelRoot, processed, publish, work, history>>

\* Mutant: SETNX, a parcel keeps the first scene it got.
SetParcelOnce(u) ==
    /\ pc[u] \in {"set", "setx"}
    /\ parcelRoot' = [parcelRoot EXCEPT ![Here(u)] =
                         IF @ = NoRoot THEN req[u].root ELSE @]
    /\ NextParcel(u)
    /\ Goto(u, CASE ~ AtLast(u) -> pc[u]
                 [] AtLast(u) /\ pc[u] = "set" -> "flag"
                 [] AtLast(u) /\ pc[u] = "setx" -> "error")
    /\ UNCHANGED <<store, sceneParcels, processed, publish, req, parts, entries,
                   group, old, history>>

SetParcel(u) ==
    /\ pc[u] \in {"set", "setx"}
    /\ parcelRoot' = [parcelRoot EXCEPT ![Here(u)] = req[u].root]
    /\ NextParcel(u)
    /\ Goto(u, CASE ~ AtLast(u) -> pc[u]
                 [] AtLast(u) /\ pc[u] = "set" -> "flag"
                 [] AtLast(u) /\ pc[u] = "setx" -> "error")
    /\ UNCHANGED <<store, sceneParcels, processed, publish, req, parts, entries,
                   group, old, history>>

\* Mutant: only the first parcel is marked.
SetFirstProcessed(u) ==
    /\ pc[u] = "flag"
    /\ processed' = processed \cup {Here(u)}
    /\ Goto(u, "meta")
    /\ UNCHANGED <<store, parcelRoot, sceneParcels, publish, work, history>>

\* Mutant: ProcessUpload returns once the parcels are marked.
SetProcessedReturns(u) ==
    /\ pc[u] = "flag"
    /\ processed' = processed \cup {Here(u)}
    /\ NextParcel(u)
    /\ Goto(u, IF AtLast(u) THEN "ok" ELSE "flag")
    /\ UNCHANGED <<store, parcelRoot, sceneParcels, publish, req, parts, entries,
                   group, old, history>>

\* The rest of storeParcelsInformation.
SetProcessedParcel(u) ==
    /\ pc[u] = "flag"
    /\ processed' = processed \cup {Here(u)}
    /\ NextParcel(u)
    /\ Goto(u, IF AtLast(u) THEN "meta" ELSE "flag")
    /\ UNCHANGED <<store, parcelRoot, sceneParcels, publish, req, parts, entries,
                   group, old, history>>

StoreMetadata(u) ==
    /\ pc[u] = "meta"
    /\ metadata' = metadata \cup {req[u].root}
    /\ Goto(u, "scene")
    /\ UNCHANGED <<store, index, sceneOf, rootOf, work, history>>

\* SaveRootCidSceneCid: two independent keys.
SaveSceneCid(u) ==
    /\ pc[u] = "scene"
    /\ sceneOf' = [sceneOf EXCEPT ![req[u].root] = SceneCid(req[u])]
    /\ Goto(u, "root")
    /\ UNCHANGED <<store, index, metadata, rootOf, work, history>>

\* The command may be applied and its reply lost.
SaveRootCid(u) ==
    /\ pc[u] = "root"
    /\ rootOf' = [rootOf EXCEPT ![SceneCid(req[u])] = req[u].root]
    /\ \E reply \in {"ok", "error"} : Goto(u, reply)
    /\ UNCHANGED <<store, index, metadata, sceneOf, work, history>>

(***************************************************************************)
(* A write fails, or the server dies, before the next write of u is        *)
(* applied: nothing is undone and u takes no further step.  (A write that  *)
(* is applied and then reported as failed ends in the same state one step  *)
(* later.)  An upload that stops while it sets the parcel keys is torn.    *)
(***************************************************************************)
Fail(u) ==
    /\ pc[u] \in InFlight
    /\ Goto(u, IF pc[u] \in {"set", "setx"} THEN "torn" ELSE "error")
    /\ UNCHANGED <<store, index, publish, work, history>>

\* POST /content/status: a CID found in the storage is remembered.
CheckContentInStorage(c) ==
    /\ c \in storage \ uploaded
    /\ uploaded' = uploaded \cup {c}
    /\ UNCHANGED <<storage, content, index, publish, pc, work, history>>

Progress(u) ==
    \/ \E c \in Cids : SaveFile(u, c)
    \/ \E e \in FileMetadata : StoreContent(u, e)
    \/ AddCID(u)
    \/ GetParcelCID(u)
    \/ \E r \in Roots \cup {NoRoot} : DeleteOldScene(u, r)
    \/ PushParcels(u)
    \/ PushError(u)
    \/ SetParcel(u)
    \/ SetProcessedParcel(u)
    \/ StoreMetadata(u)
    \/ SaveSceneCid(u)
    \/ SaveRootCid(u)

Step(u) == AcceptUpload(u) \/ RejectUpload(u) \/ Progress(u) \/ Fail(u)

Next == (\E u \in Uploads : Step(u)) \/ (\E c \in Cids : CheckContentInStorage(c))

Spec == Init /\ [][Next]_vars

\* A goroutine keeps running: each storage or Redis call returns, with an
\* error if need be, so an upload that was accepted takes its next step.
Fairness == \A u \in Uploads : WF_vars(Progress(u))

FairSpec == Spec /\ Fairness

NoneTorn == \A u \in Uploads : pc[u] # "torn"

(***************************************************************************)
(* The parcels no two uploads have been inside SetSceneParcels for at once *)
(* and no upload has stopped among its SETs for; and the executions in     *)
(* which all parcels are.                                                  *)
(***************************************************************************)
Quiet == {p \in Parcels \ overlap :
             \A u \in Uploads : pc[u] = "torn" => p \notin Claims(req[u])}

QuietNext == Next /\ Quiet' = Parcels
QuietSpec == Init /\ [][QuietNext]_vars

Map == INSTANCE SceneMap WITH live <- [r \in Roots |-> Range(sceneParcels[r])]

-------------------------------------------------------------------------------

TypeOK ==
    /\ storage \subseteq Cids
    /\ content \in [Roots -> [Names -> Cids \cup {NoCid}]]
    /\ uploaded \subseteq Cids
    /\ parcelRoot \in [Parcels -> Roots \cup {NoRoot}]
    /\ sceneParcels \in [Roots -> Seq(Parcels)]
    /\ processed \subseteq Parcels
    /\ metadata \subseteq Roots
    /\ sceneOf \in [Roots -> Cids \cup {EmptyCid, NoCid}]
    /\ rootOf \in [Cids \cup {EmptyCid} -> Roots \cup {NoRoot}]
    /\ pc \in [Uploads -> Stages]
    /\ req \in [Uploads -> Requests]
    /\ parts \in [Uploads -> SUBSET Cids]
    /\ entries \in [Uploads -> SUBSET FileMetadata]
    /\ group \in [Uploads -> Cids \cup {NoCid}]
    /\ idx \in [Uploads -> Nat]
    /\ \A u \in Uploads : idx[u] \in 1 .. Len(req[u].scene)
    /\ old \in [Uploads -> SUBSET (Roots \cup {NoRoot})]
    /\ overlap \subseteq Parcels
    /\ alone \in [Uploads -> BOOLEAN]

\* The CIDs that uploads of root r give for the path n.
CidsFor(r, n) ==
    {c \in Cids : \E u \in Uploads : /\ req[u].root = r
                                     /\ [name |-> n, cid |-> c] \in Entries(req[u])}

(***************************************************************************)
(* Every path of the manifest of q is recorded under its root, with a CID  *)
(* that an upload of that root gave for this path, and every file recorded *)
(* there can be served from the storage.                                   *)
(***************************************************************************)
Complete(q) ==
    \A e \in Entries(q) :
        /\ content[q.root][e.name] \in CidsFor(q.root, e.name)
        /\ e.name \notin Dirs => content[q.root][e.name] \in storage

(***************************************************************************)
(* Whatever /mappings or /parcel_info finds behind a parcel key is the     *)
(* root of an upload that claimed that parcel and whose content hash is    *)
(* complete and whose files are all stored: an upload publishes a parcel   *)
(* last, however uploads of the same root interleave and wherever they     *)
(* fail (order of the calls in ProcessUpload).  If uploads of one root     *)
(* give several CIDs for a path, any of them may be the one recorded.      *)
(***************************************************************************)
NoDanglingScene ==
    \A p \in Parcels : parcelRoot[p] # NoRoot =>
        \E u \in Uploads :
            /\ req[u].root = parcelRoot[p]
            /\ p \in Claims(req[u])
            /\ Complete(req[u])

(***************************************************************************)
(* A CID that POST /content/status reports as uploaded can be fetched, so  *)
(* a client may leave the file out of its next upload; the only exceptions *)
(* are CIDs of directory entries, which are recorded without being stored  *)
(* (processUploadedFiles, checkContentInStorage).                          *)
(***************************************************************************)
StatusSound ==
    \A c \in uploaded \ storage :
        \E q \in Requests : \E e \in Entries(q) : e.cid = c /\ e.name \in Dirs

(***************************************************************************)
(* The order in which the rest of an upload is published: a processed      *)
(* parcel has a scene; a root with metadata has all the parcels of one of  *)
(* its uploads processed; a root with a scene CID has metadata; and the    *)
(* root found from a scene CID leads back to a scene CID, so /parcel_info  *)
(* finds the whole chain once it finds its last link.                      *)
(***************************************************************************)
PublishOrder ==
    /\ \A p \in processed : parcelRoot[p] # NoRoot
    /\ \A r \in metadata :
           \E q \in Requests : q.root = r /\ Claims(q) \subseteq processed
    /\ \A r \in Roots : sceneOf[r] # NoCid => r \in metadata
    /\ \A c \in Cids \cup {EmptyCid} :
           rootOf[c] # NoRoot => sceneOf[rootOf[c]] # NoCid

\* No parcel is listed by two scenes.
DisjointScenes ==
    \A r, s \in Roots :
        r # s => Range(sceneParcels[r]) \cap Range(sceneParcels[s]) = {}

\* The roots that list p.
Lists(p) == {r \in Roots : p \in Range(sceneParcels[r])}
ListedOnce(p) == \A r, s \in Lists(p) : r = s

\* At most one scene lists p, and p leads back to it, or an upload is about
\* to make it so.
UniqueParcel(p) ==
    /\ ListedOnce(p)
    /\ \A r \in Lists(p) :
           \/ parcelRoot[p] = r
           \/ \E u \in Uploads : /\ pc[u] \in {"set", "setx"}
                                 /\ req[u].root = r
                                 /\ p \in Claims(req[u])

(***************************************************************************)
(* The uniqueness SetSceneParcels promises, data/redis.go:188-189, holds   *)
(* for every parcel that no two uploads were in SetSceneParcels for at the *)
(* same time and none stopped among its SETs for: neither what happened to *)
(* the other parcels of its scenes nor failures anywhere else, an LPUSH    *)
(* whose error is reported late included, break it.                        *)
(***************************************************************************)
QuietIndex == \A p \in Quiet : UniqueParcel(p)

(***************************************************************************)
(* The uniqueness SetSceneParcels' comment asks for, should uploads for a  *)
(* common parcel overlap but none stop among its SETs.                     *)
(***************************************************************************)
UniqueDespiteOverlap == NoneTorn => DisjointScenes

(***************************************************************************)
(* In quiet executions the list of parcels kept for every root implements  *)
(* the map of disjoint scenes of module SceneMap: each DEL retires a whole *)
(* scene and each LPUSH adds one whose parcels nothing else lists.         *)
(***************************************************************************)
ImplementsSceneMap == Map!SMSpec

\* All uploads of root r claim the same parcels.
SameClaims(r) ==
    \A v, w \in Uploads :
        req[v].root = r /\ req[w].root = r => Claims(req[v]) = Claims(req[w])

\* No related upload has run into u.  (If the root of u is also uploaded for
\* other parcels, their keys lead unrelated uploads to the list of u as well.)
Undisturbed(u) == alone[u] /\ SameClaims(req[u].root)

(***************************************************************************)
(* An upload that was acknowledged and that no related upload has run into *)
(* is visible as a whole: its parcels lead to its root, are processed and  *)
(* listed first under the root, and the root has its metadata and is tied  *)
(* to its scene CID both ways - even if earlier uploads left debris.       *)
(***************************************************************************)
AckVisible ==
    \A u \in Uploads : pc[u] = "ok" /\ Undisturbed(u) =>
        LET q == req[u] IN
        /\ Complete(q)
        /\ \A p \in Claims(q) : parcelRoot[p] = q.root /\ p \in processed
        /\ IsPrefix(Reverse(q.scene), sceneParcels[q.root])
        /\ q.root \in metadata
        /\ sceneOf[q.root] = SceneCid(q)
        /\ rootOf[SceneCid(q)] = q.root

(***************************************************************************)
(* A scene is taken off the list only by an upload that claims one of the  *)
(* parcels it lists (the DELs of SetSceneParcels), whatever overlaps or    *)
(* fails, if the scene is always uploaded for the same parcels.            *)
(***************************************************************************)
EvictionJustified ==
    [][\A r \in Roots :
          SameClaims(r) /\ sceneParcels[r] # <<>> /\ sceneParcels'[r] = <<>> =>
              \E u \in Uploads :
                  /\ pc[u] = "del" /\ old'[u] # old[u]
                  /\ Claims(req[u]) \cap Range(sceneParcels[r]) # {}]_vars

(***************************************************************************)
(* Every accepted upload is answered.                                      *)
(***************************************************************************)
UploadAnswered ==
    \A u \in Uploads : pc[u] = "save" ~> pc[u] \in Finished

(***************************************************************************)
(* A parcel that leads to a root without metadata is a passing state (in   *)
(* which GetParcelInformation finds no metadata), unless an upload of that *)
(* root failed.                                                            *)
(***************************************************************************)
MetadataFollows ==
    \A r \in Roots :
        (\E p \in Parcels : parcelRoot[p] = r) ~>
            \/ r \in metadata
            \/ \E u \in Uploads : req[u].root = r /\ pc[u] \in {"error", "torn"}

-------------------------------------------------------------------------------
(***************************************************************************)
(* Inductive invariants.                                                   *)
(***************************************************************************)

Past(stage) ==
    CASE stage = "record" -> {"record"} \cup Indexing \cup Settling \cup {"ok"}
      [] stage = "get"    -> Indexing \cup Settling \cup {"ok"}
      [] stage = "flag"   -> Settling \cup {"ok"}
      [] stage = "meta"   -> {"meta", "scene", "root", "ok"}
      [] stage = "scene"  -> {"scene", "root", "ok"}
      [] stage = "root"   -> {"root", "ok"}

\* What the hash of a root has is what uploads of that root gave.
RecordedAsGiven ==
    \A r \in Roots, n \in Names : content[r][n] \in CidsFor(r, n) \cup {NoCid}

(***************************************************************************)
(* How the files of an upload get stored and recorded: what is still to be *)
(* saved or recorded is exactly what its request names and the storage or  *)
(* the content hash lacks, at every step and for any interleaving; and     *)
(* what the hash of a root has is what uploads of that root gave.          *)
(***************************************************************************)
ContentInv ==
    /\ RecordedAsGiven
    /\ \A r \in Roots, n \in Names \ Dirs :
           content[r][n] # NoCid => content[r][n] \in storage
    /\ \A u \in Uploads :
         LET q == req[u] IN
         /\ pc[u] = "save" => /\ entries[u] = Entries(q)
                              /\ \A e \in Files(q) : e.cid \in parts[u] \cup storage
         /\ pc[u] \in Past("record") =>
                /\ entries[u] \subseteq Entries(q)
                /\ \A e \in Files(q) : e.cid \in storage
                /\ \A e \in Entries(q) \ entries[u] : content[q.root][e.name] # NoCid
         /\ pc[u] = "record" /\ group[u] # NoCid => \E e \in Entries(q) : e.cid = group[u]
         /\ pc[u] \in {"idle", "save"} => group[u] = NoCid
         /\ pc[u] \in Past("get") => entries[u] = {}

(***************************************************************************)
(* How far an upload has published its parcels: the parcels before idx are *)
(* set (or marked), and each later stage has all of the earlier ones.      *)
(***************************************************************************)
Published(u) ==
    LET q == req[u] IN
    /\ pc[u] \in {"idle", "save", "record", "del", "push"} => idx[u] = 1
    /\ pc[u] \in {"set", "setx"} =>
           \A i \in 1 .. idx[u] - 1 : parcelRoot[q.scene[i]] # NoRoot
    /\ pc[u] \in Past("flag") => \A p \in Claims(q) : parcelRoot[p] # NoRoot
    /\ pc[u] = "flag" => \A i \in 1 .. idx[u] - 1 : q.scene[i] \in processed
    /\ pc[u] \in Past("meta") => Claims(q) \subseteq processed
    /\ pc[u] \in Past("scene") => q.root \in metadata
    /\ pc[u] \in Past("root") => sceneOf[q.root] # NoCid

PublishInv == \A u \in Uploads : Published(u)

\* u is about to set the key of parcel p.
Pending(u, p) ==
    /\ pc[u] \in {"set", "setx"}
    /\ \E i \in idx[u] .. Len(req[u].scene) : req[u].scene[i] = p

\* What an upload inside SetSceneParcels has achieved for a parcel of its own.
Cleared(u, p) ==
    /\ pc[u] = "get" =>
           \A i \in 1 .. idx[u] - 1 : req[u].scene[i] = p => parcelRoot[p] \in old[u]
    /\ pc[u] = "del" => Lists(p) \subseteq old[u]
    /\ pc[u] = "push" => Lists(p) = {}
    /\ pc[u] \in {"set", "setx"} => Lists(p) \subseteq {req[u].root}

\* What lists p is where p leads to, or will.
LeadsBack(p) ==
    \A r \in Lists(p) :
        parcelRoot[p] = r \/ \E u \in Uploads : req[u].root = r /\ Pending(u, p)

\* At most one upload is inside SetSceneParcels for p.
OneAtATime(p) ==
    \A u, w \in Uploads :
        /\ pc[u] \in Indexing /\ p \in Claims(req[u])
        /\ pc[w] \in Indexing /\ p \in Claims(req[w])
        => u = w

(***************************************************************************)
(* Why uploads that do not meet in a parcel keep its index exact.  Between *)
(* GET and the last SET, it belongs to one upload; what lists it is among  *)
(* the roots the upload has read (get, del), nothing (push), or the        *)
(* upload's own root (set); and it leads to the root that lists it, or     *)
(* will once that root's upload is through with its SETs.                  *)
(***************************************************************************)
Exact(p) ==
    /\ ListedOnce(p)
    /\ LeadsBack(p)
    /\ OneAtATime(p)
    /\ \A u \in Uploads : p \in Claims(req[u]) => Cleared(u, p)

QuietInv == \A p \in Quiet : Exact(p)
===============================================================================
