----------------------------- MODULE ParcelReader -----------------------------
(***************************************************************************)
(* The endpoints that look a parcel up, while uploads go on:               *)
(*                                                                         *)
(*   /mappings     GetParcelInformation of every parcel of an area         *)
(*   /parcel_info  the first parcel listed for every root or scene CID     *)
(*                 asked for, then GetParcelInformation of each            *)
(*   /validate     GetParcelMetadata of one parcel                         *)
(*                                                                         *)
(* GetParcelInformation follows the parcel key twice, once to the content  *)
(* hash and once to the metadata hash, in four Redis reads; any step of    *)
(* module SceneIndex may come between two of them.  One request is         *)
(* followed; it changes nothing that another one could see.                *)
(***************************************************************************)
EXTENDS SceneIndex

CONSTANT Queries    \* the requests: kind and the parcels or CIDs asked for

Query == [kind : {"mappings", "validate"}, keys : Seq(Parcels)]
            \cup [kind : {"parcel_info"}, keys : Seq(Roots \cup Cids)]

\* /validate asks for one parcel.
ASSUME QueriesAssumption ==
    /\ Queries \subseteq Query
    /\ \A q \in Queries : q.keys # <<>> /\ (q.kind = "validate" => Len(q.keys) = 1)

(***************************************************************************)
(* The keys of the index do not collide: a parcel id is not a CID, and the *)
(* CID of a root, which is a directory, is not the CID of a file.  (Redis  *)
(* has one key space root-scene:, where SceneIndex has two functions.)     *)
(***************************************************************************)
ASSUME KeysAssumption ==
    /\ Parcels # {} /\ Parcels \cap (Roots \cup Cids) = {}
    /\ Roots \cap Cids = {} /\ EmptyCid \notin Roots

VARIABLES
    stage,      \* what the request reads next
    query,      \* the request
    at,         \* position in query.keys
    root,       \* the root the last GET led to
    files,      \* the content hash read
    parcel,     \* the parcel that is looked up
    asked,      \* /parcel_info: the pair that is looked up
    pairs,      \* /parcel_info: the pairs to look up
    answer,     \* the parcels of the answer
    misread,    \* history: a read failed and was not reported
    calm,       \* history: no upload was publishing while the request was served
    before      \* history: uploads that were visible as a whole at the start

request == <<stage, query, at, root, files, parcel, asked, pairs, answer,
             misread, before>>
rvars == <<vars, request, calm>>

NoFiles == [n \in Names |-> NoCid]
Pair == [root : Roots \cup {NoRoot}, parcel : Parcels, scene : Cids \cup {EmptyCid}]
NoPair == [root |-> NoRoot, parcel |-> CHOOSE p \in Parcels : TRUE, scene |-> EmptyCid]

NobodyPublishes == \A u \in Uploads : pc[u] \notin Indexing \cup Settling
Over == {"done", "failed", "panic"}

RInit ==
    /\ Init
    /\ stage = "idle" /\ query \in Queries /\ at = 1
    /\ root = NoRoot /\ files = NoFiles
    /\ parcel = NoPair.parcel /\ asked = NoPair
    /\ pairs = {} /\ answer = {}
    /\ misread = FALSE /\ calm = TRUE /\ before = {}

\* Mutant: the loop over the CIDs goes on past the last one.
LookAtPastEnd(i) ==
    IF query.kind = "parcel_info"
    THEN stage' = "look" /\ at' = i /\ UNCHANGED parcel
    ELSE IF i <= Len(query.keys)
    THEN /\ stage' = IF query.kind = "validate" THEN "metakey" ELSE "key"
         /\ at' = i
         /\ parcel' = query.keys[i]
    ELSE stage' = "done" /\ UNCHANGED <<at, parcel>>

\* The next key of the request, or the end of the loop over its keys.
LookAt(i) ==
    IF query.kind = "parcel_info"
    THEN /\ stage' = IF i <= Len(query.keys) THEN "look" ELSE "pick"
         /\ at' = IF i <= Len(query.keys) THEN i ELSE 1
         /\ UNCHANGED parcel
    ELSE IF i <= Len(query.keys)
    THEN /\ stage' = IF query.kind = "validate" THEN "metakey" ELSE "key"
         /\ at' = i
         /\ parcel' = query.keys[i]
    ELSE stage' = "done" /\ UNCHANGED <<at, parcel>>

Ask ==
    /\ stage = "idle"
    /\ LookAt(1)
    /\ calm' = NobodyPublishes
    /\ before' = {u \in Uploads : pc[u] = "ok" /\ Undisturbed(u)}
    /\ UNCHANGED <<vars, query, root, files, asked, pairs, answer, misread>>

(***************************************************************************)
(* GetInfo, first loop.  A CID that lists no parcels is taken for a scene  *)
(* CID and followed to its root; of two CIDs that lead to the same root    *)
(* the later one counts.                                                   *)
(***************************************************************************)
Key == query.keys[at]
ListOf(k) == IF k \in Roots THEN sceneParcels[k] ELSE <<>>

FoundPair(r, p, scene) ==
    pairs' = {f \in pairs : f.root # r} \cup
                {[root |-> r, parcel |-> p, scene |-> scene]}

GetSceneParcels ==
    /\ stage = "look"
    /\ \/ /\ ListOf(Key) # <<>>
          /\ parcel' = Head(ListOf(Key))
          /\ stage' = "scene"
       \/ /\ ListOf(Key) = <<>>
          /\ stage' = "tie"
          /\ UNCHANGED parcel
    /\ UNCHANGED <<vars, query, at, root, files, asked, pairs, answer, misread,
                   calm, before>>

ListError ==
    /\ stage = "look"
    /\ stage' = "failed"
    /\ UNCHANGED <<vars, query, at, root, files, parcel, asked, pairs, answer,
                   misread, calm, before>>

\* The error of this read is ignored.
GetSceneCid ==
    /\ stage = "scene"
    /\ \/ /\ FoundPair(Key, parcel, IF sceneOf[Key] = NoCid THEN EmptyCid ELSE sceneOf[Key])
          /\ UNCHANGED misread
       \/ FoundPair(Key, parcel, EmptyCid) /\ misread' = TRUE
    /\ LookAt(at + 1)
    /\ UNCHANGED <<vars, query, root, files, asked, answer, calm, before>>

\* Mutant: scene CIDs are not followed.
GetRootCidSkipped ==
    /\ stage = "tie"
    /\ LookAt(at + 1)
    /\ UNCHANGED <<vars, query, root, files, asked, pairs, answer, misread, calm, before>>

\* Behind a root CID there is a scene CID, which lists nothing either.
GetRootCid ==
    /\ stage = "tie"
    /\ \/ /\ Key \in Cids /\ rootOf[Key] # NoRoot
          /\ root' = rootOf[Key]
          /\ stage' = "relist"
          /\ UNCHANGED <<at, parcel>>
       \/ /\ Key \in Cids => rootOf[Key] = NoRoot
          /\ LookAt(at + 1)
          /\ UNCHANGED root
    /\ UNCHANGED <<vars, query, files, asked, pairs, answer, misread, calm, before>>

GetRootSceneParcels ==
    /\ stage = "relist"
    /\ \/ sceneParcels[root] # <<>> /\ FoundPair(root, Head(sceneParcels[root]), Key)
       \/ sceneParcels[root] = <<>> /\ UNCHANGED pairs
    /\ LookAt(at + 1)
    /\ UNCHANGED <<vars, query, root, files, asked, answer, misread, calm, before>>

SkipCid ==
    /\ stage \in {"tie", "relist"}
    /\ misread' = TRUE
    /\ LookAt(at + 1)
    /\ UNCHANGED <<vars, query, root, files, asked, pairs, answer, calm, before>>

PickPair(f) ==
    /\ stage = "pick"
    /\ f \in pairs
    /\ asked' = f /\ parcel' = f.parcel
    /\ pairs' = pairs \ {f}
    /\ stage' = "key"
    /\ UNCHANGED <<vars, query, at, root, files, answer, misread, calm, before>>

Respond ==
    /\ stage = "pick"
    /\ pairs = {}
    /\ stage' = "done"
    /\ UNCHANGED <<vars, query, at, root, files, parcel, asked, pairs, answer,
                   misread, calm, before>>

(***************************************************************************)
(* GetParcelInformation (and, from "metakey" on, GetParcelMetadata): the   *)
(* parcel is left out, or the request fails, or an entry is added.         *)
(***************************************************************************)
Proceed == IF query.kind = "parcel_info" THEN stage' = "pick" /\ UNCHANGED <<at, parcel>>
                                         ELSE LookAt(at + 1)

Entry(contents, r) ==
    [parcel |-> parcel, asked |-> asked.root, scene |-> asked.scene,
     files |-> contents, root |-> r]

\* /parcel_info reports a parcel that is not found with no content.
LeaveOut ==
    /\ answer' = IF query.kind = "parcel_info"
                 THEN answer \cup {Entry(NoFiles, NoRoot)} ELSE answer
    /\ Proceed

\* Mutant: the root of an earlier parcel is used again.
GetContentKeyCached ==
    /\ stage = "key"
    /\ \/ /\ parcelRoot[parcel] = NoRoot
          /\ LeaveOut
          /\ UNCHANGED root
       \/ /\ parcelRoot[parcel] # NoRoot
          /\ root' = IF root = NoRoot THEN parcelRoot[parcel] ELSE root
          /\ stage' = "files"
          /\ UNCHANGED <<at, parcel, answer>>
    /\ UNCHANGED <<vars, query, files, asked, pairs, misread, calm, before>>

GetContentKey ==
    /\ stage = "key"
    /\ \/ /\ parcelRoot[parcel] = NoRoot
          /\ LeaveOut
          /\ UNCHANGED root
       \/ /\ parcelRoot[parcel] # NoRoot
          /\ root' = parcelRoot[parcel]
          /\ stage' = "files"
          /\ UNCHANGED <<at, parcel, answer>>
    /\ UNCHANGED <<vars, query, files, asked, pairs, misread, calm, before>>

GetParcelContent ==
    /\ stage = "files"
    /\ files' = content[root]
    /\ stage' = "metakey"
    /\ UNCHANGED <<vars, query, at, root, parcel, asked, pairs, answer, misread,
                   calm, before>>

\* GetParcelContent drops its error when it has no result.
GetContentError ==
    /\ stage \in {"key", "files"}
    /\ misread' = TRUE
    /\ LeaveOut
    /\ UNCHANGED <<vars, query, root, files, asked, pairs, calm, before>>

GetMetadataKey ==
    /\ stage = "metakey"
    /\ \/ /\ parcelRoot[parcel] = NoRoot
          /\ LeaveOut
          /\ UNCHANGED root
       \/ /\ parcelRoot[parcel] # NoRoot
          /\ root' = parcelRoot[parcel]
          /\ stage' = "meta"
          /\ UNCHANGED <<at, parcel, answer>>
    /\ UNCHANGED <<vars, query, files, asked, pairs, misread, calm, before>>

\* /parcel_info goes on with the next pair, the others report the error.
GetMetadataError ==
    /\ stage \in {"metakey", "meta"}
    /\ \/ query.kind = "parcel_info" /\ Proceed /\ misread' = TRUE
       \/ query.kind # "parcel_info" /\ stage' = "failed" /\ UNCHANGED <<at, parcel, misread>>
    /\ UNCHANGED <<vars, query, root, files, asked, pairs, answer, calm, before>>

GetParcelMetadata ==
    /\ stage = "meta"
    /\ root \in metadata
    /\ answer' = answer \cup {Entry(files, root)}
    /\ Proceed
    /\ UNCHANGED <<vars, query, root, files, asked, pairs, misread, calm, before>>

\* A root without metadata reads as an empty hash, not as a missing one:
\* GetParcelInformation panics on it and /validate answers {}.
MetadataMissing ==
    /\ stage = "meta"
    /\ root \notin metadata
    /\ \/ query.kind = "validate" /\ stage' = "done" /\ answer' = {Entry(NoFiles, NoRoot)}
       \/ query.kind # "validate" /\ stage' = "panic" /\ UNCHANGED answer
    /\ UNCHANGED <<vars, query, at, root, files, parcel, asked, pairs, misread,
                   calm, before>>

UploadStep ==
    /\ Next
    /\ calm' = (calm /\ (stage \in {"idle"} \cup Over \/ NobodyPublishes'))
    /\ UNCHANGED request

Read ==
    \/ Ask \/ GetSceneParcels \/ ListError \/ GetSceneCid \/ GetRootCid
    \/ GetRootSceneParcels \/ SkipCid \/ (\E f \in pairs : PickPair(f)) \/ Respond
    \/ GetContentKey \/ GetParcelContent \/ GetContentError \/ GetMetadataKey
    \/ GetMetadataError \/ GetParcelMetadata \/ MetadataMissing

RNext == UploadStep \/ Read

RSpec == RInit /\ [][RNext]_rvars

-------------------------------------------------------------------------------

RTypeOK ==
    /\ stage \in {"idle", "look", "scene", "tie", "relist", "pick", "key", "files",
                  "metakey", "meta"} \cup Over
    /\ query \in Queries
    /\ at \in 1 .. Len(query.keys)
    /\ root \in Roots \cup {NoRoot}
    /\ files \in [Names -> Cids \cup {NoCid}]
    /\ parcel \in Parcels
    /\ asked \in Pair
    /\ pairs \subseteq Pair
    /\ \A a \in answer : /\ a.parcel \in Parcels
                         /\ a.asked \in Roots \cup {NoRoot}
                         /\ a.files \in [Names -> Cids \cup {NoCid}]
                         /\ a.root \in Roots \cup {NoRoot}
    /\ misread \in BOOLEAN /\ calm \in BOOLEAN
    /\ before \subseteq Uploads

\* The entries of an answer that carry a content list.
Reported == {a \in answer : query.kind # "validate" /\ a.root # NoRoot}

\* f has every path of the manifest of q, and only CIDs that uploads of the
\* root of q gave for their paths: the manifest itself, if they all agree.
HasManifest(f, q) ==
    /\ \A e \in Entries(q) : f[e.name] # NoCid
    /\ \A n \in Names : f[n] \in CidsFor(q.root, n) \cup {NoCid}

(***************************************************************************)
(* The files of an entry of /mappings or /parcel_info can all be fetched,  *)
(* and they are the complete manifest of an upload that claimed the        *)
(* parcel, never one that is half recorded, whatever uploads do between    *)
(* the reads and however they fail.  The root of the entry is that of an   *)
(* upload that claimed the parcel, too; it is the same root unless an      *)
(* upload publishes while the request is served (GetParcelInformation      *)
(* reads the parcel key twice).                                            *)
(***************************************************************************)
FilesServable ==
    \A a \in Reported :
        /\ \A n \in Names \ Dirs : a.files[n] = NoCid \/ a.files[n] \in storage
        /\ \E u \in Uploads : /\ a.parcel \in Claims(req[u])
                              /\ HasManifest(a.files, req[u])
                              /\ calm => req[u].root = a.root
        /\ \E v \in Uploads : req[v].root = a.root /\ a.parcel \in Claims(req[v])

\* The files and the root CID of an entry belong to one scene.
OneScene(a) == a.files = content[a.root]

\* All uploads of root r have the same manifest, with one CID for a path.
SameFiles(r) ==
    \A v, w \in Uploads : req[v].root = r /\ req[w].root = r =>
        /\ Entries(req[v]) = Entries(req[w])
        /\ \A e, f \in Entries(req[v]) : e.name = f.name => e = f

\* All uploads of root r have the same scene CID.
SameScene(r) ==
    \A v, w \in Uploads :
        req[v].root = r /\ req[w].root = r => SceneCid(req[v]) = SceneCid(req[w])

(***************************************************************************)
(* An entry of /mappings or /parcel_info shows one scene, the one that was *)
(* asked for, if no upload is publishing meanwhile (and the parcel is      *)
(* quiet, for /parcel_info, which goes from a root to a parcel and back),  *)
(* and the files of its root are always the same ones.                     *)
(***************************************************************************)
CalmAnswer ==
    calm => \A a \in Reported :
        /\ SameFiles(a.root) => OneScene(a)
        /\ query.kind = "parcel_info" /\ a.parcel \in Quiet => a.root = a.asked

(***************************************************************************)
(* GetParcelInformation panics, and /validate answers an empty object,     *)
(* only on the root of an upload that has set a parcel key and is on its   *)
(* way to the metadata, or has failed before it got there.                 *)
(***************************************************************************)
MissingMetadataJustified ==
    [][MetadataMissing =>
          \E u \in Uploads : /\ req[u].root = root
                             /\ pc[u] \in {"set", "setx", "flag", "meta", "error", "torn"}]_rvars

\* The request asks for q: for one of its parcels, its root or its scene CID.
Wanted(q) == Range(query.keys) \cap (Claims(q) \cup {q.root, SceneCid(q)}) # {}

AnsweredFor(q) ==
    IF query.kind = "parcel_info"
    THEN \E a \in Reported : /\ a.asked = q.root /\ a.root = q.root /\ a.parcel \in Claims(q)
                              /\ SameScene(q.root) => a.scene = SceneCid(q)
    ELSE \A p \in Claims(q) \cap Range(query.keys) :
             \E a \in answer : a.parcel = p /\ a.root = q.root

(***************************************************************************)
(* A scene that was acknowledged before the request and that no related    *)
(* upload has run into since is in the answer - under its root, however it *)
(* was asked for - unless a read failed.                                   *)
(***************************************************************************)
AcknowledgedAnswered ==
    stage = "done" /\ ~ misread =>
        \A u \in before : Undisturbed(u) /\ Wanted(req[u]) => AnsweredFor(req[u])
===============================================================================
