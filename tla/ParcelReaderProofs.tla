-------------------------- MODULE ParcelReaderProofs --------------------------
(***************************************************************************)
(* Theorems about ParcelReader: what /mappings, /parcel_info and /validate *)
(* answer while any number of uploads are being published.  The uploads'   *)
(* own invariants come from SceneIndexProofs: whatever the reader does,    *)
(* they follow Spec.                                                       *)
(***************************************************************************)
EXTENDS ParcelReader, SceneIndexProofs

\* Where the request stands, and what its last read has led to.
StageInv ==
    /\ stage \in {"look", "scene", "tie", "relist", "pick"} => query.kind = "parcel_info"
    /\ stage = "scene" => Key \in Roots
    /\ stage = "relist" => Key \in Cids
    /\ stage \in {"relist", "files", "meta"} => root \in Roots

\* An upload of root r has set a parcel key, or has stopped since.
Keyed(r) ==
    \E u \in Uploads :
        /\ req[u].root = r /\ Complete(req[u])
        /\ pc[u] \in {"set", "setx", "error", "torn", "ok"} \cup Settling

KeysInv == \A p \in Parcels : parcelRoot[p] # NoRoot => Keyed(parcelRoot[p])

\* A scene CID leads to the root of an upload that has it.
SourceInv ==
    \A c \in Cids \cup {EmptyCid} : rootOf[c] # NoRoot =>
          \E u \in Uploads : req[u].root = rootOf[c] /\ SceneCid(req[u]) = c

\* Some upload of root r claimed p and is recorded.
Backed(r, p) ==
    \E u \in Uploads : req[u].root = r /\ p \in Claims(req[u]) /\ Complete(req[u])

\* The complete manifest of upload u, which claimed p, every file in storage.
Whole(f, p, u) ==
    /\ \A n \in Names \ Dirs : f[n] = NoCid \/ f[n] \in storage
    /\ p \in Claims(req[u]) /\ HasManifest(f, req[u])

\* A whole manifest for p; that of root r if nobody publishes meanwhile.
WholeFor(f, p, r) == \E u \in Uploads : Whole(f, p, u) /\ (calm => req[u].root = r)

FilesInv ==
    /\ stage \in {"files", "meta"} => Backed(root, parcel)
    /\ stage \in {"metakey", "meta"} /\ query.kind # "validate" =>
          WholeFor(files, parcel, parcelRoot[parcel])
    /\ \A a \in Reported : Backed(a.root, a.parcel) /\ WholeFor(a.files, a.parcel, a.root)

\* The root in hand comes from a parcel key.
RootKeyed == stage \in {"files", "meta"} => Keyed(root)

Serving == stage \notin {"idle"} \cup Over

(***************************************************************************)
(* While nobody publishes, the parcel keys stand still, and so do the      *)
(* files of the roots they lead to.                                        *)
(***************************************************************************)
CalmInv ==
    /\ stage = "idle" => answer = {} /\ pairs = {}
    /\ calm /\ Serving =>
          /\ NobodyPublishes
          /\ stage \in {"files", "meta"} => root = parcelRoot[parcel]
          /\ stage = "metakey" /\ query.kind # "validate" =>
                /\ parcelRoot[parcel] # NoRoot
                /\ SameFiles(parcelRoot[parcel]) => files = content[parcelRoot[parcel]]
          /\ stage = "meta" /\ query.kind # "validate" =>
                (SameFiles(root) => files = content[root])
    /\ \A a \in Reported : /\ Keyed(a.root) /\ a.root \in Roots
                           /\ calm /\ SameFiles(a.root) => OneScene(a)

\* And so do the lists the parcels of /parcel_info are taken from.
InfoInv ==
    query.kind = "parcel_info" /\ calm =>
        /\ Serving =>
              /\ stage = "scene" => parcel \in Range(sceneParcels[Key])
              /\ \A f \in pairs : f.root \in Roots /\ f.parcel \in Range(sceneParcels[f.root])
              /\ stage \in {"key", "files", "metakey", "meta"} =>
                    asked.root \in Roots /\ parcel \in Range(sceneParcels[asked.root])
        /\ \A a \in Reported : a.parcel \in Quiet => a.root = a.asked

\* A pair, or an entry of the answer, that shows the scene of q.
GoodPair(f, q) ==
    /\ f.root = q.root /\ f.parcel \in Claims(q)
    /\ SameScene(q.root) => f.scene = SceneCid(q)

\* How far /mappings and /validate have come with the scene of q.
AreaUnderway(q) ==
    /\ stage \in {"key", "files", "metakey", "meta"} =>
          /\ parcel = query.keys[at]
          /\ \A i \in 1 .. at - 1 : query.keys[i] \in Claims(q) =>
                \E a \in answer : a.parcel = query.keys[i] /\ a.root = q.root
    /\ stage \in {"files", "meta"} /\ parcel \in Claims(q) => root = q.root
    /\ stage = "done" => AnsweredFor(q)

\* How far /parcel_info has come.
InfoUnderway(q) ==
    /\ \A f \in pairs : f.root = q.root => GoodPair(f, q)
    /\ stage \in {"look", "scene", "tie", "relist"} =>
          \A i \in 1 .. at - 1 : query.keys[i] \in {q.root, SceneCid(q)} =>
              \E f \in pairs : f.root = q.root
    /\ stage = "scene" /\ Key = q.root => parcel \in Claims(q)
    /\ stage = "tie" => Key # q.root
    /\ stage = "relist" /\ Key = SceneCid(q) => root = q.root
    /\ stage \in {"pick", "done"} => AnsweredFor(q) \/ \E f \in pairs : f.root = q.root
    /\ stage \in {"key", "files", "metakey", "meta"} =>
          \/ AnsweredFor(q)
          \/ \E f \in pairs : f.root = q.root
          \/ GoodPair(asked, q) /\ parcel = asked.parcel
    /\ stage \in {"files", "meta"} /\ parcel \in Claims(q) => root = q.root

(***************************************************************************)
(* A scene that was visible as a whole when the request came in and that   *)
(* nothing has run into since is found, unless a read has failed.          *)
(***************************************************************************)
FoundInv ==
    /\ stage = "idle" => before = {} /\ pairs = {} /\ answer = {}
    /\ stage = "done" /\ query.kind = "parcel_info" => pairs = {}
    /\ stage = "relist" =>
          \E u \in Uploads : req[u].root = root /\ SceneCid(req[u]) = Key
    /\ \A u \in before :
          /\ pc[u] = "ok"
          /\ ~ misread /\ Undisturbed(u) /\ Wanted(req[u]) =>
                IF query.kind = "parcel_info" THEN InfoUnderway(req[u])
                                              ELSE AreaUnderway(req[u])

-------------------------------------------------------------------------------
(***************************************************************************)
(* The uploads do not notice the reader.                                   *)
(***************************************************************************)
LEMMA ReadKeeps == Read => UNCHANGED vars /\ query' = query
BY DEF Read, Ask, GetSceneParcels, ListError, GetSceneCid, GetRootCid, GetRootSceneParcels,
       SkipCid, PickPair, Respond, GetContentKey, GetParcelContent, GetContentError,
       GetMetadataKey, GetMetadataError, GetParcelMetadata, MetadataMissing

LEMMA StepOfUploads == [RNext]_rvars => [Next]_vars
BY ReadKeeps DEF RNext, UploadStep, rvars

LEMMA UploadsFollowSpec == RSpec => Spec
<1>1. RInit => Init
    BY DEF RInit
<1> QED  BY <1>1, StepOfUploads, PTL DEF RSpec, Spec

\* Whoever steps, the request stays the one that was made.
LEMMA StepCases ==
    ASSUME [RNext]_rvars
    PROVE  /\ Read \/ UNCHANGED request
           /\ query' = query
           /\ UNCHANGED request => (UploadStep \/ UNCHANGED rvars \/ Read)
BY ReadKeeps DEF RNext, UploadStep, rvars, request

(***************************************************************************)
(* Type correctness.                                                       *)
(***************************************************************************)
LEMMA QueryFacts ==
    ASSUME query \in Queries
    PROVE  /\ query.kind \in {"mappings", "validate", "parcel_info"}
           /\ Len(query.keys) \in Nat /\ Len(query.keys) >= 1
           /\ DOMAIN query.keys = 1 .. Len(query.keys)
           /\ query.kind = "parcel_info" =>
                 \A i \in 1 .. Len(query.keys) : query.keys[i] \in Roots \cup Cids
           /\ query.kind # "parcel_info" =>
                 \A i \in 1 .. Len(query.keys) : query.keys[i] \in Parcels
           /\ query.kind = "validate" => Len(query.keys) = 1
<1>1. query \in Query /\ query.keys # <<>>
    BY QueriesAssumption
<1>2. CASE query \in [kind : {"mappings", "validate"}, keys : Seq(Parcels)]
    BY <1>1, <1>2, QueriesAssumption
<1>3. CASE query \in [kind : {"parcel_info"}, keys : Seq(Roots \cup Cids)]
    BY <1>1, <1>3, QueriesAssumption
<1> QED  BY <1>1, <1>2, <1>3 DEF Query

LEMMA NoPairType == NoPair \in Pair
BY KeysAssumption DEF NoPair, Pair

LEMMA InitRType == RInit => RTypeOK /\ StageInv
<1> SUFFICES ASSUME RInit PROVE RTypeOK /\ StageInv
    OBVIOUS
<1>1. at \in 1 .. Len(query.keys)
    BY QueryFacts DEF RInit
<1>2. parcel \in Parcels /\ asked \in Pair
    BY NoPairType DEF RInit, Pair
<1> QED  BY <1>1, <1>2 DEF RInit, RTypeOK, StageInv, NoFiles

\* The next key, or the next pair.
LEMMA LookAtType ==
    ASSUME RTypeOK, LookAt(1) \/ LookAt(at + 1) \/ Proceed
    PROVE  /\ stage' \in {"look", "pick", "key", "metakey", "done"}
           /\ stage' \in {"look", "pick"} => query.kind = "parcel_info"
           /\ at' \in 1 .. Len(query.keys)
           /\ parcel' \in Parcels
<1>1. /\ Len(query.keys) \in Nat /\ Len(query.keys) >= 1
      /\ query.kind # "parcel_info" =>
            \A i \in 1 .. Len(query.keys) : query.keys[i] \in Parcels
      /\ at \in 1 .. Len(query.keys) /\ parcel \in Parcels
    BY QueryFacts DEF RTypeOK
<1>2. ASSUME NEW i \in Nat \ {0}, LookAt(i)
      PROVE  /\ stage' \in {"look", "pick", "key", "metakey", "done"}
             /\ stage' \in {"look", "pick"} => query.kind = "parcel_info"
             /\ at' \in 1 .. Len(query.keys)
             /\ parcel' \in Parcels
    BY <1>1, <1>2 DEF LookAt
<1>3. 1 \in Nat \ {0} /\ at + 1 \in Nat \ {0}
    BY <1>1
<1>4. CASE Proceed /\ query.kind = "parcel_info"
    BY <1>1, <1>4 DEF Proceed
<1> QED  BY <1>2, <1>3, <1>4 DEF Proceed

\* What is kept of a scene that has been found.
LEMMA FoundPairType ==
    ASSUME RTypeOK, NEW r \in Roots, NEW p \in Parcels, NEW c \in Cids \cup {EmptyCid},
           FoundPair(r, p, c)
    PROVE  pairs' \subseteq Pair
<1>1. [root |-> r, parcel |-> p, scene |-> c] \in Pair
    BY DEF Pair
<1> QED  BY <1>1 DEF FoundPair, RTypeOK

LEMMA HeadOfList ==
    ASSUME TypeOK, NEW r \in Roots, sceneParcels[r] # <<>>
    PROVE  Head(sceneParcels[r]) \in Range(sceneParcels[r]) /\ Head(sceneParcels[r]) \in Parcels
<1>1. sceneParcels[r] \in Seq(Parcels)
    BY DEF TypeOK
<1>2. 1 \in DOMAIN sceneParcels[r] /\ Head(sceneParcels[r]) = sceneParcels[r][1]
    BY <1>1
<1> QED  BY <1>1, <1>2 DEF Range

\* The answer so far, and with an entry more.
AnswerOK(A) ==
    \A a \in A : /\ a.parcel \in Parcels
                 /\ a.asked \in Roots \cup {NoRoot}
                 /\ a.files \in [Names -> Cids \cup {NoCid}]
                 /\ a.root \in Roots \cup {NoRoot}

LEMMA EntryType ==
    ASSUME RTypeOK, NEW f \in [Names -> Cids \cup {NoCid}], NEW r \in Roots \cup {NoRoot}
    PROVE  AnswerOK(answer) /\ AnswerOK({Entry(f, r)}) /\ AnswerOK(answer \cup {Entry(f, r)})
<1>1. parcel \in Parcels /\ asked.root \in Roots \cup {NoRoot} /\ AnswerOK(answer)
    BY DEF RTypeOK, Pair, AnswerOK
<1> QED  BY <1>1 DEF AnswerOK, Entry

LEMMA RTypeStep ==
    TypeOK /\ RTypeOK /\ StageInv /\ [RNext]_rvars => RTypeOK' /\ StageInv'
<1> SUFFICES ASSUME TypeOK, RTypeOK, StageInv, [RNext]_rvars PROVE RTypeOK' /\ StageInv'
    OBVIOUS
<1> USE DEF Over
<1>0. /\ query' = query /\ query \in Queries
      /\ AnswerOK(answer)
      /\ at' = at => Key' = Key
    BY StepCases DEF RTypeOK, AnswerOK, Key
<1>k. /\ query.kind = "parcel_info" => Key \in Roots \cup Cids
      /\ NoFiles \in [Names -> Cids \cup {NoCid}]
    BY QueryFacts DEF RTypeOK, Key, NoFiles
<1>1. CASE Ask
    <2>1. calm' \in BOOLEAN /\ before' \subseteq Uploads
        BY <1>1 DEF Ask, NobodyPublishes
    <2> QED  BY <1>0, <1>1, <2>1, LookAtType DEF Ask, RTypeOK, StageInv
<1>2. CASE GetSceneParcels
    <2>1. CASE ListOf(Key) # <<>> /\ parcel' = Head(ListOf(Key)) /\ stage' = "scene"
        <3>1. Key \in Roots /\ sceneParcels[Key] # <<>> /\ parcel' = Head(sceneParcels[Key])
            BY <2>1 DEF ListOf
        <3>2. parcel' \in Parcels
            BY <3>1, HeadOfList
        <3> QED  BY <1>0, <1>2, <2>1, <3>1, <3>2 DEF GetSceneParcels, RTypeOK, StageInv
    <2>2. CASE stage' = "tie" /\ parcel' = parcel
        BY <1>0, <1>2, <2>2 DEF GetSceneParcels, RTypeOK, StageInv
    <2> QED  BY <1>2, <2>1, <2>2 DEF GetSceneParcels
<1>3. CASE ListError \/ Respond
    BY <1>0, <1>3 DEF ListError, Respond, RTypeOK, StageInv
<1>4. CASE GetSceneCid
    <2>1. Key \in Roots /\ parcel \in Parcels /\ sceneOf[Key] \in Cids \cup {EmptyCid, NoCid}
        BY <1>4 DEF GetSceneCid, StageInv, RTypeOK, TypeOK
    <2>2. (IF sceneOf[Key] = NoCid THEN EmptyCid ELSE sceneOf[Key]) \in Cids \cup {EmptyCid}
        BY <2>1
    <2>3. pairs' \subseteq Pair
        BY <1>4, <2>1, <2>2, FoundPairType DEF GetSceneCid
    <2>4. misread' \in BOOLEAN /\ LookAt(at + 1)
        BY <1>4 DEF GetSceneCid, RTypeOK
    <2> QED  BY <1>0, <1>4, <2>3, <2>4, LookAtType DEF GetSceneCid, RTypeOK, StageInv
<1>5. CASE GetRootCid
    <2>1. CASE Key \in Cids /\ rootOf[Key] # NoRoot /\ root' = rootOf[Key] /\ stage' = "relist"
                  /\ UNCHANGED <<at, parcel>>
        <3>1. root' \in Roots /\ query.kind = "parcel_info"
            BY <1>5, <2>1 DEF TypeOK, GetRootCid, StageInv
        <3> QED  BY <1>0, <1>5, <2>1, <3>1 DEF GetRootCid, RTypeOK, StageInv
    <2>2. CASE LookAt(at + 1) /\ root' = root
        BY <1>0, <1>5, <2>2, LookAtType DEF GetRootCid, RTypeOK, StageInv
    <2> QED  BY <1>5, <2>1, <2>2 DEF GetRootCid
<1>6. CASE GetRootSceneParcels
    <2>1. root \in Roots /\ Key \in Cids
        BY <1>6 DEF GetRootSceneParcels, StageInv
    <2>2. pairs' \subseteq Pair
        <3>1. CASE sceneParcels[root] # <<>> /\ FoundPair(root, Head(sceneParcels[root]), Key)
            BY <2>1, <3>1, HeadOfList, FoundPairType
        <3> QED  BY <1>6, <3>1 DEF GetRootSceneParcels, RTypeOK
    <2>3. LookAt(at + 1)
        BY <1>6 DEF GetRootSceneParcels
    <2> QED  BY <1>0, <1>6, <2>2, <2>3, LookAtType DEF GetRootSceneParcels, RTypeOK, StageInv
<1>7. CASE SkipCid
    <2>1. LookAt(at + 1)
        BY <1>7 DEF SkipCid
    <2> QED  BY <1>0, <1>7, <2>1, LookAtType DEF SkipCid, RTypeOK, StageInv
<1>8. ASSUME NEW f \in pairs, PickPair(f) PROVE RTypeOK' /\ StageInv'
    <2>1. f \in Pair /\ f.parcel \in Parcels
        BY DEF RTypeOK, Pair
    <2> QED  BY <1>0, <1>8, <2>1 DEF PickPair, RTypeOK, StageInv
<1>9. ASSUME LeaveOut
      PROVE  /\ AnswerOK(answer')
             /\ stage' \in {"look", "pick", "key", "metakey", "done"}
             /\ stage' \in {"look", "pick"} => query.kind = "parcel_info"
             /\ at' \in 1 .. Len(query.keys) /\ parcel' \in Parcels
    <2>1. AnswerOK(answer')
        BY <1>0, <1>k, <1>9, EntryType DEF LeaveOut
    <2> QED  BY <1>9, <2>1, LookAtType DEF LeaveOut
<1>10. CASE GetContentKey
    <2>1. parcelRoot[parcel] \in Roots \cup {NoRoot}
        BY DEF TypeOK, RTypeOK
    <2>2. CASE LeaveOut /\ root' = root
        BY <1>0, <1>9, <1>10, <2>2 DEF GetContentKey, RTypeOK, StageInv, AnswerOK
    <2>3. CASE /\ parcelRoot[parcel] # NoRoot /\ root' = parcelRoot[parcel]
               /\ stage' = "files" /\ UNCHANGED <<at, parcel, answer>>
        BY <1>0, <1>10, <2>1, <2>3 DEF GetContentKey, RTypeOK, StageInv, AnswerOK
    <2> QED  BY <1>10, <2>2, <2>3 DEF GetContentKey
<1>11. CASE GetParcelContent
    <2>1. content[root] \in [Names -> Cids \cup {NoCid}]
        BY <1>11 DEF GetParcelContent, StageInv, TypeOK
    <2> QED  BY <1>0, <1>11, <2>1 DEF GetParcelContent, RTypeOK, StageInv, AnswerOK
<1>12. CASE GetContentError
    BY <1>0, <1>9, <1>12 DEF GetContentError, RTypeOK, StageInv, AnswerOK
<1>13. CASE GetMetadataKey
    <2>1. parcelRoot[parcel] \in Roots \cup {NoRoot}
        BY DEF TypeOK, RTypeOK
    <2>2. CASE LeaveOut /\ root' = root
        BY <1>0, <1>9, <1>13, <2>2 DEF GetMetadataKey, RTypeOK, StageInv, AnswerOK
    <2>3. CASE /\ parcelRoot[parcel] # NoRoot /\ root' = parcelRoot[parcel]
               /\ stage' = "meta" /\ UNCHANGED <<at, parcel, answer>>
        BY <1>0, <1>13, <2>1, <2>3 DEF GetMetadataKey, RTypeOK, StageInv, AnswerOK
    <2> QED  BY <1>13, <2>2, <2>3 DEF GetMetadataKey
<1>14. CASE GetMetadataError
    <2>1. CASE Proceed /\ misread' = TRUE
        BY <1>0, <1>14, <2>1, LookAtType DEF GetMetadataError, RTypeOK, StageInv, AnswerOK
    <2>2. CASE stage' = "failed" /\ UNCHANGED <<at, parcel, misread>>
        BY <1>0, <1>14, <2>2 DEF GetMetadataError, RTypeOK, StageInv, AnswerOK
    <2> QED  BY <1>14, <2>1, <2>2 DEF GetMetadataError
<1>15. CASE GetParcelMetadata
    <2>1. AnswerOK(answer') /\ Proceed
        <3>1. root \in Roots /\ files \in [Names -> Cids \cup {NoCid}]
            BY <1>15 DEF GetParcelMetadata, StageInv, RTypeOK
        <3> QED  BY <1>15, <3>1, EntryType DEF GetParcelMetadata
    <2> QED  BY <1>0, <1>15, <2>1, LookAtType DEF GetParcelMetadata, RTypeOK, StageInv, AnswerOK
<1>16. CASE MetadataMissing
    <2>1. AnswerOK(answer') /\ stage' \in Over
        BY <1>0, <1>k, <1>16, EntryType DEF MetadataMissing, Over
    <2> QED  BY <1>0, <1>16, <2>1 DEF MetadataMissing, RTypeOK, StageInv, AnswerOK
<1>17. CASE UNCHANGED request
    <2>1. calm' \in BOOLEAN
        <3>1. CASE UploadStep
            BY <3>1 DEF UploadStep, NobodyPublishes, RTypeOK
        <3>2. CASE UNCHANGED rvars
            BY <3>2 DEF rvars, RTypeOK
        <3>3. CASE Read
            BY <3>3 DEF Read, Ask, GetSceneParcels, ListError, GetSceneCid, GetRootCid,
               GetRootSceneParcels, SkipCid, PickPair, Respond, GetContentKey,
               GetParcelContent, GetContentError, GetMetadataKey, GetMetadataError,
               GetParcelMetadata, MetadataMissing, RTypeOK, NobodyPublishes
        <3> QED  BY <1>17, <3>1, <3>2, <3>3, StepCases
    <2> QED  BY <1>0, <1>17, <2>1 DEF request, RTypeOK, StageInv
<1> QED  BY <1>1, <1>2, <1>3, <1>4, <1>5, <1>6, <1>7, <1>8, <1>10, <1>11, <1>12, <1>13, <1>14,
            <1>15, <1>16, <1>17, StepCases DEF Read

LEMMA ReaderTypes == RSpec => [](RTypeOK /\ StageInv)
<1>1. RSpec => []TypeOK
    BY UploadsFollowSpec, TypeCorrect, PTL
<1> QED  BY <1>1, InitRType, RTypeStep, PTL DEF RSpec

(***************************************************************************)
(* The reader's variables stay in range: the position is one of the keys   *)
(* asked for, whatever kind of request it is, and the parcel that is       *)
(* looked up and the root it leads to are a parcel and a root.             *)
(***************************************************************************)
THEOREM RTypeCorrect == RSpec => []RTypeOK
BY ReaderTypes, PTL

(***************************************************************************)
(* What a read leads to.                                                   *)
(***************************************************************************)

\* The places LookAt, LeaveOut and Proceed lead to.
LEMMA Onward ==
    ASSUME LookAt(1) \/ LookAt(at + 1) \/ Proceed \/ LeaveOut
    PROVE  /\ stage' \in {"look", "pick", "key", "metakey", "done"}
           /\ stage' = "metakey" => query.kind = "validate"
           /\ stage' = "key" => query.kind # "parcel_info"
BY DEF LookAt, LeaveOut, Proceed

\* How the stages at which a root or its files are held are reached.
LEMMA HeldFrom ==
    ASSUME [RNext]_rvars, ~ UNCHANGED request
    PROVE  /\ stage' = "files" => /\ GetContentKey /\ parcelRoot[parcel] # NoRoot
                                  /\ root' = parcelRoot[parcel]
                                  /\ UNCHANGED <<parcel, asked>>
           /\ stage' = "meta" => /\ GetMetadataKey /\ parcelRoot[parcel] # NoRoot
                                 /\ root' = parcelRoot[parcel]
                                 /\ UNCHANGED <<parcel, asked, files>>
           /\ stage' = "metakey" /\ query.kind # "validate" =>
                 /\ stage = "files" /\ files' = content[root] /\ UNCHANGED <<parcel, asked>>
<1>1. Read
    BY StepCases
<1>2. CASE \/ Ask \/ GetSceneCid \/ GetRootSceneParcels \/ SkipCid \/ GetContentError
           \/ GetParcelMetadata
    BY <1>2, Onward DEF Ask, GetSceneCid, GetRootSceneParcels, SkipCid, GetContentError,
       GetParcelMetadata
<1>3. CASE GetSceneParcels \/ ListError \/ Respond \/ (\E f \in pairs : PickPair(f)) \/ MetadataMissing
    BY <1>3 DEF GetSceneParcels, ListError, Respond, PickPair, MetadataMissing
<1>4. CASE GetRootCid
    BY <1>4, Onward DEF GetRootCid
<1>5. CASE GetContentKey
    BY <1>5, Onward DEF GetContentKey
<1>6. CASE GetMetadataKey
    BY <1>6, Onward DEF GetMetadataKey
<1>7. CASE GetMetadataError
    BY <1>7, Onward DEF GetMetadataError
<1>8. CASE GetParcelContent
    BY <1>8 DEF GetParcelContent
<1> QED  BY <1>1, <1>2, <1>3, <1>4, <1>5, <1>6, <1>7, <1>8 DEF Read

\* An entry with files is the work of GetParcelMetadata.
LEMMA ReportedFrom ==
    ASSUME [RNext]_rvars, NEW a \in Reported'
    PROVE  \/ a \in Reported
           \/ /\ GetParcelMetadata /\ stage = "meta" /\ query.kind # "validate"
              /\ a = Entry(files, root)
<1>1. query' = query /\ a \in answer' /\ query.kind # "validate" /\ a.root # NoRoot
    BY StepCases DEF Reported
<1>2. CASE answer' = answer
    BY <1>1, <1>2 DEF Reported
<1>3. CASE LeaveOut
    <2>1. Entry(NoFiles, NoRoot).root = NoRoot
        BY DEF Entry
    <2> QED  BY <1>1, <1>3, <2>1 DEF LeaveOut, Reported
<1>4. CASE GetParcelMetadata
    BY <1>1, <1>4 DEF GetParcelMetadata, Reported
<1> QED  BY <1>1, <1>2, <1>3, <1>4, StepCases
         DEF Read, Ask, GetSceneParcels, ListError, GetSceneCid, GetRootCid,
             GetRootSceneParcels, SkipCid, PickPair, Respond, GetContentKey, GetParcelContent,
             GetContentError, GetMetadataKey, GetMetadataError, MetadataMissing, request

(***************************************************************************)
(* Behind every parcel key there is an upload that is recorded and has     *)
(* come as far as setting keys.                                            *)
(***************************************************************************)
LEMMA KeyedStays ==
    ASSUME TypeOK, ContentInv', [Next]_vars, NEW r, Keyed(r)
    PROVE  Keyed(r)'
<1>1. PICK u \in Uploads :
          /\ req[u].root = r /\ Complete(req[u])
          /\ pc[u] \in {"set", "setx", "error", "torn", "ok"} \cup Settling
    BY DEF Keyed
<1>2. req' = req
    BY NothingTakenBack
<1>3. Complete(req[u])'
    BY <1>1, CompleteStays
<1>4. pc'[u] \in {"set", "setx", "error", "torn", "ok"} \cup Settling
    <2>1. CASE pc'[u] = pc[u]
        BY <1>1, <2>1
    <2>2. CASE pc'[u] # pc[u]
        <3>1. Step(u)
            BY <2>2, StepIsLocal DEF Next, vars, CheckContentInStorage
        <3> QED  BY <1>1, <3>1 DEF Step, Progress, AcceptUpload, RejectUpload, AddCID,
                 GetParcelCID, PushParcels, PushError, SetParcel, SetProcessedParcel,
                 StoreMetadata, SaveSceneCid, SaveRootCid, Fail, SaveFile, StoreContent,
                 DeleteOldScene, Goto, Settling, TypeOK
    <2> QED  BY <2>1, <2>2
<1> QED  BY <1>1, <1>2, <1>3, <1>4 DEF Keyed

LEMMA KeysStep ==
    TypeOK /\ ContentInv /\ ContentInv' /\ KeysInv /\ [Next]_vars => KeysInv'
<1> SUFFICES ASSUME TypeOK, ContentInv, ContentInv', KeysInv, [Next]_vars,
                    NEW p \in Parcels, parcelRoot'[p] # NoRoot,
                    NEW r, r = parcelRoot'[p]
             PROVE  Keyed(r)'
    BY DEF KeysInv, Keyed
<1>1. CASE r = parcelRoot[p]
    BY <1>1, KeyedStays DEF KeysInv
<1>2. CASE r # parcelRoot[p]
    <2>1. PICK u \in Uploads : SetParcel(u)
        BY <1>2, ParcelKeyWriter
    <2>2. r = req[u].root
        BY <1>2, <2>1 DEF SetParcel, TypeOK
    <2>3. Complete(req[u])
        BY <2>1, RecordedIsComplete DEF SetParcel, Past, Indexing
    <2>4. Keyed(r)
        BY <2>1, <2>2, <2>3 DEF Keyed, SetParcel
    <2> QED  BY <2>4, KeyedStays
<1> QED  BY <1>1, <1>2

LEMMA RootKeyedStep ==
    /\ TypeOK /\ ContentInv' /\ KeysInv /\ RTypeOK /\ RootKeyed /\ [RNext]_rvars
    => RootKeyed'
<1> SUFFICES ASSUME TypeOK, ContentInv', KeysInv, RTypeOK, RootKeyed, [RNext]_rvars,
                    stage' \in {"files", "meta"}, NEW r, r = root'
             PROVE  Keyed(r)'
    BY DEF RootKeyed, Keyed
<1>1. Keyed(r)
    <2>1. CASE UNCHANGED request
        BY <2>1 DEF request, RootKeyed
    <2>2. CASE ~ UNCHANGED request
        BY <2>2, HeldFrom DEF KeysInv, RTypeOK
    <2> QED  BY <2>1, <2>2
<1> QED  BY <1>1, StepOfUploads, KeyedStays

LEMMA KeysInvariant == RSpec => [](TypeOK /\ ContentInv /\ PublishInv /\ KeysInv)
<1>1. RSpec => [](TypeOK /\ ContentInv /\ PublishInv)
    BY UploadsFollowSpec, TypeCorrect, ContentInvariant, PublishInvariant, PTL
<1>2. RInit => KeysInv
    BY DEF RInit, Init, KeysInv
<1>3. TypeOK /\ ContentInv /\ ContentInv' /\ KeysInv /\ [RNext]_rvars => KeysInv'
    BY StepOfUploads, KeysStep
<1> QED  BY <1>1, <1>2, <1>3, PTL DEF RSpec

LEMMA RootKeyedInvariant == RSpec => []RootKeyed
<1>1. RInit => RootKeyed
    BY DEF RInit, RootKeyed
<1> QED  BY <1>1, KeysInvariant, ReaderTypes, RootKeyedStep, PTL DEF RSpec

(***************************************************************************)
(* GetParcelInformation panics, and /validate answers an empty object,     *)
(* only on the root of an upload that has set a parcel key and is on its   *)
(* way to the metadata, or has failed before it got there.                 *)
(***************************************************************************)
THEOREM MissingMetadataJustifiedHolds == RSpec => MissingMetadataJustified
<1>1. TypeOK /\ PublishInv /\ RootKeyed =>
          (MetadataMissing =>
              \E u \in Uploads : /\ req[u].root = root
                                 /\ pc[u] \in {"set", "setx", "flag", "meta", "error", "torn"})
    <2> SUFFICES ASSUME TypeOK, PublishInv, RootKeyed, MetadataMissing
                 PROVE  \E u \in Uploads :
                            /\ req[u].root = root
                            /\ pc[u] \in {"set", "setx", "flag", "meta", "error", "torn"}
        OBVIOUS
    <2>1. PICK u \in Uploads :
              /\ req[u].root = root
              /\ pc[u] \in {"set", "setx", "error", "torn", "ok"} \cup Settling
        BY DEF MetadataMissing, RootKeyed, Keyed
    <2>2. root \notin metadata
        BY DEF MetadataMissing
    <2>3. pc[u] \notin {"scene", "root", "ok"}
        BY <2>1, <2>2 DEF PublishInv, Published, Past
    <2> QED  BY <2>1, <2>3 DEF Settling
<1>2. TypeOK /\ PublishInv /\ RootKeyed /\ [RNext]_rvars =>
          [MetadataMissing =>
              \E u \in Uploads : /\ req[u].root = root
                                 /\ pc[u] \in {"set", "setx", "flag", "meta", "error", "torn"}]_rvars
    BY <1>1
<1> QED  BY <1>2, KeysInvariant, RootKeyedInvariant, PTL DEF RSpec, MissingMetadataJustified

(***************************************************************************)
(* What is under a CID has been put there by an upload that has it.        *)
(***************************************************************************)
LEMMA Sourced ==
    ASSUME ContentInv, NEW r \in Roots, NEW n \in Names, content[r][n] # NoCid
    PROVE  \E u \in Uploads :
               /\ req[u].root = r
               /\ \E e \in Entries(req[u]) : e.name = n /\ e.cid = content[r][n]
<1>1. content[r][n] \in CidsFor(r, n)
    BY DEF ContentInv, RecordedAsGiven
<1>2. PICK u \in Uploads : req[u].root = r /\ [name |-> n, cid |-> content[r][n]] \in Entries(req[u])
    BY <1>1 DEF CidsFor
<1>3. PICK e \in Entries(req[u]) : e = [name |-> n, cid |-> content[r][n]]
    BY <1>2
<1> QED  BY <1>2, <1>3

LEMMA SourceStep == TypeOK /\ SourceInv /\ [Next]_vars => SourceInv'
<1> SUFFICES ASSUME TypeOK, SourceInv, [Next]_vars PROVE SourceInv'
    OBVIOUS
<1>1. req' = req
    BY NothingTakenBack
<1>3. ASSUME NEW c \in Cids \cup {EmptyCid}, rootOf'[c] # NoRoot
      PROVE  \E u \in Uploads : req[u].root = rootOf'[c] /\ SceneCid(req[u]) = c
    <2>1. CASE rootOf'[c] = rootOf[c]
        BY <1>3, <2>1 DEF SourceInv
    <2>2. CASE rootOf'[c] # rootOf[c]
        <3>1. PICK u \in Uploads : SaveRootCid(u)
            BY <2>2, PublishWriters
        <3>2. c = SceneCid(req[u]) /\ rootOf'[c] = req[u].root
            BY <2>2, <3>1 DEF SaveRootCid, TypeOK
        <3> QED  BY <3>2
    <2> QED  BY <2>1, <2>2
<1>4. \A u \in Uploads : SceneCid(req[u])' = SceneCid(req[u]) /\ Entries(req[u])' = Entries(req[u])
    BY <1>1 DEF SceneCid, SceneEntry, Entries
<1> QED  BY <1>1, <1>3, <1>4 DEF SourceInv

LEMMA SourceInvariant == RSpec => []SourceInv
<1>1. RInit => SourceInv
    BY DEF RInit, Init, SourceInv
<1>2. TypeOK /\ SourceInv /\ [RNext]_rvars => SourceInv'
    BY StepOfUploads, SourceStep
<1> QED  BY <1>1, <1>2, KeysInvariant, PTL DEF RSpec

(***************************************************************************)
(* While nobody publishes.                                                 *)
(***************************************************************************)

\* The files of a root that is in use stay what they are.
LEMMA FilesStandStill ==
    ASSUME TypeOK, TypeOK', ContentInv, ContentInv', [Next]_vars,
           NEW r \in Roots, SameFiles(r), Keyed(r)
    PROVE  content'[r] = content[r]
<1>1. PICK u \in Uploads : req[u].root = r /\ Complete(req[u])
    BY DEF Keyed
<1>2. req' = req
    BY NothingTakenBack
<1>3. ASSUME NEW n \in Names, content'[r][n] # NoCid
      PROVE  \E v \in Uploads : /\ req[v].root = r
                               /\ \E f \in Entries(req[v]) : f.name = n /\ f.cid = content'[r][n]
    <2>1. content'[r][n] \in CidsFor(r, n)'
        BY <1>3 DEF ContentInv, RecordedAsGiven
    <2>2. PICK v \in Uploads : req[v].root = r
                              /\ [name |-> n, cid |-> content'[r][n]] \in Entries(req[v])
        BY <1>2, <2>1 DEF CidsFor, Entries
    <2>3. PICK f \in Entries(req[v]) : f = [name |-> n, cid |-> content'[r][n]]
        BY <2>2
    <2> QED  BY <2>2, <2>3
<1>4. ASSUME NEW n \in Names, content[r][n] # NoCid PROVE content'[r][n] = content[r][n]
    <2>1. PICK v \in Uploads : /\ req[v].root = r
                             /\ \E e \in Entries(req[v]) : e.name = n /\ e.cid = content[r][n]
        BY <1>4, Sourced
    <2>2. PICK e \in Entries(req[v]) : e.name = n /\ e.cid = content[r][n]
        BY <2>1
    <2>3. content'[r][n] # NoCid
        BY <1>4, NothingTakenBack
    <2>4. PICK w \in Uploads : /\ req[w].root = r
                             /\ \E f \in Entries(req[w]) : f.name = n /\ f.cid = content'[r][n]
        BY <1>3, <2>3
    <2>5. PICK f \in Entries(req[w]) : f.name = n /\ f.cid = content'[r][n]
        BY <2>4
    <2>6. f \in Entries(req[v])
        BY <2>1, <2>4, <2>5 DEF SameFiles
    <2>7. e = f
        BY <2>1, <2>2, <2>5, <2>6 DEF SameFiles
    <2> QED  BY <2>2, <2>5, <2>7
<1>n. ASSUME NEW n \in Names, content[r][n] = NoCid PROVE content'[r][n] = NoCid
    <2> SUFFICES ASSUME content'[r][n] # NoCid PROVE FALSE
        OBVIOUS
    <2>1. PICK w \in Uploads : /\ req[w].root = r
                             /\ \E f \in Entries(req[w]) : f.name = n
        BY <1>3
    <2>2. \E f \in Entries(req[u]) : f.name = n
        BY <1>1, <2>1 DEF SameFiles
    <2> QED  BY <1>1, <1>n, <2>2, NoneAssumption DEF Complete, CidsFor
<1>5. content[r] \in [Names -> Cids \cup {NoCid}] /\ content'[r] \in [Names -> Cids \cup {NoCid}]
    BY DEF TypeOK
<1>6. \A n \in Names : content'[r][n] = content[r][n]
    BY <1>4, <1>n
<1> QED  BY <1>5, <1>6

\* Nor do the parcel keys change.
LEMMA KeysStandStill ==
    ASSUME [Next]_vars, NobodyPublishes
    PROVE  parcelRoot' = parcelRoot /\ sceneParcels' = sceneParcels
<1>1. parcelRoot' = parcelRoot
    BY ParcelKeyWriter DEF NobodyPublishes, SetParcel, Indexing
<1>2. sceneParcels' = sceneParcels
    BY ListWriters DEF NobodyPublishes, DeleteOldScene, PushParcels, PushError, Indexing
<1> QED  BY <1>1, <1>2

\* A request that is being served calmly has been so since it came in.
LEMMA CalmFrom ==
    ASSUME [RNext]_rvars, ~ Ask
    PROVE  /\ calm' => calm
           /\ Serving' => Serving
           /\ stage' = "idle" => stage = "idle" /\ UNCHANGED request
           /\ calm' /\ Serving' /\ UploadStep => NobodyPublishes'
<1>1. CASE Read
    <2>1. calm' = calm /\ Serving
        BY <1>1 DEF Read, GetSceneParcels, ListError, GetSceneCid, GetRootCid,
           GetRootSceneParcels, SkipCid, PickPair, Respond, GetContentKey, GetParcelContent,
           GetContentError, GetMetadataKey, GetMetadataError, GetParcelMetadata,
           MetadataMissing, Serving, Over
    <2>2. stage' # "idle"
        BY <1>1, Onward DEF Read, GetSceneParcels, ListError, GetSceneCid, GetRootCid,
           GetRootSceneParcels, SkipCid, PickPair, Respond, GetContentKey, GetParcelContent,
           GetContentError, GetMetadataKey, GetMetadataError, GetParcelMetadata,
           MetadataMissing
    <2>3. UploadStep /\ calm' /\ Serving' => NobodyPublishes'
        BY DEF UploadStep, request, Serving
    <2> QED  BY <2>1, <2>2, <2>3
<1>2. CASE UploadStep
    BY <1>2 DEF UploadStep, request, Serving
<1>3. CASE UNCHANGED rvars
    <2>1. UploadStep /\ calm' /\ Serving' => NobodyPublishes'
        BY DEF UploadStep, request, Serving
    <2> QED  BY <1>3, <2>1 DEF rvars, request, Serving
<1> QED  BY <1>1, <1>2, <1>3 DEF RNext

LEMMA CalmStep ==
    /\ TypeOK /\ TypeOK' /\ ContentInv /\ ContentInv' /\ KeysInv
    /\ RTypeOK /\ StageInv /\ RootKeyed /\ CalmInv /\ [RNext]_rvars
    => CalmInv'
<1> SUFFICES ASSUME TypeOK, TypeOK', ContentInv, ContentInv', KeysInv, RTypeOK,
                    StageInv, RootKeyed, CalmInv, [RNext]_rvars
             PROVE  CalmInv'
    OBVIOUS
<1>1. [Next]_vars /\ query' = query /\ req' = req
    BY StepOfUploads, StepCases, NothingTakenBack
<1>2. \A r \in Roots : SameFiles(r) /\ Keyed(r) => content'[r] = content[r]
    BY <1>1, FilesStandStill
<1>3. Ask => stage = "idle" /\ Reported' = {} /\ stage' \notin {"idle", "files", "meta"}
              /\ (stage' = "metakey" => query.kind = "validate")
              /\ calm' = NobodyPublishes /\ answer' = {} /\ pairs' = {} /\ UNCHANGED vars
    BY Onward DEF Ask, Reported, CalmInv
<1>4. stage' = "idle" => answer' = {} /\ pairs' = {}
    BY <1>3, CalmFrom DEF CalmInv, request
<1>5. ASSUME NEW a \in Reported'
      PROVE  /\ Keyed(a.root)' /\ a.root \in Roots
             /\ calm' /\ SameFiles(a.root) => a.files = content'[a.root]
    <2>1. ~ Ask /\ (calm' => calm)
        BY <1>3, <1>5, CalmFrom
    <2>2. CASE a \in Reported
        <3>1. Keyed(a.root) /\ a.root \in Roots
              /\ (calm /\ SameFiles(a.root) => a.files = content[a.root])
            BY <2>2 DEF CalmInv, OneScene
        <3>2. Keyed(a.root)'
            BY <1>1, <3>1, KeyedStays
        <3> QED  BY <1>2, <2>1, <3>1, <3>2
    <2>3. CASE GetParcelMetadata /\ stage = "meta" /\ query.kind # "validate"
               /\ a = Entry(files, root)
        <3>1. a.root = root /\ a.files = files /\ root \in Roots /\ Keyed(a.root)
            BY <2>3 DEF Entry, StageInv, RootKeyed
        <3>2. Keyed(a.root)'
            BY <1>1, <3>1, KeyedStays
        <3>3. calm /\ SameFiles(root) => files = content[root]
            BY <2>3 DEF CalmInv, Serving, Over
        <3>4. content' = content
            BY <2>3 DEF GetParcelMetadata, vars, store
        <3> QED  BY <2>1, <3>1, <3>2, <3>3, <3>4
    <2> QED  BY <2>2, <2>3, ReportedFrom
<1>6. ASSUME calm', Serving'
      PROVE  /\ NobodyPublishes'
             /\ stage' \in {"files", "meta"} => root' = parcelRoot'[parcel']
             /\ stage' = "metakey" /\ query.kind # "validate" =>
                   /\ parcelRoot'[parcel'] # NoRoot
                   /\ SameFiles(parcelRoot'[parcel']) => files' = content'[parcelRoot'[parcel']]
             /\ stage' = "meta" /\ query.kind # "validate" =>
                   (SameFiles(root') => files' = content'[root'])
    <2>1. CASE Ask
        BY <1>3, <1>6, <2>1 DEF NobodyPublishes, vars
    <2>2. CASE ~ Ask
        <3>1. calm /\ Serving /\ NobodyPublishes
            BY <1>6, <2>2, CalmFrom DEF CalmInv
        <3>2. parcelRoot' = parcelRoot
            BY <1>1, <3>1, KeysStandStill
        <3>3. NobodyPublishes'
            <4>1. CASE UNCHANGED vars
                BY <3>1, <4>1 DEF NobodyPublishes, vars
            <4> QED  BY <1>6, <2>2, <4>1, CalmFrom, ReadKeeps DEF RNext, rvars
        <3>4. CASE UNCHANGED request
            <4>1. UNCHANGED <<stage, root, files, parcel>>
                BY <3>4 DEF request
            <4>2. stage = "metakey" /\ query.kind # "validate" =>
                     parcelRoot[parcel] \in Roots /\ Keyed(parcelRoot[parcel])
                BY <3>1 DEF CalmInv, KeysInv, RTypeOK, TypeOK
            <4>3. stage = "meta" => root \in Roots /\ Keyed(root)
                BY DEF RootKeyed, StageInv
            <4> QED  BY <1>2, <3>1, <3>2, <3>3, <4>1, <4>2, <4>3 DEF CalmInv
        <3>5. CASE ~ UNCHANGED request
            <4>1. content' = content
                BY <3>5, StepCases, ReadKeeps DEF vars, store
            <4>2. stage' = "metakey" /\ query.kind # "validate" =>
                     /\ root = parcelRoot[parcel] /\ root # NoRoot
                     /\ files' = content[root] /\ parcel' = parcel
                BY <3>1, <3>5, HeldFrom, NoneAssumption DEF CalmInv, StageInv
            <4>3. stage' = "meta" /\ query.kind # "validate" =>
                     /\ stage = "metakey" /\ files' = files
                     /\ root' = parcelRoot[parcel] /\ parcel' = parcel
                BY <3>5, HeldFrom DEF GetMetadataKey
            <4>4. stage' = "meta" /\ query.kind # "validate" =>
                     (SameFiles(parcelRoot[parcel]) => files = content[parcelRoot[parcel]])
                BY <3>1, <4>3 DEF CalmInv
            <4>5. stage' \in {"files", "meta"} => root' = parcelRoot[parcel] /\ parcel' = parcel
                BY <3>5, HeldFrom
            <4> QED  BY <3>2, <3>3, <4>1, <4>2, <4>3, <4>4, <4>5
        <3> QED  BY <3>4, <3>5
    <2> QED  BY <2>1, <2>2
<1>7. SameFiles(parcelRoot[parcel])' <=> SameFiles(parcelRoot'[parcel'])
    BY <1>1 DEF SameFiles, Entries
<1>8. SameFiles(root)' <=> SameFiles(root')
    BY <1>1 DEF SameFiles, Entries
<1>9. ASSUME NEW a \in Reported'
      PROVE  Keyed(a.root)' /\ a.root \in Roots /\ (calm' /\ SameFiles(a.root)' => OneScene(a)')
    <2>1. SameFiles(a.root)' <=> SameFiles(a.root)
        BY <1>1 DEF SameFiles, Entries
    <2> QED  BY <1>5, <1>9, <2>1 DEF OneScene
<1> QED  BY <1>1, <1>4, <1>6, <1>7, <1>8, <1>9 DEF CalmInv

LEMMA CalmInvariant == RSpec => []CalmInv
<1>1. RInit => CalmInv
    BY DEF RInit, CalmInv, Serving, Reported
<1> QED  BY <1>1, KeysInvariant, ReaderTypes, RootKeyedInvariant, CalmStep, PTL DEF RSpec

\* While nobody publishes, a quiet parcel that is listed leads back to its scene.
LEMMA ListedLeadsBack ==
    ASSUME QuietInv, TypeOK, NobodyPublishes,
           NEW r \in Roots, NEW p \in Quiet, p \in Range(sceneParcels[r])
    PROVE  parcelRoot[p] = r
<1>1. UniqueParcel(p)
    BY ExactIsUnique DEF QuietInv
<1> QED  BY <1>1 DEF UniqueParcel, Lists, NobodyPublishes, Indexing

LEMMA InfoStep ==
    /\ TypeOK /\ QuietInv /\ QuietInv' /\ RTypeOK /\ StageInv /\ CalmInv /\ InfoInv
    /\ [RNext]_rvars
    => InfoInv'
<1> SUFFICES ASSUME TypeOK, QuietInv, QuietInv', RTypeOK, StageInv, CalmInv, InfoInv,
                    [RNext]_rvars, query'.kind = "parcel_info", calm'
             PROVE  /\ Serving' =>
                          /\ stage' = "scene" => parcel' \in Range(sceneParcels'[Key'])
                          /\ \A f \in pairs' : /\ f.root \in Roots
                                               /\ f.parcel \in Range(sceneParcels'[f.root])
                          /\ stage' \in {"key", "files", "metakey", "meta"} =>
                                /\ asked'.root \in Roots
                                /\ parcel' \in Range(sceneParcels'[asked'.root])
                    /\ \A a \in Reported' : a.parcel \in Quiet' => a.root = a.asked
    BY DEF InfoInv
<1>1. [Next]_vars /\ query' = query /\ query.kind = "parcel_info"
    BY StepOfUploads, StepCases
<1>2. CASE Ask
    <2>1. stage' \in {"look", "pick"} /\ pairs' = {} /\ Reported' = {}
        BY <1>1, <1>2 DEF Ask, LookAt, CalmInv, Reported
    <2> QED  BY <2>1
<1>3. CASE ~ Ask
    <2>1. calm /\ (Serving' => Serving)
        BY <1>3, CalmFrom
    <2>2. Serving => NobodyPublishes
        BY <2>1 DEF CalmInv
    <2>3. Serving' =>
             /\ sceneParcels' = sceneParcels
             /\ stage = "scene" => parcel \in Range(sceneParcels[Key])
             /\ \A f \in pairs : f.root \in Roots /\ f.parcel \in Range(sceneParcels[f.root])
             /\ stage \in {"key", "files", "metakey", "meta"} =>
                   asked.root \in Roots /\ parcel \in Range(sceneParcels[asked.root])
        BY <1>1, <2>1, <2>2, KeysStandStill DEF InfoInv
    <2>4. ASSUME Serving', stage' = "scene" PROVE parcel' \in Range(sceneParcels[Key'])
        <3>1. CASE UNCHANGED request
            BY <2>3, <2>4, <3>1 DEF request, Key
        <3>2. CASE GetSceneParcels
            <4>1. Key' = Key /\ Key \in Roots /\ sceneParcels[Key] # <<>>
                  /\ parcel' = Head(sceneParcels[Key])
                BY <2>4, <3>2 DEF GetSceneParcels, Key, ListOf
            <4> QED  BY <4>1, HeadOfList
        <3> QED  BY <1>3, <2>4, <3>1, <3>2, Onward, StepCases
                 DEF Read, ListError, GetSceneCid, GetRootCid, GetRootSceneParcels, SkipCid,
                     PickPair, Respond, GetContentKey, GetParcelContent, GetContentError,
                     GetMetadataKey, GetMetadataError, GetParcelMetadata, MetadataMissing
    <2>5. ASSUME Serving', NEW f \in pairs'
          PROVE  f.root \in Roots /\ f.parcel \in Range(sceneParcels[f.root])
        <3>1. CASE f \in pairs
            BY <2>3, <2>5, <3>1
        <3>2. ASSUME NEW c, GetSceneCid, FoundPair(Key, parcel, c)
              PROVE  f.root \in Roots /\ f.parcel \in Range(sceneParcels[f.root])
            <4>1. Key \in Roots /\ parcel \in Range(sceneParcels[Key])
                BY <2>3, <2>5, <3>2 DEF GetSceneCid, StageInv
            <4>2. f \in pairs \/ f = [root |-> Key, parcel |-> parcel, scene |-> c]
                BY <2>5, <3>2 DEF FoundPair
            <4> QED  BY <3>1, <4>1, <4>2
        <3>3. CASE GetRootSceneParcels
            <4>1. root \in Roots
                BY <3>3 DEF GetRootSceneParcels, StageInv
            <4>2. CASE sceneParcels[root] # <<>> /\ FoundPair(root, Head(sceneParcels[root]), Key)
                <5>1. Head(sceneParcels[root]) \in Range(sceneParcels[root])
                    BY <4>1, <4>2, HeadOfList
                <5>2. f \in pairs \/ f = [root |-> root, parcel |-> Head(sceneParcels[root]),
                                           scene |-> Key]
                    BY <2>5, <4>2 DEF FoundPair
                <5> QED  BY <3>1, <4>1, <5>1, <5>2
            <4> QED  BY <2>5, <3>1, <3>3, <4>2 DEF GetRootSceneParcels
        <3>4. CASE GetSceneCid
            BY <3>2, <3>4 DEF GetSceneCid
        <3> QED  BY <1>3, <2>5, <3>1, <3>3, <3>4, StepCases
                 DEF Read, GetSceneParcels, ListError, GetRootCid, SkipCid, PickPair, Respond,
                     GetContentKey, GetParcelContent, GetContentError, GetMetadataKey,
                     GetMetadataError, GetParcelMetadata, MetadataMissing, request
    <2>6. ASSUME Serving', stage' \in {"key", "files", "metakey", "meta"}
          PROVE  asked'.root \in Roots /\ parcel' \in Range(sceneParcels[asked'.root])
        <3>1. CASE UNCHANGED request
            BY <2>3, <2>6, <3>1 DEF request
        <3>2. ASSUME NEW f \in pairs, PickPair(f)
              PROVE  asked'.root \in Roots /\ parcel' \in Range(sceneParcels[asked'.root])
            BY <2>3, <2>6, <3>2 DEF PickPair
        <3>3. CASE /\ stage \in {"key", "files", "metakey"} /\ UNCHANGED <<parcel, asked>>
            BY <2>3, <2>6, <3>3
        <3>4. ASSUME LookAt(at + 1) \/ Proceed \/ LeaveOut PROVE FALSE
            BY <1>1, <2>6, <3>4, Onward DEF LookAt, Proceed, LeaveOut
        <3>5. CASE GetSceneParcels \/ ListError \/ Respond \/ MetadataMissing \/ GetMetadataError
                   \/ GetParcelMetadata
            BY <1>1, <2>6, <3>4, <3>5 DEF GetSceneParcels, ListError, Respond, MetadataMissing,
               GetMetadataError, GetParcelMetadata
        <3>6. CASE GetSceneCid \/ GetRootCid \/ GetRootSceneParcels \/ SkipCid \/ GetContentError
            BY <2>6, <3>4, <3>6 DEF GetSceneCid, GetRootCid, GetRootSceneParcels, SkipCid,
               GetContentError
        <3>7. CASE GetContentKey \/ GetParcelContent \/ GetMetadataKey
            BY <3>3, <3>4, <3>7 DEF GetContentKey, GetParcelContent, GetMetadataKey
        <3> QED  BY <1>3, <3>1, <3>2, <3>5, <3>6, <3>7, StepCases DEF Read
    <2>7. ASSUME NEW a \in Reported', a.parcel \in Quiet' PROVE a.root = a.asked
        <3>1. a.parcel \in Quiet
            BY <1>1, <2>7, QuietBefore
        <3>2. CASE a \in Reported
            BY <1>1, <2>1, <3>1, <3>2 DEF InfoInv
        <3>3. CASE stage = "meta" /\ a = Entry(files, root)
            <4>1. Serving /\ NobodyPublishes /\ root = parcelRoot[parcel]
                BY <2>1, <2>2, <3>3 DEF Serving, Over, CalmInv
            <4>2. asked.root \in Roots /\ parcel \in Range(sceneParcels[asked.root])
                BY <1>1, <2>1, <3>3, <4>1 DEF InfoInv
            <4>3. parcelRoot[parcel] = asked.root
                <5>1. parcel \in Quiet
                    BY <3>1, <3>3 DEF Entry
                <5> QED  BY <4>1, <4>2, <5>1, ListedLeadsBack
            <4> QED  BY <3>3, <4>1, <4>3 DEF Entry
        <3> QED  BY <2>7, <3>2, <3>3, ReportedFrom
    <2>8. /\ Serving' /\ stage' = "scene" => parcel' \in Range(sceneParcels'[Key'])
          /\ Serving' => \A f \in pairs' : /\ f.root \in Roots
                                           /\ f.parcel \in Range(sceneParcels'[f.root])
          /\ Serving' /\ stage' \in {"key", "files", "metakey", "meta"} =>
                asked'.root \in Roots /\ parcel' \in Range(sceneParcels'[asked'.root])
        BY <2>3, <2>4, <2>5, <2>6
    <2> QED  BY <2>7, <2>8
<1> QED  BY <1>2, <1>3

(***************************************************************************)
(* An entry of /mappings or /parcel_info shows the files of one scene if   *)
(* nobody publishes while the answer is put together, and in /parcel_info  *)
(* it is the scene that was asked for if the parcel is quiet.              *)
(***************************************************************************)
THEOREM CalmAnswerHolds == RSpec => []CalmAnswer
<1>1. RSpec => [](TypeOK /\ QuietInv)
    <2>1. Spec => []QuietInv
        BY TypeCorrect, PublishInvariant, InitQuiet, QuietStep, PTL DEF Spec
    <2> QED  BY <2>1, UploadsFollowSpec, TypeCorrect, PTL
<1>2. RSpec => []CalmInv
    BY CalmInvariant, PTL
<1>3. RSpec => []InfoInv
    <2>1. RInit => InfoInv
        BY DEF RInit, InfoInv, Serving, Reported
    <2> QED  BY <1>1, <1>2, <2>1, ReaderTypes, InfoStep, PTL DEF RSpec
<1>4. CalmInv /\ InfoInv => CalmAnswer
    BY DEF CalmInv, InfoInv, CalmAnswer
<1> QED  BY <1>2, <1>3, <1>4, PTL

(***************************************************************************)
(* The files of an answer can be fetched.                                  *)
(***************************************************************************)
LEMMA WholeStays ==
    ASSUME TypeOK, [Next]_vars, NEW f, NEW p, NEW u \in Uploads, Whole(f, p, u)
    PROVE  Whole(f, p, u)'
<1>1. req' = req /\ storage \subseteq storage'
    BY NothingTakenBack
<1> QED  BY <1>1 DEF Whole, HasManifest, CidsFor

LEMMA BackedStays ==
    ASSUME TypeOK, ContentInv', [Next]_vars, NEW r, NEW p, Backed(r, p)
    PROVE  Backed(r, p)'
<1>1. PICK u \in Uploads : req[u].root = r /\ p \in Claims(req[u]) /\ Complete(req[u])
    BY DEF Backed
<1>2. Complete(req[u])' /\ req' = req
    BY <1>1, CompleteStays, NothingTakenBack
<1> QED  BY <1>1, <1>2 DEF Backed

\* The content hash of a root that is backed is whole.
LEMMA ContentIsWhole ==
    ASSUME TypeOK, ContentInv, NEW r \in Roots, NEW p, Backed(r, p)
    PROVE  WholeFor(content[r], p, r)
<1>1. PICK u \in Uploads : req[u].root = r /\ p \in Claims(req[u]) /\ Complete(req[u])
    BY DEF Backed
<1>2. \A n \in Names \ Dirs : content[r][n] = NoCid \/ content[r][n] \in storage
    BY DEF ContentInv
<1>3. HasManifest(content[r], req[u])
    <2>1. \A n \in Names : content[r][n] \in CidsFor(r, n) \cup {NoCid}
        BY DEF ContentInv, RecordedAsGiven
    <2>2. \A e \in Entries(req[u]) : content[r][e.name] \in CidsFor(r, e.name)
        BY <1>1 DEF Complete
    <2>3. \A n : CidsFor(r, n) \subseteq Cids
        BY DEF CidsFor
    <2> QED  BY <1>1, <2>1, <2>2, <2>3, NoneAssumption DEF HasManifest
<1> QED  BY <1>1, <1>2, <1>3 DEF WholeFor, Whole

LEMMA FilesStep ==
    /\ TypeOK /\ ContentInv /\ ContentInv' /\ NoDanglingScene
    /\ RTypeOK /\ StageInv /\ CalmInv /\ FilesInv /\ [RNext]_rvars
    => FilesInv'
<1> SUFFICES ASSUME TypeOK, ContentInv, ContentInv', NoDanglingScene, RTypeOK, StageInv,
                    CalmInv, FilesInv, [RNext]_rvars
             PROVE  FilesInv'
    OBVIOUS
<1>1. [Next]_vars /\ query' = query /\ req' = req
    BY StepOfUploads, StepCases, NothingTakenBack
<1>2. \A r, p : Backed(r, p) => Backed(r, p)'
    BY <1>1, BackedStays
<1>3. ASSUME NEW f, NEW p, NEW r, WholeFor(f, p, r), calm' => calm
      PROVE  WholeFor(f, p, r)'
    <2>1. PICK u \in Uploads : Whole(f, p, u) /\ (calm => req[u].root = r)
        BY <1>3 DEF WholeFor
    <2>2. Whole(f, p, u)'
        BY <1>1, <2>1, WholeStays
    <2> QED  BY <1>1, <1>3, <2>1, <2>2 DEF WholeFor
<1>4. ASSUME stage' \in {"files", "meta"} PROVE Backed(root', parcel')
    <2>1. CASE UNCHANGED request
        BY <1>4, <2>1 DEF request, FilesInv
    <2>2. CASE ~ UNCHANGED request
        <3>1. parcel \in Parcels /\ parcelRoot[parcel] # NoRoot
              /\ root' = parcelRoot[parcel] /\ parcel' = parcel
            BY <1>4, <2>2, HeldFrom DEF RTypeOK
        <3> QED  BY <3>1 DEF NoDanglingScene, Backed
    <2> QED  BY <2>1, <2>2
<1>5. ASSUME stage' \in {"metakey", "meta"}, query.kind # "validate"
      PROVE  WholeFor(files', parcel', parcelRoot'[parcel']) /\ (calm' => calm)
    <2>1. ~ Ask /\ (calm' => calm) /\ (stage' \in {"metakey", "meta"} => stage \notin {"idle"} \cup Over)
        <3>1. ~ Ask
            BY <1>5, Onward DEF Ask
        <3>2. Serving'
            BY <1>5 DEF Serving, Over
        <3> QED  BY <3>1, <3>2, CalmFrom DEF Serving
    <2>2. CASE UNCHANGED request
        <3>1. WholeFor(files, parcel, parcelRoot[parcel]) /\ UNCHANGED <<files, parcel>>
            BY <1>5, <2>2 DEF request, FilesInv
        <3>2. calm => parcelRoot' = parcelRoot
            BY <1>1, <2>1, <1>5, KeysStandStill DEF CalmInv, Serving
        <3> QED  BY <2>1, <3>1, <3>2 DEF WholeFor
    <2>3. CASE ~ UNCHANGED request
        <3>1. parcelRoot' = parcelRoot
            BY <2>3, StepCases, ReadKeeps DEF vars, index
        <3>2. CASE stage' = "metakey"
            <4>1. stage = "files" /\ files' = content[root] /\ parcel' = parcel /\ root \in Roots
                BY <1>5, <2>3, <3>2, HeldFrom DEF StageInv
            <4>2. WholeFor(content[root], parcel, root)
                BY <4>1, ContentIsWhole DEF FilesInv
            <4>3. calm => root = parcelRoot[parcel]
                BY <2>1, <4>1 DEF CalmInv, Serving, Over
            <4> QED  BY <2>1, <3>1, <4>1, <4>2, <4>3 DEF WholeFor
        <3>3. CASE stage' = "meta"
            <4>1. stage = "metakey" /\ files' = files /\ parcel' = parcel
                BY <2>3, <3>3, HeldFrom DEF GetMetadataKey
            <4> QED  BY <1>5, <2>1, <3>1, <4>1 DEF FilesInv
        <3> QED  BY <1>5, <3>2, <3>3
    <2> QED  BY <2>1, <2>2, <2>3
<1>6. ASSUME NEW a \in Reported'
      PROVE  Backed(a.root, a.parcel) /\ WholeFor(a.files, a.parcel, a.root) /\ (calm' => calm)
    <2>1. calm' => calm
        <3>1. Ask => Reported' = {}
            BY StepCases DEF Ask, Reported, CalmInv
        <3> QED  BY <1>6, <3>1, CalmFrom
    <2>2. CASE a \in Reported
        BY <2>1, <2>2 DEF FilesInv
    <2>3. CASE stage = "meta" /\ query.kind # "validate" /\ a = Entry(files, root)
        <3>1. a.root = root /\ a.files = files /\ a.parcel = parcel
            BY <2>3 DEF Entry
        <3>2. calm => root = parcelRoot[parcel]
            BY <2>3 DEF CalmInv, Serving, Over
        <3> QED  BY <2>1, <2>3, <3>1, <3>2 DEF FilesInv, WholeFor
    <2> QED  BY <2>2, <2>3, ReportedFrom
<1>7. stage' \in {"files", "meta"} => Backed(root, parcel)'
    <2>1. ASSUME NEW r, NEW p, r = root', p = parcel', Backed(r, p) PROVE Backed(root, parcel)'
        <3>1. Backed(r, p)'
            BY <1>2, <2>1
        <3> QED  BY <2>1, <3>1 DEF Backed
    <2> QED  BY <1>4, <2>1
<1>8. stage' \in {"metakey", "meta"} /\ query'.kind # "validate" =>
          WholeFor(files, parcel, parcelRoot[parcel])'
    <2>1. ASSUME NEW f, NEW p, NEW r, f = files', p = parcel', r = parcelRoot'[p],
                 WholeFor(f, p, r), calm' => calm
          PROVE  WholeFor(files, parcel, parcelRoot[parcel])'
        <3>1. WholeFor(f, p, r)'
            BY <1>3, <2>1
        <3> QED  BY <2>1, <3>1 DEF WholeFor, Whole
    <2> QED  BY <1>1, <1>5, <2>1
<1>9. \A a \in Reported' : Backed(a.root, a.parcel)' /\ WholeFor(a.files, a.parcel, a.root)'
    BY <1>2, <1>3, <1>6
<1> QED  BY <1>7, <1>8, <1>9 DEF FilesInv

(***************************************************************************)
(* The files of an entry of /mappings or /parcel_info are the complete     *)
(* manifest of an upload that claimed the parcel - of one with the root    *)
(* CID of the entry, if nobody publishes meanwhile - and can all be        *)
(* fetched, whatever uploads do between the reads and however they fail.   *)
(***************************************************************************)
THEOREM FilesServableHolds == RSpec => []FilesServable
<1>1. RSpec => [](TypeOK /\ ContentInv /\ NoDanglingScene)
    BY UploadsFollowSpec, TypeCorrect, ContentInvariant, NoDanglingSceneHolds, PTL
<1>2. RSpec => []FilesInv
    <2>1. RInit => FilesInv
        BY DEF RInit, FilesInv, Reported
    <2> QED  BY <1>1, <2>1, CalmInvariant, ReaderTypes, FilesStep, PTL DEF RSpec
<1>3. FilesInv => FilesServable
    BY DEF FilesInv, FilesServable, WholeFor, Whole, Backed
<1> QED  BY <1>2, <1>3, PTL

(***************************************************************************)
(* If all uploads of a root have the same manifest, what FilesServable     *)
(* says of an entry makes its files exactly that manifest.                 *)
(***************************************************************************)
THEOREM FilesExact ==
    ASSUME NEW u \in Uploads, SameFiles(req[u].root), NEW f \in [Names -> Cids \cup {NoCid}],
           TypeOK, HasManifest(f, req[u])
    PROVE  Entries(req[u]) = {e \in FileMetadata : f[e.name] = e.cid}
<1>1. Entries(req[u]) \subseteq FileMetadata
    BY RequestFacts DEF TypeOK
<1>2. ASSUME NEW n \in Names, f[n] # NoCid PROVE [name |-> n, cid |-> f[n]] \in Entries(req[u])
    <2>1. PICK v \in Uploads : req[v].root = req[u].root /\ [name |-> n, cid |-> f[n]] \in Entries(req[v])
        BY <1>2 DEF HasManifest, CidsFor
    <2> QED  BY <2>1 DEF SameFiles
<1>3. ASSUME NEW e \in Entries(req[u]) PROVE f[e.name] = e.cid
    <2>1. e.name \in Names /\ f[e.name] # NoCid
        BY <1>1, <1>3 DEF HasManifest, FileMetadata
    <2>2. [name |-> e.name, cid |-> f[e.name]] \in Entries(req[u])
        BY <1>2, <2>1
    <2>3. PICK g \in Entries(req[u]) : g = [name |-> e.name, cid |-> f[e.name]]
        BY <2>2
    <2>4. g.name = e.name /\ g.cid = f[e.name]
        BY <2>3
    <2>5. g = e
        BY <1>3, <2>4 DEF SameFiles
    <2> QED  BY <2>4, <2>5
<1>4. ASSUME NEW e \in FileMetadata, f[e.name] = e.cid PROVE e \in Entries(req[u])
    <2>1. e = [name |-> e.name, cid |-> f[e.name]] /\ e.name \in Names /\ f[e.name] # NoCid
        BY <1>4, NoneAssumption DEF FileMetadata
    <2> QED  BY <1>2, <2>1
<1> QED  BY <1>1, <1>3, <1>4

(***************************************************************************)
(* An acknowledged scene is found.                                         *)
(***************************************************************************)

\* What a reader sees of a scene that nothing has run into.
Seen(q) ==
    /\ \A p \in Claims(q) : parcelRoot[p] = q.root
    /\ sceneParcels[q.root] # <<>> /\ Head(sceneParcels[q.root]) \in Claims(q)
    /\ sceneOf[q.root] = SceneCid(q) /\ SceneCid(q) # NoCid
    /\ rootOf[SceneCid(q)] = q.root
    /\ q.root \in metadata /\ q.root \in Roots /\ q.root # NoRoot

LEMMA SeenScene ==
    ASSUME TypeOK, AckVisible, NEW u \in Uploads, pc[u] = "ok", Undisturbed(u),
           NEW q \in Requests, q = req[u]
    PROVE  Seen(q)
<1>1. /\ \A p \in Claims(q) : parcelRoot[p] = q.root
      /\ sceneOf[q.root] = SceneCid(q) /\ SceneCid(q) # NoCid
      /\ q.root \in Roots /\ q.root # NoRoot
    BY SeenOfScene
<1>2. /\ IsPrefix(Reverse(q.scene), sceneParcels[q.root])
      /\ q.root \in metadata /\ rootOf[SceneCid(q)] = q.root
    BY DEF AckVisible
<1>3. /\ q.scene \in Seq(Parcels) /\ Len(q.scene) \in Nat /\ Len(q.scene) >= 1
      /\ sceneParcels[q.root] \in Seq(Parcels)
    BY <1>1, RequestFacts DEF TypeOK
<1>4. /\ Reverse(q.scene) \in Seq(Parcels) /\ Len(Reverse(q.scene)) = Len(q.scene)
      /\ Range(Reverse(q.scene)) = Claims(q)
    BY <1>3, ReverseFacts DEF Claims
<1>5. /\ sceneParcels[q.root] # <<>>
      /\ Head(sceneParcels[q.root]) = Reverse(q.scene)[1]
    <2> DEFINE s == Reverse(q.scene)
               t == sceneParcels[q.root]
    <2>1. /\ s \in Seq(Parcels) /\ t \in Seq(Parcels) /\ Len(s) \in Nat /\ Len(s) >= 1
          /\ Len(s) <= Len(t) /\ SubSeq(s, 1, Len(s)) = SubSeq(t, 1, Len(s))
        BY <1>2, <1>3, <1>4 DEF IsPrefix
    <2> HIDE DEF s, t
    <2>2. SubSeq(s, 1, Len(s))[1] = s[1] /\ SubSeq(t, 1, Len(s))[1] = t[1]
        BY <2>1
    <2>3. t # <<>> /\ Head(t) = s[1]
        BY <2>1, <2>2
    <2> QED  BY <2>3 DEF s, t
<1>6. Reverse(q.scene)[1] \in Range(Reverse(q.scene))
    BY <1>3, <1>4 DEF Range
<1> QED  BY <1>1, <1>2, <1>4, <1>5, <1>6 DEF Seen

\* /mappings, /validate: the next parcel, or the end of the area.
LEMMA AreaNext ==
    ASSUME RTypeOK, query' = query, query.kind # "parcel_info", LookAt(at + 1), NEW q \in Requests,
           \A i \in 1 .. at : query.keys[i] \in Claims(q) =>
               \E a \in answer' : a.parcel = query.keys[i] /\ a.root = q.root
    PROVE  AreaUnderway(q)'
<1>1. /\ Len(query.keys) \in Nat /\ at \in 1 .. Len(query.keys)
      /\ DOMAIN query.keys = 1 .. Len(query.keys)
    BY QueryFacts DEF RTypeOK
<1>2. CASE at + 1 <= Len(query.keys)
    <2>1. stage' \in {"key", "metakey"} /\ at' = at + 1 /\ parcel' = query.keys[at + 1]
        BY <1>2 DEF LookAt
    <2> QED  BY <1>1, <2>1 DEF AreaUnderway
<1>3. CASE ~ (at + 1 <= Len(query.keys))
    <2>1. stage' = "done" /\ at = Len(query.keys)
        BY <1>1, <1>3 DEF LookAt
    <2>2. \A p \in Claims(q) \cap Range(query.keys) :
              \E a \in answer' : a.parcel = p /\ a.root = q.root
        BY <1>1, <2>1 DEF Range
    <2>3. AnsweredFor(q)'
        BY <2>2 DEF AnsweredFor
    <2> QED  BY <2>1, <2>3 DEF AreaUnderway
<1> QED  BY <1>2, <1>3

LEMMA AreaStep ==
    ASSUME RTypeOK, StageInv, Read, stage # "idle", ~ misread', query.kind # "parcel_info",
           NEW q \in Requests, Seen(q), AreaUnderway(q)
    PROVE  AreaUnderway(q)'
<1>1. /\ query' = query /\ at \in 1 .. Len(query.keys) /\ Len(query.keys) \in Nat
      /\ query.kind \in {"mappings", "validate"}
      /\ query.kind = "validate" => Len(query.keys) = 1
      /\ DOMAIN query.keys = 1 .. Len(query.keys)
    BY ReadKeeps, QueryFacts DEF RTypeOK
<1>2. stage \in {"key", "files", "metakey", "meta"}
    BY DEF Read, Ask, GetSceneParcels, ListError, GetSceneCid, GetRootCid, GetRootSceneParcels,
       SkipCid, PickPair, Respond, GetContentKey, GetParcelContent, GetContentError,
       GetMetadataKey, GetMetadataError, GetParcelMetadata, MetadataMissing, StageInv
<1>3. /\ parcel = query.keys[at]
      /\ \A i \in 1 .. at - 1 : query.keys[i] \in Claims(q) =>
            \E a \in answer : a.parcel = query.keys[i] /\ a.root = q.root
    BY <1>2 DEF AreaUnderway
<1>4. ASSUME LeaveOut, parcelRoot[parcel] = NoRoot PROVE AreaUnderway(q)'
    <2>1. parcel \notin Claims(q) /\ answer' = answer /\ LookAt(at + 1)
        BY <1>4 DEF Seen, LeaveOut, Proceed
    <2>2. \A i \in 1 .. at : query.keys[i] \in Claims(q) =>
              \E a \in answer' : a.parcel = query.keys[i] /\ a.root = q.root
        BY <1>1, <1>3, <2>1
    <2> QED  BY <1>1, <2>1, <2>2, AreaNext
<1>5. ASSUME root' = parcelRoot[parcel], stage' \in {"files", "meta"},
             UNCHANGED <<at, parcel, answer>>
      PROVE  AreaUnderway(q)'
    BY <1>1, <1>3, <1>5 DEF Seen, AreaUnderway
<1>6. CASE GetContentKey
    BY <1>4, <1>5, <1>6 DEF GetContentKey
<1>7. CASE GetMetadataKey
    BY <1>4, <1>5, <1>7 DEF GetMetadataKey
<1>8. CASE GetParcelContent
    BY <1>1, <1>3, <1>8 DEF GetParcelContent, AreaUnderway
<1>9. CASE GetMetadataError
    BY <1>1, <1>9 DEF GetMetadataError, AreaUnderway
<1>10. CASE GetParcelMetadata
    <2>1. /\ answer' = answer \cup {Entry(files, root)} /\ LookAt(at + 1)
          /\ parcel \in Claims(q) => root = q.root
        BY <1>1, <1>10 DEF GetParcelMetadata, Proceed, AreaUnderway
    <2>2. Entry(files, root).parcel = parcel /\ Entry(files, root).root = root
        BY DEF Entry
    <2>3. \A i \in 1 .. at : query.keys[i] \in Claims(q) =>
              \E a \in answer' : a.parcel = query.keys[i] /\ a.root = q.root
        BY <1>1, <1>3, <2>1, <2>2
    <2> QED  BY <1>1, <2>1, <2>3, AreaNext
<1>11. CASE MetadataMissing
    <2>1. parcel \notin Claims(q)
        BY <1>11 DEF MetadataMissing, AreaUnderway, Seen
    <2>2. CASE query.kind = "validate" /\ stage' = "done"
        <3>1. Range(query.keys) = {parcel}
            BY <1>1, <1>3, <2>2 DEF Range
        <3>2. AnsweredFor(q)'
            BY <1>1, <2>1, <2>2, <3>1 DEF AnsweredFor
        <3> QED  BY <2>2, <3>2 DEF AreaUnderway
    <2>3. CASE stage' = "panic"
        BY <2>3 DEF AreaUnderway
    <2> QED  BY <1>11, <2>2, <2>3 DEF MetadataMissing
<1>12. ~ GetContentError
    BY DEF GetContentError
<1> QED  BY <1>2, <1>6, <1>7, <1>8, <1>9, <1>10, <1>11, <1>12
         DEF Read, Ask, GetSceneParcels, ListError, GetSceneCid, GetRootCid,
             GetRootSceneParcels, SkipCid, PickPair, Respond

\* /parcel_info: the next CID, or the end of the CIDs.
LEMMA InfoNext ==
    ASSUME RTypeOK, query' = query, query.kind = "parcel_info", LookAt(at + 1),
           NEW q \in Requests, Wanted(q),
           \A f \in pairs' : f.root = q.root => GoodPair(f, q)',
           \A i \in 1 .. at : query.keys[i] \in {q.root, SceneCid(q)} =>
               \E f \in pairs' : f.root = q.root
    PROVE  InfoUnderway(q)'
<1>1. /\ Len(query.keys) \in Nat /\ at \in 1 .. Len(query.keys)
      /\ DOMAIN query.keys = 1 .. Len(query.keys)
      /\ \A i \in 1 .. Len(query.keys) : query.keys[i] \in Roots \cup Cids
    BY QueryFacts DEF RTypeOK
<1>2. SceneCid(q)' = SceneCid(q)
    BY DEF SceneCid, SceneEntry
<1>3. CASE at + 1 <= Len(query.keys)
    <2>1. stage' = "look" /\ at' = at + 1
        BY <1>3 DEF LookAt
    <2> QED  BY <1>1, <1>2, <2>1 DEF InfoUnderway
<1>4. CASE ~ (at + 1 <= Len(query.keys))
    <2>1. stage' = "pick" /\ at = Len(query.keys)
        BY <1>1, <1>4 DEF LookAt
    <2>2. PICK i \in 1 .. Len(query.keys) : query.keys[i] \in Claims(q) \cup {q.root, SceneCid(q)}
        BY <1>1 DEF Wanted, Range
    <2>3. query.keys[i] \notin Claims(q)
        BY <1>1, RequestFacts, KeysAssumption
    <2>4. \E f \in pairs' : f.root = q.root
        BY <2>1, <2>2, <2>3
    <2> QED  BY <2>1, <2>4 DEF InfoUnderway
<1> QED  BY <1>3, <1>4

\* The first loop: from the CIDs to the pairs.
LEMMA LookStep ==
    ASSUME TypeOK, RTypeOK, StageInv, Read, ~ misread', query.kind = "parcel_info",
           stage \in {"look", "scene", "tie", "relist"},
           NEW u \in Uploads, NEW q \in Requests, q = req[u], Seen(q), Wanted(q), InfoUnderway(q),
           stage = "relist" => \E w \in Uploads : req[w].root = root /\ SceneCid(req[w]) = Key
    PROVE  InfoUnderway(q)'
<1>1. /\ query' = query /\ req' = req /\ at \in 1 .. Len(query.keys) /\ Len(query.keys) \in Nat
      /\ Key \in Roots \cup Cids
      /\ at' = at => Key' = Key
      /\ SceneCid(q)' = SceneCid(q)
      /\ Key = query.keys[at]
    BY ReadKeeps, QueryFacts DEF RTypeOK, Key, SceneCid, SceneEntry, vars, work
<1>2. /\ \A f \in pairs : f.root = q.root => GoodPair(f, q)
      /\ \A i \in 1 .. at - 1 : query.keys[i] \in {q.root, SceneCid(q)} =>
            \E f \in pairs : f.root = q.root
    BY DEF InfoUnderway
<1>3. SceneCid(q) \notin Roots /\ (SceneCid(q) = Key => Key \in Cids)
    BY <1>1, SceneCidType, KeysAssumption, NoneAssumption
<1>4. \A f : GoodPair(f, q)' <=> GoodPair(f, q)
    BY <1>1 DEF GoodPair, SameScene, SceneCid, SceneEntry
<1>5. CASE GetSceneParcels
    <2>1. UNCHANGED <<at, pairs>> /\ Key' = Key /\ (stage' = "tie" \/ stage' = "scene")
        BY <1>1, <1>5 DEF GetSceneParcels
    <2>2. stage' = "scene" /\ Key = q.root => parcel' \in Claims(q)
        BY <1>5 DEF GetSceneParcels, ListOf, Seen
    <2>3. stage' = "tie" => Key # q.root
        BY <1>5 DEF GetSceneParcels, ListOf, Seen
    <2> QED  BY <1>1, <1>2, <1>4, <2>1, <2>2, <2>3 DEF InfoUnderway
<1>6. CASE GetSceneCid
    <2> DEFINE new == [root |-> Key, parcel |-> parcel,
                       scene |-> IF sceneOf[Key] = NoCid THEN EmptyCid ELSE sceneOf[Key]]
    <2>1. /\ pairs' = {f \in pairs : f.root # Key} \cup {new}
          /\ LookAt(at + 1) /\ Key \in Roots /\ stage = "scene"
        BY <1>6 DEF GetSceneCid, FoundPair, StageInv
    <2>2. Key = q.root => GoodPair(new, q)
        BY <2>1 DEF InfoUnderway, Seen, GoodPair
    <2>3. new.root = Key
        OBVIOUS
    <2> HIDE DEF new
    <2>4. \A f \in pairs' : f.root = q.root => GoodPair(f, q)'
        BY <1>2, <1>4, <2>1, <2>2, <2>3
    <2>5. \A i \in 1 .. at : query.keys[i] \in {q.root, SceneCid(q)} =>
              \E f \in pairs' : f.root = q.root
        <3> SUFFICES ASSUME NEW i \in 1 .. at, query.keys[i] \in {q.root, SceneCid(q)}
                     PROVE  \E f \in pairs' : f.root = q.root
            OBVIOUS
        <3>1. CASE Key = q.root
            BY <2>1, <2>3, <3>1
        <3>2. CASE Key # q.root
            <4>1. i \in 1 .. at - 1
                BY <1>1, <1>3, <2>1, <3>2
            <4>2. PICK f \in pairs : f.root = q.root
                BY <1>2, <4>1
            <4> QED  BY <2>1, <3>2, <4>2
        <3> QED  BY <3>1, <3>2
    <2> QED  BY <1>1, <2>1, <2>4, <2>5, InfoNext
<1>7. CASE GetRootCid
    <2>1. CASE root' = rootOf[Key] /\ stage' = "relist" /\ UNCHANGED <<at, pairs>>
        BY <1>1, <1>2, <1>4, <2>1 DEF InfoUnderway, Seen
    <2>2. CASE (Key \in Cids => rootOf[Key] = NoRoot) /\ LookAt(at + 1) /\ pairs' = pairs
        <3>1. Key # q.root /\ Key # SceneCid(q)
            BY <1>3, <1>7, <2>2 DEF GetRootCid, InfoUnderway, Seen
        <3>2. \A i \in 1 .. at : query.keys[i] \in {q.root, SceneCid(q)} => i \in 1 .. at - 1
            BY <1>1, <3>1
        <3> QED  BY <1>1, <1>2, <1>4, <2>2, <3>2, InfoNext
    <2> QED  BY <1>7, <2>1, <2>2 DEF GetRootCid
<1>8. CASE GetRootSceneParcels
    <2>1. LookAt(at + 1) /\ Key \in Cids /\ stage = "relist" /\ root \in Roots
        BY <1>8 DEF GetRootSceneParcels, StageInv
    <2>2. Key # q.root /\ (Key = SceneCid(q) => root = q.root)
        BY <2>1, KeysAssumption DEF InfoUnderway, Seen
    <2>3. CASE sceneParcels[root] # <<>> /\ FoundPair(root, Head(sceneParcels[root]), Key)
        <3> DEFINE new == [root |-> root, parcel |-> Head(sceneParcels[root]), scene |-> Key]
        <3>1. pairs' = {f \in pairs : f.root # root} \cup {new} /\ new.root = root
            BY <2>3 DEF FoundPair
        <3>2. root = q.root => GoodPair(new, q)
            BY <2>1 DEF Seen, GoodPair, SameScene
        <3> HIDE DEF new
        <3>3. \A f \in pairs' : f.root = q.root => GoodPair(f, q)'
            BY <1>2, <1>4, <3>1, <3>2
        <3>4. \A i \in 1 .. at : query.keys[i] \in {q.root, SceneCid(q)} =>
                  \E f \in pairs' : f.root = q.root
            <4> SUFFICES ASSUME NEW i \in 1 .. at, query.keys[i] \in {q.root, SceneCid(q)}
                         PROVE  \E f \in pairs' : f.root = q.root
                OBVIOUS
            <4>1. CASE root = q.root
                BY <3>1, <4>1
            <4>2. CASE root # q.root
                <5>1. i \in 1 .. at - 1
                    BY <1>1, <2>2, <4>2
                <5>2. PICK f \in pairs : f.root = q.root
                    BY <1>2, <5>1
                <5> QED  BY <3>1, <4>2, <5>2
            <4> QED  BY <4>1, <4>2
        <3> QED  BY <1>1, <2>1, <3>3, <3>4, InfoNext
    <2>4. CASE sceneParcels[root] = <<>> /\ pairs' = pairs
        <3>1. Key # q.root /\ Key # SceneCid(q)
            BY <2>2, <2>4 DEF Seen
        <3>2. \A i \in 1 .. at : query.keys[i] \in {q.root, SceneCid(q)} => i \in 1 .. at - 1
            BY <1>1, <3>1
        <3> QED  BY <1>1, <1>2, <1>4, <2>1, <2>4, <3>2, InfoNext
    <2> QED  BY <1>8, <2>3, <2>4 DEF GetRootSceneParcels
<1>9. CASE ListError
    BY <1>2, <1>4, <1>9 DEF ListError, InfoUnderway
<1>10. ~ SkipCid
    BY DEF SkipCid
<1> QED  BY <1>5, <1>6, <1>7, <1>8, <1>9, <1>10
         DEF Read, Ask, PickPair, Respond, GetContentKey, GetParcelContent, GetContentError,
             GetMetadataKey, GetMetadataError, GetParcelMetadata, MetadataMissing

\* The second loop: from the pairs to the answer.
LEMMA PickStep ==
    ASSUME TypeOK, RTypeOK, StageInv, Read, ~ misread', query.kind = "parcel_info",
           stage \in {"pick", "key", "files", "metakey", "meta"},
           NEW u \in Uploads, NEW q \in Requests, q = req[u], Seen(q), InfoUnderway(q)
    PROVE  InfoUnderway(q)'
<1>1. query' = query /\ req' = req /\ SceneCid(q)' = SceneCid(q)
      /\ (SameScene(q.root)' <=> SameScene(q.root))
    BY ReadKeeps DEF vars, work, SceneCid, SceneEntry, SameScene
<1>2. \A f : GoodPair(f, q)' <=> GoodPair(f, q)
    BY <1>1 DEF GoodPair
<1>3. \A f \in pairs : f.root = q.root => GoodPair(f, q)
    BY DEF InfoUnderway
<1>4. answer \subseteq answer' /\ AnsweredFor(q) => AnsweredFor(q)'
    BY <1>1 DEF AnsweredFor, Reported
<1>5. \/ AnsweredFor(q)
      \/ \E f \in pairs : f.root = q.root
      \/ stage # "pick" /\ GoodPair(asked, q) /\ parcel = asked.parcel
    BY DEF InfoUnderway
<1>6. ASSUME NEW f \in pairs, PickPair(f) PROVE InfoUnderway(q)'
    <2>1. /\ stage' = "key" /\ asked' = f /\ parcel' = f.parcel /\ pairs' = pairs \ {f}
          /\ answer' = answer /\ stage = "pick"
        BY <1>6 DEF PickPair
    <2>2. \/ AnsweredFor(q)'
          \/ \E g \in pairs' : g.root = q.root
          \/ GoodPair(f, q)'
        BY <1>2, <1>3, <1>4, <1>5, <2>1
    <2>3. GoodPair(f, q)' => GoodPair(asked, q)'
        BY <2>1 DEF GoodPair
    <2>4. \A g \in pairs' : g.root = q.root => GoodPair(g, q)'
        BY <1>2, <1>3, <2>1
    <2> QED  BY <2>1, <2>2, <2>3, <2>4 DEF InfoUnderway
<1>7. CASE Respond
    <2>1. stage' = "done" /\ answer' = answer /\ pairs' = pairs /\ pairs = {} /\ stage = "pick"
        BY <1>7 DEF Respond
    <2> QED  BY <1>4, <1>5, <2>1 DEF InfoUnderway
<1>8. ASSUME LeaveOut, parcelRoot[parcel] = NoRoot, pairs' = pairs PROVE InfoUnderway(q)'
    <2>1. /\ stage' = "pick" /\ answer \subseteq answer' /\ parcel \notin Claims(q)
        BY <1>8 DEF LeaveOut, Proceed, Seen
    <2>2. AnsweredFor(q) \/ \E f \in pairs : f.root = q.root
        BY <1>5, <2>1 DEF GoodPair
    <2> QED  BY <1>2, <1>3, <1>4, <1>8, <2>1, <2>2 DEF InfoUnderway
<1>9. ASSUME stage \in {"key", "files", "metakey"}, stage' \in {"files", "metakey", "meta"},
             UNCHANGED <<parcel, asked, pairs, answer>>,
             stage' \in {"files", "meta"} => root' = parcelRoot[parcel]
      PROVE  InfoUnderway(q)'
    <2>1. GoodPair(asked, q)' <=> GoodPair(asked, q)
        BY <1>1, <1>9 DEF GoodPair
    <2>2. stage' \in {"files", "meta"} /\ parcel' \in Claims(q) => root' = q.root
        BY <1>9 DEF Seen
    <2> QED  BY <1>2, <1>3, <1>4, <1>5, <1>9, <2>1, <2>2 DEF InfoUnderway
<1>10. CASE GetContentKey
    BY <1>8, <1>9, <1>10 DEF GetContentKey
<1>11. CASE GetMetadataKey
    BY <1>8, <1>9, <1>11 DEF GetMetadataKey
<1>12. CASE GetParcelContent
    BY <1>9, <1>12 DEF GetParcelContent
<1>13. CASE GetParcelMetadata
    <2>1. /\ stage' = "pick" /\ pairs' = pairs /\ answer' = answer \cup {Entry(files, root)}
          /\ stage = "meta"
        BY <1>13 DEF GetParcelMetadata, Proceed
    <2>2. ASSUME GoodPair(asked, q), parcel = asked.parcel PROVE AnsweredFor(q)'
        <3>1. parcel \in Claims(q) /\ root = q.root /\ q.root # NoRoot
            BY <2>1, <2>2 DEF GoodPair, InfoUnderway, Seen
        <3> DEFINE a == Entry(files, root)
        <3>2. /\ a.asked = q.root /\ a.root = q.root /\ a.parcel \in Claims(q)
              /\ SameScene(q.root) => a.scene = SceneCid(q)
            BY <2>2, <3>1 DEF Entry, GoodPair
        <3> HIDE DEF a
        <3>3. a \in Reported'
            BY <1>1, <2>1, <3>1, <3>2 DEF Reported, a
        <3> QED  BY <1>1, <3>2, <3>3 DEF AnsweredFor
    <2> QED  BY <1>2, <1>3, <1>4, <1>5, <2>1, <2>2 DEF InfoUnderway
<1>14. CASE MetadataMissing
    BY <1>2, <1>3, <1>14 DEF MetadataMissing, InfoUnderway
<1>15. ~ GetContentError /\ ~ GetMetadataError
    BY DEF GetContentError, GetMetadataError
<1> QED  BY <1>6, <1>7, <1>10, <1>11, <1>12, <1>13, <1>14, <1>15
         DEF Read, Ask, GetSceneParcels, ListError, GetSceneCid, GetRootCid,
             GetRootSceneParcels, SkipCid

\* What the request is told of the source of a root it follows from a CID.
LEMMA RelistFrom ==
    ASSUME TypeOK, SourceInv, [RNext]_rvars, stage' = "relist",
           stage = "relist" => \E w \in Uploads : req[w].root = root /\ SceneCid(req[w]) = Key
    PROVE  \E w \in Uploads : req'[w].root = root' /\ SceneCid(req[w])' = Key'
<1>1. req' = req /\ (at' = at => Key' = Key)
    BY StepOfUploads, StepCases, NothingTakenBack DEF Key
<1>2. \A w \in Uploads : SceneCid(req[w])' = SceneCid(req[w])
    BY <1>1 DEF SceneCid, SceneEntry
<1>3. CASE UNCHANGED request
    <2>1. UNCHANGED <<stage, root, at>>
        BY <1>3 DEF request
    <2> QED  BY <1>1, <1>2, <2>1
<1>4. CASE GetRootCid
    <2>1. Key \in Cids /\ rootOf[Key] # NoRoot /\ root' = rootOf[Key] /\ at' = at
        BY <1>4, Onward DEF GetRootCid
    <2>2. PICK w \in Uploads : req[w].root = rootOf[Key] /\ SceneCid(req[w]) = Key
        BY <2>1 DEF SourceInv
    <2> QED  BY <1>1, <1>2, <2>1, <2>2
<1> QED  BY <1>3, <1>4, Onward, StepCases
         DEF Read, Ask, GetSceneParcels, ListError, GetSceneCid, GetRootSceneParcels, SkipCid,
             PickPair, Respond, GetContentKey, GetParcelContent, GetContentError,
             GetMetadataKey, GetMetadataError, GetParcelMetadata, MetadataMissing

\* The first step of a request.
LEMMA UnderwayStart ==
    ASSUME RTypeOK, Ask, pairs = {}, NEW q \in Requests
    PROVE  IF query.kind = "parcel_info" THEN InfoUnderway(q)' ELSE AreaUnderway(q)'
<1>1. Len(query.keys) \in Nat /\ Len(query.keys) >= 1
    BY QueryFacts DEF RTypeOK
<1>2. LookAt(1) /\ query' = query /\ pairs' = {}
    BY DEF Ask
<1>3. CASE query.kind = "parcel_info"
    <2>1. stage' = "look" /\ at' = 1
        BY <1>1, <1>2, <1>3 DEF LookAt
    <2> QED  BY <1>2, <1>3, <2>1 DEF InfoUnderway
<1>4. CASE query.kind # "parcel_info"
    <2>1. stage' \in {"key", "metakey"} /\ at' = 1 /\ parcel' = query.keys[1]
        BY <1>1, <1>2, <1>4 DEF LookAt
    <2> QED  BY <1>2, <1>4, <2>1 DEF AreaUnderway
<1> QED  BY <1>3, <1>4

\* A request that is over, or that does nothing.
LEMMA UnderwayStays ==
    ASSUME UNCHANGED request, req' = req, NEW q \in Requests
    PROVE  /\ InfoUnderway(q) => InfoUnderway(q)'
           /\ AreaUnderway(q) => AreaUnderway(q)'
<1>1. /\ UNCHANGED <<stage, query, at, root, parcel, asked, pairs, answer>>
      /\ Key' = Key /\ Reported' = Reported
      /\ SceneCid(q)' = SceneCid(q) /\ (SameScene(q.root)' <=> SameScene(q.root))
    BY DEF request, Key, Reported, SceneCid, SceneEntry, SameScene
<1>2. \A f : GoodPair(f, q)' <=> GoodPair(f, q)
    BY <1>1 DEF GoodPair
<1>3. GoodPair(asked, q)' <=> GoodPair(asked, q)
    BY <1>1 DEF GoodPair
<1>4. AnsweredFor(q)' <=> AnsweredFor(q)
    BY <1>1 DEF AnsweredFor
<1>5. InfoUnderway(q) => InfoUnderway(q)'
    BY <1>1, <1>2, <1>3, <1>4 DEF InfoUnderway
<1>6. AreaUnderway(q) => AreaUnderway(q)'
    BY <1>1, <1>4 DEF AreaUnderway
<1> QED  BY <1>5, <1>6

LEMMA FoundStep ==
    /\ TypeOK /\ AckVisible /\ SourceInv /\ RTypeOK /\ StageInv /\ FoundInv /\ [RNext]_rvars
    => FoundInv'
<1> SUFFICES ASSUME TypeOK, AckVisible, SourceInv, RTypeOK, StageInv, FoundInv, [RNext]_rvars
             PROVE  FoundInv'
    OBVIOUS
<1>1. [Next]_vars /\ query' = query /\ req' = req
    BY StepOfUploads, StepCases, NothingTakenBack
<1>2. Ask \/ (before' = before /\ (~ misread' => ~ misread))
    BY StepCases DEF Read, GetSceneParcels, ListError, GetSceneCid, GetRootCid,
       GetRootSceneParcels, SkipCid, PickPair, Respond, GetContentKey, GetParcelContent,
       GetContentError, GetMetadataKey, GetMetadataError, GetParcelMetadata, MetadataMissing,
       request, RTypeOK
<1>3. stage' = "idle" => before' = {} /\ pairs' = {} /\ answer' = {}
    <2>1. Ask => stage' # "idle"
        BY Onward DEF Ask
    <2> QED  BY <2>1, CalmFrom DEF FoundInv, request
<1>4. stage' = "done" /\ query.kind = "parcel_info" => pairs' = {}
    <2>1. ASSUME query.kind = "parcel_info", LookAt(1) \/ LookAt(at + 1) \/ Proceed \/ LeaveOut
          PROVE  stage' # "done"
        BY <2>1 DEF LookAt, Proceed, LeaveOut
    <2>2. CASE UNCHANGED request
        BY <2>2 DEF request, FoundInv
    <2>3. CASE Respond
        BY <2>3 DEF Respond
    <2> QED  BY <2>1, <2>2, <2>3, StepCases
             DEF Read, Ask, GetSceneParcels, ListError, GetSceneCid, GetRootCid,
                 GetRootSceneParcels, SkipCid, PickPair, GetContentKey, GetParcelContent,
                 GetContentError, GetMetadataKey, GetMetadataError, GetParcelMetadata,
                 MetadataMissing
<1>5. stage' = "relist" =>
          \E u \in Uploads : req'[u].root = root' /\ SceneCid(req[u])' = Key'
    BY RelistFrom DEF FoundInv
<1>6. ASSUME NEW u \in before'
      PROVE  /\ pc'[u] = "ok"
             /\ ~ misread' /\ Undisturbed(u)' /\ Wanted(req[u])' =>
                   IF query.kind = "parcel_info" THEN InfoUnderway(req[u])'
                                                 ELSE AreaUnderway(req[u])'
    <2>1. u \in Uploads /\ pc[u] = "ok"
        BY <1>2, <1>6 DEF Ask, FoundInv, RTypeOK
    <2>2. pc'[u] = "ok" /\ (Undisturbed(u)' => Undisturbed(u))
        BY <1>1, <2>1, AcknowledgedStays
    <2>3. PICK q \in Requests : q = req[u]
        BY <2>1 DEF TypeOK
    <2> SUFFICES ASSUME ~ misread', Undisturbed(u), Wanted(q)'
                 PROVE  IF query.kind = "parcel_info" THEN InfoUnderway(q)'
                                                      ELSE AreaUnderway(q)'
        BY <1>1, <2>2, <2>3
    <2>4. Seen(q) /\ Wanted(q)
        BY <1>1, <2>1, <2>3, SeenScene DEF Wanted, SceneCid, SceneEntry
    <2>5. CASE Ask
        BY <2>5, UnderwayStart DEF Ask, FoundInv
    <2>6. CASE ~ Ask
        <3>1. IF query.kind = "parcel_info" THEN InfoUnderway(q) ELSE AreaUnderway(q)
            BY <1>2, <1>6, <2>3, <2>4, <2>6 DEF FoundInv
        <3>2. CASE UNCHANGED request
            BY <1>1, <3>1, <3>2, UnderwayStays
        <3>3. CASE Read
            <4>1. stage # "idle" /\ stage \notin Over
                BY <2>6, <3>3 DEF Read, GetSceneParcels, ListError, GetSceneCid, GetRootCid,
                   GetRootSceneParcels, SkipCid, PickPair, Respond, GetContentKey,
                   GetParcelContent, GetContentError, GetMetadataKey, GetMetadataError,
                   GetParcelMetadata, MetadataMissing, Over
            <4>2. \/ stage \in {"look", "scene", "tie", "relist"}
                  \/ stage \in {"pick", "key", "files", "metakey", "meta"}
                BY <4>1 DEF RTypeOK
            <4>3. stage = "relist" =>
                      \E w \in Uploads : req[w].root = root /\ SceneCid(req[w]) = Key
                BY DEF FoundInv
            <4> QED  BY <2>1, <2>3, <2>4, <3>1, <3>3, <4>1, <4>2, <4>3, AreaStep, LookStep, PickStep
        <3> QED  BY <3>2, <3>3, StepCases
    <2> QED  BY <2>5, <2>6
<1> QED  BY <1>1, <1>3, <1>4, <1>5, <1>6 DEF FoundInv

(***************************************************************************)
(* A scene that was acknowledged before the request, and that no related   *)
(* upload has run into since, is in the answer - by its parcels, its root  *)
(* or its scene CID - unless a read failed.                                *)
(***************************************************************************)
THEOREM AcknowledgedAnsweredHolds == RSpec => []AcknowledgedAnswered
<1>1. RSpec => [](TypeOK /\ AckVisible)
    BY UploadsFollowSpec, TypeCorrect, AckVisibleHolds, PTL
<1>2. RSpec => []FoundInv
    <2>1. RInit => FoundInv
        BY DEF RInit, FoundInv
    <2> QED  BY <1>1, <2>1, SourceInvariant, ReaderTypes, FoundStep, PTL DEF RSpec
<1>3. FoundInv => AcknowledgedAnswered
    <2> SUFFICES ASSUME FoundInv, stage = "done", ~ misread, NEW u \in before,
                        Undisturbed(u), Wanted(req[u])
                 PROVE  AnsweredFor(req[u])
        BY DEF AcknowledgedAnswered
    <2>1. CASE query.kind = "parcel_info"
        <3>1. InfoUnderway(req[u]) /\ pairs = {}
            BY <2>1 DEF FoundInv
        <3> QED  BY <3>1 DEF InfoUnderway
    <2>2. CASE query.kind # "parcel_info"
        <3>1. AreaUnderway(req[u])
            BY <2>2 DEF FoundInv
        <3> QED  BY <3>1 DEF AreaUnderway
    <2> QED  BY <2>1, <2>2
<1> QED  BY <1>2, <1>3, PTL
===============================================================================
