--------------------------- MODULE SceneIndexProofs ---------------------------
(***************************************************************************)
(* Theorems about SceneIndex for every set of uploads, requests, roots,    *)
(* parcels and CIDs.                                                       *)
(***************************************************************************)
EXTENDS SceneIndex, SequenceTheorems, FiniteSetTheorems, WellFoundedInduction,
        TLAPS

(***************************************************************************)
(* Facts about the operators.                                              *)
(***************************************************************************)

\* What LPUSH puts in front of a list is a list of the same parcels.
LEMMA ReverseFacts ==
    ASSUME NEW S, NEW s \in Seq(S)
    PROVE  /\ Reverse(s) \in Seq(S)
           /\ Len(Reverse(s)) = Len(s)
           /\ Range(Reverse(s)) = Range(s)
<1>1. Reverse(s) \in Seq(S) /\ Len(Reverse(s)) = Len(s)
    BY DEF Reverse
<1>2. \A i \in 1 .. Len(s) : Reverse(s)[i] = s[(Len(s) - i) + 1]
    BY DEF Reverse
<1>3. \A i \in DOMAIN s : s[i] = Reverse(s)[(Len(s) - i) + 1]
                          /\ (Len(s) - i) + 1 \in DOMAIN Reverse(s)
    BY <1>1, <1>2
<1>4. \A i \in DOMAIN Reverse(s) : Reverse(s)[i] = s[(Len(s) - i) + 1]
                                   /\ (Len(s) - i) + 1 \in DOMAIN s
    BY <1>1, <1>2
<1> QED  BY <1>1, <1>3, <1>4 DEF Range

\* Appending lists appends the parcels they hold.
LEMMA ConcatFacts ==
    ASSUME NEW S, NEW s \in Seq(S), NEW t \in Seq(S)
    PROVE  /\ s \o t \in Seq(S)
           /\ Range(s \o t) = Range(s) \cup Range(t)
<1>1. /\ s \o t \in Seq(S)
      /\ DOMAIN (s \o t) = 1 .. Len(s) + Len(t)
      /\ DOMAIN s = 1 .. Len(s) /\ DOMAIN t = 1 .. Len(t)
      /\ \A i \in 1 .. Len(s) + Len(t) :
            (s \o t)[i] = IF i <= Len(s) THEN s[i] ELSE t[i - Len(s)]
    BY ConcatProperties, LenProperties
<1>2. Len(s) \in Nat /\ Len(t) \in Nat
    OBVIOUS
<1>3. \A i \in 1 .. Len(s) : s[i] \in Range(s \o t)
    BY <1>1, <1>2 DEF Range
<1>4. \A i \in 1 .. Len(t) : t[i] \in Range(s \o t)
    <2> TAKE i \in 1 .. Len(t)
    <2>1. Len(s) + i \in 1 .. Len(s) + Len(t) /\ ~ (Len(s) + i <= Len(s))
          /\ (Len(s) + i) - Len(s) = i
        BY <1>2
    <2>2. (s \o t)[Len(s) + i] = t[i]
        BY <1>1, <2>1
    <2> QED  BY <1>1, <2>1, <2>2 DEF Range
<1>5. \A i \in 1 .. Len(s) + Len(t) : (s \o t)[i] \in Range(s) \cup Range(t)
    <2> TAKE i \in 1 .. Len(s) + Len(t)
    <2>1. CASE i <= Len(s)
        BY <1>1, <1>2, <2>1 DEF Range
    <2>2. CASE ~ (i <= Len(s))
        <3>1. i - Len(s) \in 1 .. Len(t)
            BY <1>2, <2>2
        <3> QED  BY <1>1, <2>2, <3>1 DEF Range
    <2> QED  BY <2>1, <2>2
<1> QED  BY <1>1, <1>3, <1>4, <1>5 DEF Range

\* The pieces of a request.
LEMMA RequestFacts ==
    ASSUME NEW q \in Requests
    PROVE  /\ q.root \in Roots
           /\ q.scene \in Seq(Parcels) /\ q.scene # <<>>
           /\ Len(q.scene) \in Nat /\ Len(q.scene) >= 1
           /\ q.manifest \in Seq(FileMetadata)
           /\ q.parts \subseteq Cids
           /\ Entries(q) \subseteq FileMetadata
           /\ Claims(q) \subseteq Parcels
           /\ \A i \in 1 .. Len(q.scene) : q.scene[i] \in Claims(q)
<1>1. q \in UploadRequest /\ q.scene # <<>>
    BY RequestsAssumption
<1>2. /\ q.root \in Roots
      /\ q.scene \in Seq(Parcels)
      /\ q.manifest \in Seq(FileMetadata)
      /\ q.parts \subseteq Cids
    BY <1>1 DEF UploadRequest
<1>3. Len(q.scene) \in Nat /\ Len(q.scene) >= 1
    BY <1>1, <1>2
<1> QED  BY <1>1, <1>2, <1>3 DEF Entries, Claims, Range

\* A nonempty set of naturals has a least element.
LEMMA LeastExists ==
    ASSUME NEW T \in SUBSET Nat, T # {}
    PROVE  \E i \in T : \A j \in T : i <= j
<1> DEFINE Below == {0 .. i : i \in T}
<1>0. ASSUME NEW i \in Nat PROVE IsFiniteSet(0 .. i) /\ 0 .. i \in SUBSET Nat
    <2>1. 0 \in Int /\ i \in Int
        OBVIOUS
    <2> QED  BY <2>1, FS_Interval
<1>1. Below \subseteq FiniteSubsetsOf(Nat)
    BY <1>0 DEF FiniteSubsetsOf
<1>2. PICK X \in Below : \A Y \in Below : <<Y, X>> \notin StrictSubsetOrdering(Nat)
    <2>1. Below # {}
        OBVIOUS
    <2> HIDE DEF Below
    <2> QED  BY <1>1, <2>1, WFMin, FS_StrictSubsetOrderingWellFounded
<1>3. PICK i \in T : X = 0 .. i
    BY <1>2
<1>4. ASSUME NEW j \in T, j < i
      PROVE  <<0 .. j, 0 .. i>> \in StrictSubsetOrdering(Nat)
    <2>1. 0 .. j \in SUBSET Nat /\ 0 .. i \in SUBSET Nat
        BY <1>0
    <2>2. 0 .. j \subseteq 0 .. i
        BY <1>4
    <2>3. i \in 0 .. i /\ i \notin 0 .. j
        BY <1>4
    <2> QED  BY <2>1, <2>2, <2>3 DEF StrictSubsetOrdering
<1>5. ASSUME NEW j \in T  PROVE i <= j
    <2>1. 0 .. j \in Below
        OBVIOUS
    <2>2. ~ (j < i)
        BY <1>2, <1>3, <1>4, <2>1
    <2> QED  BY <2>2
<1> QED  BY <1>5

\* The scene CID is the CID of a manifest entry or the empty string.
LEMMA SceneCidType ==
    ASSUME NEW q \in Requests
    PROVE  SceneCid(q) \in Cids \cup {EmptyCid}
<1> DEFINE hits == {i \in DOMAIN q.manifest : q.manifest[i].name \in SceneNames}
<1>1. q.manifest \in Seq(FileMetadata)
    BY RequestFacts
<1>2. hits \in SUBSET Nat
    BY <1>1
<1>3. CASE hits = {}
    <2>1. SceneEntry(q) = 0
        BY <1>3 DEF SceneEntry
    <2> QED  BY <2>1 DEF SceneCid
<1>4. CASE hits # {}
    <2>1. \E i \in hits : \A j \in hits : i <= j
        <3> HIDE DEF hits
        <3> QED BY <1>2, <1>4, LeastExists
    <2>2. SceneEntry(q) = CHOOSE i \in hits : \A j \in hits : i <= j
        BY <1>4 DEF SceneEntry
    <2>3. SceneEntry(q) \in hits
        <3> HIDE DEF hits
        <3> QED BY <2>1, <2>2
    <2>4. q.manifest[SceneEntry(q)] \in FileMetadata
        BY <1>1, <2>3
    <2> QED  BY <1>1, <2>3, <2>4 DEF SceneCid, FileMetadata
<1> QED  BY <1>3, <1>4

(***************************************************************************)
(* Type correctness.                                                       *)
(***************************************************************************)

LEMMA InitType == Init => TypeOK
<1> SUFFICES ASSUME Init PROVE TypeOK
    OBVIOUS
<1>1. \A u \in Uploads : 1 \in 1 .. Len(req[u].scene)
    BY RequestFacts DEF Init
<1>2. sceneParcels \in [Roots -> Seq(Parcels)]
    BY EmptySeq DEF Init
<1> QED  BY <1>1, <1>2 DEF Init, TypeOK, Stages

\* The parcel loops stay inside the list of parcels.
LEMMA LoopType ==
    ASSUME TypeOK, NEW u \in Uploads, NextParcel(u), req' = req
    PROVE  /\ Here(u) \in Parcels /\ Here(u) \in Claims(req[u])
           /\ idx' \in [Uploads -> Nat]
           /\ \A w \in Uploads : idx'[w] \in 1 .. Len(req'[w].scene)
<1>1. /\ req[u] \in Requests
      /\ idx[u] \in Nat /\ idx[u] \in 1 .. Len(req[u].scene)
      /\ idx \in [Uploads -> Nat]
      /\ \A w \in Uploads : idx[w] \in 1 .. Len(req[w].scene)
    BY DEF TypeOK
<1>2. /\ Len(req[u].scene) \in Nat /\ Len(req[u].scene) >= 1
      /\ Claims(req[u]) \subseteq Parcels
      /\ \A i \in 1 .. Len(req[u].scene) : req[u].scene[i] \in Claims(req[u])
    BY <1>1, RequestFacts
<1>3. idx'[u] \in 1 .. Len(req[u].scene) /\ idx'[u] \in Nat
    BY <1>1, <1>2 DEF NextParcel, AtLast
<1>4. \A w \in Uploads \ {u} : idx'[w] = idx[w]
    BY <1>1 DEF NextParcel
<1>5. idx' = [idx EXCEPT ![u] = idx'[u]]
    BY <1>1 DEF NextParcel
<1> QED  BY <1>1, <1>2, <1>3, <1>4, <1>5 DEF Here

\* The list LPUSH leaves.
LEMMA PushedType ==
    ASSUME TypeOK, NEW u \in Uploads
    PROVE  Pushed(u) \in [Roots -> Seq(Parcels)]
<1>1. req[u].root \in Roots /\ req[u].scene \in Seq(Parcels)
    BY RequestFacts DEF TypeOK
<1>2. Reverse(req[u].scene) \o sceneParcels[req[u].root] \in Seq(Parcels)
    BY <1>1, ReverseFacts, ConcatFacts DEF TypeOK
<1> QED  BY <1>1, <1>2 DEF Pushed, TypeOK

LEMMA StepType == TypeOK /\ [Next]_vars => TypeOK'
<1> SUFFICES ASSUME TypeOK, [Next]_vars PROVE TypeOK'
    OBVIOUS
<1> USE DEF store, index, publish, work, history, Goto, Stages, InFlight,
            Indexing, Settling, Finished
<1>1. ASSUME NEW u \in Uploads, AcceptUpload(u) PROVE TypeOK'
    <2>1. req[u].parts \subseteq Cids /\ Entries(req[u]) \subseteq FileMetadata
        BY RequestFacts DEF TypeOK
    <2> QED  BY <1>1, <2>1 DEF AcceptUpload, TypeOK
<1>2. ASSUME NEW u \in Uploads, RejectUpload(u) PROVE TypeOK'
    BY <1>2 DEF RejectUpload, TypeOK
<1>3. ASSUME NEW u \in Uploads, NEW c \in Cids, SaveFile(u, c) PROVE TypeOK'
    BY <1>3 DEF SaveFile, TypeOK
<1>4. ASSUME NEW u \in Uploads, NEW e \in FileMetadata, StoreContent(u, e)
      PROVE  TypeOK'
    <2>1. e.name \in Names /\ e.cid \in Cids
        BY DEF FileMetadata
    <2> QED  BY <1>4, <2>1 DEF StoreContent, TypeOK
<1>5. ASSUME NEW u \in Uploads, AddCID(u) PROVE TypeOK'
    <2>1. overlap' \subseteq Parcels /\ alone' \in [Uploads -> BOOLEAN]
        <3>1. Claims(req[u]) \subseteq Parcels
            BY RequestFacts DEF TypeOK
        <3> QED  BY <1>5, <3>1 DEF AddCID, EnterIndex, TypeOK
    <2>2. group[u] \in Cids
        BY <1>5 DEF AddCID, TypeOK
    <2>3. pc' \in [Uploads -> Stages]
        BY <1>5 DEF AddCID, TypeOK
    <2> QED  BY <1>5, <2>1, <2>2, <2>3 DEF AddCID, TypeOK
<1>6. ASSUME NEW u \in Uploads, GetParcelCID(u) PROVE TypeOK'
    <2>1. Here(u) \in Parcels /\ idx' \in [Uploads -> Nat]
          /\ \A w \in Uploads : idx'[w] \in 1 .. Len(req'[w].scene)
        BY <1>6, LoopType DEF GetParcelCID
    <2>2. parcelRoot[Here(u)] \in Roots \cup {NoRoot}
        BY <2>1 DEF TypeOK
    <2>3. pc' \in [Uploads -> Stages]
        BY <1>6 DEF GetParcelCID, TypeOK
    <2>4. old' \in [Uploads -> SUBSET (Roots \cup {NoRoot})]
        BY <1>6, <2>2 DEF GetParcelCID, TypeOK
    <2> QED  BY <1>6, <2>1, <2>3, <2>4 DEF GetParcelCID, TypeOK
<1>7. ASSUME NEW u \in Uploads, NEW r \in Roots \cup {NoRoot},
             DeleteOldScene(u, r)
      PROVE  TypeOK'
    <2>1. sceneParcels' \in [Roots -> Seq(Parcels)]
        BY <1>7, EmptySeq DEF DeleteOldScene, TypeOK
    <2> QED  BY <1>7, <2>1 DEF DeleteOldScene, TypeOK
<1>8. ASSUME NEW u \in Uploads, PushParcels(u) PROVE TypeOK'
    BY <1>8, PushedType DEF PushParcels, TypeOK
<1>9. ASSUME NEW u \in Uploads, PushError(u) PROVE TypeOK'
    <2>1. sceneParcels' \in [Roots -> Seq(Parcels)]
        BY <1>9, PushedType DEF PushError, TypeOK
    <2> QED  BY <1>9, <2>1 DEF PushError, TypeOK
<1>10. ASSUME NEW u \in Uploads, SetParcel(u) PROVE TypeOK'
    <2>1. Here(u) \in Parcels /\ idx' \in [Uploads -> Nat]
          /\ \A w \in Uploads : idx'[w] \in 1 .. Len(req'[w].scene)
        BY <1>10, LoopType DEF SetParcel
    <2>2. req[u].root \in Roots
        BY RequestFacts DEF TypeOK
    <2>3. pc' \in [Uploads -> Stages]
        <3>1. pc[u] \in {"set", "setx"}
            BY <1>10 DEF SetParcel
        <3>2. CASE ~ AtLast(u)
            BY <1>10, <3>1, <3>2 DEF SetParcel, TypeOK
        <3>3. CASE AtLast(u) /\ pc[u] = "set"
            BY <1>10, <3>3 DEF SetParcel, TypeOK
        <3>4. CASE AtLast(u) /\ pc[u] = "setx"
            BY <1>10, <3>4 DEF SetParcel, TypeOK
        <3> QED  BY <3>1, <3>2, <3>3, <3>4
    <2>4. parcelRoot' \in [Parcels -> Roots \cup {NoRoot}]
        BY <1>10, <2>1, <2>2 DEF SetParcel, TypeOK
    <2> QED  BY <1>10, <2>1, <2>3, <2>4 DEF SetParcel, TypeOK
<1>11. ASSUME NEW u \in Uploads, SetProcessedParcel(u) PROVE TypeOK'
    <2>1. Here(u) \in Parcels /\ idx' \in [Uploads -> Nat]
          /\ \A w \in Uploads : idx'[w] \in 1 .. Len(req'[w].scene)
        BY <1>11, LoopType DEF SetProcessedParcel
    <2>2. pc' \in [Uploads -> Stages]
        BY <1>11 DEF SetProcessedParcel, TypeOK
    <2> QED  BY <1>11, <2>1, <2>2 DEF SetProcessedParcel, TypeOK
<1>12. ASSUME NEW u \in Uploads, StoreMetadata(u) PROVE TypeOK'
    <2>1. req[u].root \in Roots
        BY RequestFacts DEF TypeOK
    <2> QED  BY <1>12, <2>1 DEF StoreMetadata, TypeOK
<1>13. ASSUME NEW u \in Uploads, SaveSceneCid(u) PROVE TypeOK'
    <2>1. req[u].root \in Roots /\ SceneCid(req[u]) \in Cids \cup {EmptyCid}
        BY RequestFacts, SceneCidType DEF TypeOK
    <2> QED  BY <1>13, <2>1 DEF SaveSceneCid, TypeOK
<1>14. ASSUME NEW u \in Uploads, SaveRootCid(u) PROVE TypeOK'
    <2>1. req[u].root \in Roots /\ SceneCid(req[u]) \in Cids \cup {EmptyCid}
        BY RequestFacts, SceneCidType DEF TypeOK
    <2> QED  BY <1>14, <2>1 DEF SaveRootCid, TypeOK
<1>15. ASSUME NEW u \in Uploads, Fail(u) PROVE TypeOK'
    BY <1>15 DEF Fail, TypeOK
<1>16. ASSUME NEW c \in Cids, CheckContentInStorage(c) PROVE TypeOK'
    BY <1>16 DEF CheckContentInStorage, TypeOK
<1>17. CASE UNCHANGED vars
    BY <1>17 DEF TypeOK, vars
<1> QED  BY <1>1, <1>2, <1>3, <1>4, <1>5, <1>6, <1>7, <1>8, <1>9, <1>10, <1>11,
            <1>12, <1>13, <1>14, <1>15, <1>16, <1>17 DEF Next, Step, Progress

(***************************************************************************)
(* Every reachable state is well typed: in particular a parcel loop never  *)
(* runs past its list, and a key only ever holds what its readers expect.  *)
(***************************************************************************)
THEOREM TypeCorrect == Spec => []TypeOK
<1> QED  BY InitType, StepType, PTL DEF Spec

(***************************************************************************)
(* What an upload has saved and recorded.                                  *)
(***************************************************************************)

LEMMA InitContent == Init => ContentInv
BY DEF Init, ContentInv, RecordedAsGiven, Past, Indexing, Settling

\* Only StoreContent writes content hashes.
LEMMA ContentWriter ==
    ASSUME [Next]_vars, content' # content
    PROVE  \E u \in Uploads : \E e \in FileMetadata : StoreContent(u, e)
BY DEF Next, Step, Progress, vars, store, index, publish, work, history,
       AcceptUpload, RejectUpload, AddCID, GetParcelCID, PushParcels, PushError, SetParcel,
       SetProcessedParcel, StoreMetadata, SaveSceneCid, SaveRootCid, Fail, SaveFile,
       DeleteOldScene, CheckContentInStorage

\* No request is exchanged for another.
LEMMA RequestsStay == [Next]_vars => req' = req
BY DEF Next, Step, Progress, vars, store, index, publish, work, history,
       AcceptUpload, RejectUpload, AddCID, GetParcelCID, PushParcels, PushError, SetParcel,
       SetProcessedParcel, StoreMetadata, SaveSceneCid, SaveRootCid, Fail, SaveFile, StoreContent,
       DeleteOldScene, CheckContentInStorage

\* What the hash of a root has is what uploads of that root gave.
LEMMA GivenStep == TypeOK /\ ContentInv /\ [Next]_vars => RecordedAsGiven'
<1> SUFFICES ASSUME TypeOK, ContentInv, [Next]_vars, NEW r \in Roots, NEW n \in Names
             PROVE  (content[r][n] \in CidsFor(r, n) \cup {NoCid})'
    BY DEF RecordedAsGiven
<1>1. CidsFor(r, n)' = CidsFor(r, n)
    BY RequestsStay DEF CidsFor
<1>2. CASE content'[r][n] = content[r][n]
    BY <1>1, <1>2 DEF ContentInv, RecordedAsGiven
<1>3. CASE content'[r][n] # content[r][n]
    <2>1. PICK u \in Uploads, e \in FileMetadata : StoreContent(u, e)
        BY <1>3, ContentWriter
    <2>2. r = req[u].root /\ n = e.name /\ content'[r][n] = e.cid
        BY <1>3, <2>1 DEF StoreContent, TypeOK
    <2>3. e \in Entries(req[u]) /\ e.cid \in Cids /\ e = [name |-> n, cid |-> e.cid]
        BY <2>1, <2>2 DEF StoreContent, ContentInv, Past, FileMetadata
    <2> QED  BY <1>1, <2>2, <2>3 DEF CidsFor
<1> QED  BY <1>2, <1>3

\* A step that only moves u to a stage it may be in keeps ContentInv.
LEMMA ContentMove ==
    ASSUME TypeOK, ContentInv, RecordedAsGiven',
           NEW u \in Uploads, NEW stage \in Stages, Goto(u, stage),
           UNCHANGED <<storage, content, req, parts, entries, group>>,
           \/ stage \in {"error", "torn", "rejected"}
           \/ pc[u] \in Past("get") /\ stage \in Past("get")
    PROVE  ContentInv'
BY DEF ContentInv, Goto, TypeOK, Past, Indexing, Settling, Files, Entries

LEMMA ContentStep == TypeOK /\ ContentInv /\ [Next]_vars => ContentInv'
<1> SUFFICES ASSUME TypeOK, ContentInv, [Next]_vars PROVE ContentInv'
    OBVIOUS
<1>0. RecordedAsGiven'
    BY GivenStep
<1> USE <1>0 DEF store, index, publish, work, history, Stages, InFlight, Indexing,
            Settling, Finished
<1>1. ASSUME NEW u \in Uploads, AcceptUpload(u) PROVE ContentInv'
    BY <1>1 DEF AcceptUpload, Available, ContentInv, TypeOK, Goto, Past, Files
<1>2. ASSUME NEW u \in Uploads, RejectUpload(u) PROVE ContentInv'
    BY <1>2, ContentMove DEF RejectUpload
<1>3. ASSUME NEW u \in Uploads, NEW c \in Cids, SaveFile(u, c) PROVE ContentInv'
    BY <1>3 DEF SaveFile, ContentInv, TypeOK, Goto, Past, Files
<1>4. ASSUME NEW u \in Uploads, NEW e \in FileMetadata, StoreContent(u, e)
      PROVE  ContentInv'
    <2>1. /\ e.cid \in Cids /\ e.name \in Names /\ e.cid # NoCid
          /\ req[u].root \in Roots
          /\ e \in Entries(req[u])
        BY <1>4, RequestFacts, NoneAssumption
           DEF StoreContent, ContentInv, TypeOK, FileMetadata, Past
    <2>2. e.name \notin Dirs => e.cid \in storage
        BY <1>4, <2>1 DEF StoreContent, ContentInv, Past, Files
    <2>3. \A r \in Roots, n \in Names :
             content'[r][n] = IF r = req[u].root /\ n = e.name THEN e.cid
                              ELSE content[r][n]
        BY <1>4, <2>1 DEF StoreContent, TypeOK
    <2>4. \A r \in Roots, n \in Names \ Dirs :
             content'[r][n] # NoCid => content'[r][n] \in storage'
        BY <1>4, <2>2, <2>3 DEF StoreContent, ContentInv
    <2>5. ASSUME NEW w \in Uploads, pc[w] \in Past("record")
          PROVE  \A f \in Entries(req[w]) \ entries'[w] :
                     content'[req[w].root][f.name] # NoCid
        <3>1. req[w].root \in Roots /\ Entries(req[w]) \subseteq FileMetadata
            BY RequestFacts DEF TypeOK
        <3>2. \A f \in Entries(req[w]) : f.name \in Names
            BY <3>1 DEF FileMetadata
        <3>3. \A f \in Entries(req[w]) \ entries[w] : content[req[w].root][f.name] # NoCid
            BY <2>5 DEF ContentInv
        <3>4. \A f \in Entries(req[w]) \ entries'[w] :
                  f \notin entries[w] \/ (w = u /\ f = e)
            BY <1>4 DEF StoreContent, TypeOK
        <3> QED  BY <2>1, <2>3, <3>1, <3>2, <3>3, <3>4
    <2>6. UNCHANGED <<storage, pc, req, parts>>
          /\ entries' = [entries EXCEPT ![u] = @ \ {e}]
          /\ group' = [group EXCEPT ![u] = e.cid]
          /\ pc[u] = "record"
        BY <1>4 DEF StoreContent
    <2> QED  BY <2>1, <2>4, <2>5, <2>6 DEF ContentInv, TypeOK, Past, Files
<1>5. ASSUME NEW u \in Uploads, AddCID(u) PROVE ContentInv'
    <2>1. /\ pc[u] = "record"
          /\ UNCHANGED <<storage, content, req, parts, entries>>
          /\ group' = [group EXCEPT ![u] = NoCid]
          /\ \/ pc' = pc
             \/ entries[u] = {} /\ pc' = [pc EXCEPT ![u] = "get"]
        BY <1>5 DEF AddCID, Goto
    <2>2. CASE pc' = pc
        BY <2>1, <2>2 DEF ContentInv, TypeOK, Past, Files
    <2>3. CASE entries[u] = {} /\ pc' = [pc EXCEPT ![u] = "get"]
        BY <2>1, <2>3 DEF ContentInv, TypeOK, Past, Files
    <2> QED  BY <2>1, <2>2, <2>3
<1>6. ASSUME NEW u \in Uploads, GetParcelCID(u) PROVE ContentInv'
    BY <1>6, ContentMove DEF GetParcelCID, Past
<1>7. ASSUME NEW u \in Uploads, NEW r \in Roots \cup {NoRoot},
             DeleteOldScene(u, r)
      PROVE  ContentInv'
    BY <1>7, ContentMove DEF DeleteOldScene, Past
<1>8. ASSUME NEW u \in Uploads, PushParcels(u) PROVE ContentInv'
    BY <1>8, ContentMove DEF PushParcels, Past
<1>9. ASSUME NEW u \in Uploads, PushError(u) PROVE ContentInv'
    BY <1>9, ContentMove DEF PushError, Past
<1>10. ASSUME NEW u \in Uploads, SetParcel(u) PROVE ContentInv'
    <2>1. pc[u] \in {"set", "setx"}
        BY <1>10 DEF SetParcel
    <2>2. CASE ~ AtLast(u)
        BY <1>10, <2>1, <2>2, ContentMove DEF SetParcel, Past
    <2>3. CASE AtLast(u) /\ pc[u] = "set"
        BY <1>10, <2>3, ContentMove DEF SetParcel, Past
    <2>4. CASE AtLast(u) /\ pc[u] = "setx"
        BY <1>10, <2>4, ContentMove DEF SetParcel, Past
    <2> QED  BY <2>1, <2>2, <2>3, <2>4
<1>11. ASSUME NEW u \in Uploads, SetProcessedParcel(u) PROVE ContentInv'
    BY <1>11, ContentMove DEF SetProcessedParcel, Past
<1>12. ASSUME NEW u \in Uploads, StoreMetadata(u) PROVE ContentInv'
    BY <1>12, ContentMove DEF StoreMetadata, Past
<1>13. ASSUME NEW u \in Uploads, SaveSceneCid(u) PROVE ContentInv'
    BY <1>13, ContentMove DEF SaveSceneCid, Past
<1>14. ASSUME NEW u \in Uploads, SaveRootCid(u) PROVE ContentInv'
    BY <1>14, ContentMove DEF SaveRootCid, Past
<1>15. ASSUME NEW u \in Uploads, Fail(u) PROVE ContentInv'
    BY <1>15, ContentMove DEF Fail
<1>16. ASSUME NEW c \in Cids, CheckContentInStorage(c) PROVE ContentInv'
    BY <1>16 DEF CheckContentInStorage, ContentInv, Past, Files
<1>17. CASE UNCHANGED vars
    BY <1>17 DEF ContentInv, vars, Past, Files
<1> QED  BY <1>1, <1>2, <1>3, <1>4, <1>5, <1>6, <1>7, <1>8, <1>9, <1>10, <1>11,
            <1>12, <1>13, <1>14, <1>15, <1>16, <1>17 DEF Next, Step, Progress

THEOREM ContentInvariant == Spec => []ContentInv
<1> QED  BY TypeCorrect, InitContent, ContentStep, PTL DEF Spec

(***************************************************************************)
(* Nothing is taken back: keys are overwritten, never removed, except the  *)
(* lists of parcels.                                                       *)
(***************************************************************************)
LEMMA NothingTakenBack ==
    ASSUME TypeOK, [Next]_vars
    PROVE  /\ req' = req
           /\ storage \subseteq storage'
           /\ processed \subseteq processed'
           /\ metadata \subseteq metadata'
           /\ \A r \in Roots, n \in Names : content[r][n] # NoCid => content'[r][n] # NoCid
           /\ \A p \in Parcels : parcelRoot[p] # NoRoot => parcelRoot'[p] # NoRoot
           /\ \A r \in Roots : sceneOf[r] # NoCid => sceneOf'[r] # NoCid
<1> DEFINE Kept == /\ req' = req
                   /\ storage \subseteq storage'
                   /\ processed \subseteq processed'
                   /\ metadata \subseteq metadata'
                   /\ \/ content' = content
                      \/ \A r \in Roots, n \in Names :
                            content[r][n] # NoCid => content'[r][n] # NoCid
                   /\ \/ parcelRoot' = parcelRoot
                      \/ \A p \in Parcels : parcelRoot[p] # NoRoot => parcelRoot'[p] # NoRoot
                   /\ \/ sceneOf' = sceneOf
                      \/ \A r \in Roots : sceneOf[r] # NoCid => sceneOf'[r] # NoCid
<1> SUFFICES Kept
    OBVIOUS
<1> USE DEF store, index, publish, work, history
<1>1. ASSUME NEW u \in Uploads, NEW e \in FileMetadata, StoreContent(u, e)
      PROVE  Kept
    <2>1. e.cid # NoCid
        BY NoneAssumption DEF FileMetadata
    <2>2. \A r \in Roots, n \in Names :
             content'[r][n] = IF r = req[u].root /\ n = e.name THEN e.cid
                              ELSE content[r][n]
        BY <1>1 DEF StoreContent, TypeOK
    <2> QED  BY <1>1, <2>1, <2>2 DEF StoreContent
<1>2. ASSUME NEW u \in Uploads, SetParcel(u) PROVE Kept
    <2>1. req[u].root # NoRoot
        BY RequestFacts, NoneAssumption DEF TypeOK
    <2> QED  BY <1>2, <2>1 DEF SetParcel, TypeOK
<1>3. ASSUME NEW u \in Uploads, SaveSceneCid(u) PROVE Kept
    <2>1. SceneCid(req[u]) # NoCid
        BY SceneCidType, NoneAssumption DEF TypeOK
    <2> QED  BY <1>3, <2>1 DEF SaveSceneCid, TypeOK
<1>4. ASSUME NEW u \in Uploads,
             \/ AcceptUpload(u) \/ RejectUpload(u) \/ AddCID(u) \/ GetParcelCID(u)
             \/ PushParcels(u) \/ PushError(u) \/ SetProcessedParcel(u)
             \/ StoreMetadata(u) \/ SaveRootCid(u) \/ Fail(u)
             \/ \E c \in Cids : SaveFile(u, c)
             \/ \E r \in Roots \cup {NoRoot} : DeleteOldScene(u, r)
      PROVE  Kept
    BY <1>4 DEF AcceptUpload, RejectUpload, AddCID, GetParcelCID, PushParcels,
                PushError, SetProcessedParcel, StoreMetadata, SaveRootCid, Fail,
                SaveFile, DeleteOldScene
<1>5. ASSUME NEW c \in Cids, CheckContentInStorage(c) PROVE Kept
    BY <1>5 DEF CheckContentInStorage
<1>6. CASE UNCHANGED vars
    BY <1>6 DEF vars
<1> QED  BY <1>1, <1>2, <1>3, <1>4, <1>5, <1>6 DEF Next, Step, Progress

\* Only SetParcel writes parcel keys.
LEMMA ParcelKeyWriter ==
    ASSUME [Next]_vars, parcelRoot' # parcelRoot
    PROVE  \E u \in Uploads : SetParcel(u)
BY DEF Next, Step, Progress, vars, store, index, publish, work, history,
       AcceptUpload, RejectUpload, AddCID, GetParcelCID, PushParcels, PushError,
       SetProcessedParcel, StoreMetadata, SaveSceneCid, SaveRootCid, Fail, SaveFile,
       StoreContent, DeleteOldScene, CheckContentInStorage

\* A manifest that is recorded stays recorded.
LEMMA CompleteStays ==
    ASSUME TypeOK, ContentInv', [Next]_vars, NEW u \in Uploads, Complete(req[u])
    PROVE  Complete(req[u])'
<1> DEFINE q == req[u]
<1>1. q \in Requests /\ q.root \in Roots /\ \A e \in Entries(q) : e.name \in Names
    BY RequestFacts DEF FileMetadata, TypeOK
<1>2. \A e \in Entries(q) : content'[q.root][e.name] # NoCid
    BY <1>1, NothingTakenBack, NoneAssumption DEF Complete, CidsFor
<1>3. \A e \in Entries(q) : e.name \notin Dirs => content'[q.root][e.name] \in storage'
    BY <1>1, <1>2 DEF ContentInv
<1>4. \A r \in Roots, n \in Names : (content[r][n] \in CidsFor(r, n) \cup {NoCid})'
    BY DEF ContentInv, RecordedAsGiven
<1>5. req' = req
    BY RequestsStay
<1> QED  BY <1>1, <1>2, <1>3, <1>4, <1>5 DEF Complete

\* An upload that has recorded everything has a complete manifest.
LEMMA RecordedIsComplete ==
    ASSUME TypeOK, ContentInv, NEW u \in Uploads, pc[u] \in Past("get")
    PROVE  Complete(req[u])
<1>1. /\ req[u].root \in Roots
      /\ \A e \in Entries(req[u]) : e.name \in Names
    BY RequestFacts DEF FileMetadata, TypeOK
<1>2. \A e \in Entries(req[u]) : content[req[u].root][e.name] # NoCid
    BY DEF ContentInv, Past
<1> QED  BY <1>1, <1>2 DEF Complete, ContentInv, RecordedAsGiven

LEMMA NoDanglingStep ==
    TypeOK /\ ContentInv /\ ContentInv' /\ NoDanglingScene /\ [Next]_vars
        => NoDanglingScene'
<1> SUFFICES ASSUME TypeOK, ContentInv, ContentInv', NoDanglingScene, [Next]_vars,
                    NEW p \in Parcels, parcelRoot'[p] # NoRoot
             PROVE  \E u \in Uploads : /\ req[u].root = parcelRoot'[p]
                                       /\ p \in Claims(req[u])
                                       /\ Complete(req[u])'
    BY RequestsStay DEF NoDanglingScene
<1>1. CASE parcelRoot'[p] = parcelRoot[p]
    <2>1. PICK u \in Uploads : /\ req[u].root = parcelRoot[p]
                               /\ p \in Claims(req[u])
                               /\ Complete(req[u])
        BY <1>1 DEF NoDanglingScene
    <2>2. Complete(req[u])'
        BY <2>1, CompleteStays
    <2> QED  BY <1>1, <2>1, <2>2
<1>2. CASE parcelRoot'[p] # parcelRoot[p]
    <2>1. PICK u \in Uploads : SetParcel(u)
        BY <1>2, ParcelKeyWriter
    <2>2. Here(u) \in Claims(req[u])
        BY <2>1, LoopType DEF SetParcel
    <2>3. p = Here(u) /\ parcelRoot'[p] = req[u].root
        BY <1>2, <2>1 DEF SetParcel, TypeOK
    <2>4. Complete(req[u])
        BY <2>1, RecordedIsComplete DEF SetParcel, Past, Indexing
    <2>5. Complete(req[u])'
        BY <2>4, CompleteStays
    <2> QED  BY <2>2, <2>3, <2>5
<1> QED  BY <1>1, <1>2

LEMMA InitNoDangling == Init => NoDanglingScene
BY DEF Init, NoDanglingScene

(***************************************************************************)
(* Behind every parcel key there is a scene that is recorded completely    *)
(* and whose files are all stored, whatever uploads overlap and wherever   *)
(* they stop.                                                              *)
(***************************************************************************)
THEOREM NoDanglingSceneHolds == Spec => []NoDanglingScene
<1>1. TypeOK /\ ContentInv /\ NoDanglingScene /\ [Next]_vars
          => ContentInv' /\ NoDanglingScene'
    BY ContentStep, NoDanglingStep
<1> QED  BY <1>1, TypeCorrect, ContentInvariant, InitNoDangling, PTL DEF Spec

(***************************************************************************)
(* Every CID reported as uploaded is stored, or is one that a manifest     *)
(* gives to a directory.                                                   *)
(***************************************************************************)

LEMMA InitStatus == Init => StatusSound
BY DEF Init, StatusSound

LEMMA StatusStep == TypeOK /\ ContentInv /\ StatusSound /\ [Next]_vars => StatusSound'
<1> SUFFICES ASSUME TypeOK, ContentInv, StatusSound, [Next]_vars,
                    NEW c \in uploaded' \ storage'
             PROVE  \E q \in Requests : \E e \in Entries(q) : e.cid = c /\ e.name \in Dirs
    BY DEF StatusSound
<1>1. c \notin storage
    BY NothingTakenBack
<1>2. CASE c \in uploaded
    BY <1>1, <1>2 DEF StatusSound
<1>3. CASE c \notin uploaded
    <2>1. \/ \E u \in Uploads : AddCID(u)
          \/ \E d \in Cids : CheckContentInStorage(d)
        BY <1>3 DEF Next, Step, Progress, vars, store, index, publish, work, history,
              AcceptUpload, RejectUpload, GetParcelCID, PushParcels, PushError,
              SetParcel, SetProcessedParcel, StoreMetadata, SaveSceneCid,
              SaveRootCid, Fail, SaveFile, StoreContent, DeleteOldScene
    <2>2. ASSUME NEW d \in Cids, CheckContentInStorage(d)
          PROVE  FALSE
        BY <1>1, <1>3, <2>2 DEF CheckContentInStorage
    <2>3. PICK u \in Uploads : AddCID(u)
        BY <2>1, <2>2
    <2>4. c = group[u] /\ pc[u] = "record" /\ group[u] # NoCid
        BY <1>3, <2>3 DEF AddCID
    <2>5. PICK e \in Entries(req[u]) : e.cid = c
        BY <2>4 DEF ContentInv
    <2>6. e.name \in Dirs
        BY <1>1, <2>4, <2>5 DEF ContentInv, Files, Past
    <2> QED  BY <2>5, <2>6 DEF TypeOK
<1> QED  BY <1>2, <1>3

THEOREM StatusSoundHolds == Spec => []StatusSound
<1> QED  BY TypeCorrect, ContentInvariant, InitStatus, StatusStep, PTL DEF Spec

(***************************************************************************)
(* How far an upload has published its scene.                              *)
(***************************************************************************)

\* A step of u leaves the other uploads' registers alone.
LEMMA StepIsLocal ==
    ASSUME TypeOK, NEW u \in Uploads, Step(u), NEW w \in Uploads, w # u
    PROVE  /\ pc'[w] = pc[w] /\ idx'[w] = idx[w] /\ old'[w] = old[w]
           /\ req' = req
BY DEF Step, Progress, store, index, publish, work, history, TypeOK, Goto,
       NextParcel, AcceptUpload, RejectUpload, AddCID, GetParcelCID, PushParcels,
       PushError, SetParcel, SetProcessedParcel, StoreMetadata, SaveSceneCid,
       SaveRootCid, Fail, SaveFile, StoreContent, DeleteOldScene

LEMMA InitPublish == Init => PublishInv
BY DEF Init, PublishInv, Published, Past, Settling

LEMMA PublishKept ==
    ASSUME TypeOK, PublishInv, [Next]_vars, NEW w \in Uploads,
           pc'[w] = pc[w], idx'[w] = idx[w]
    PROVE  Published(w)'
<1>1. /\ req[w].root \in Roots /\ Claims(req[w]) \subseteq Parcels
      /\ \A i \in 1 .. Len(req[w].scene) : req[w].scene[i] \in Parcels
      /\ idx[w] \in 1 .. Len(req[w].scene)
    BY RequestFacts DEF TypeOK
<1>2. \A i \in 1 .. idx[w] - 1 : req[w].scene[i] \in Parcels
    BY <1>1, RequestFacts DEF TypeOK
<1>3. Published(w)
    BY DEF PublishInv
<1> QED  BY <1>1, <1>2, <1>3, NothingTakenBack DEF Published, Past, Claims

\* What u has done once it has finished a parcel loop.
LEMMA LoopDone ==
    ASSUME TypeOK, NEW u \in Uploads, AtLast(u),
           NEW p \in Claims(req[u])
    PROVE  \/ p = Here(u)
           \/ \E i \in 1 .. idx[u] - 1 : req[u].scene[i] = p
<1>1. req[u].scene \in Seq(Parcels) /\ Len(req[u].scene) \in Nat
    BY RequestFacts DEF TypeOK
<1>2. PICK i \in 1 .. Len(req[u].scene) : req[u].scene[i] = p
    BY <1>1 DEF Claims, Range
<1> QED  BY <1>1, <1>2 DEF AtLast, Here

LEMMA PublishStep == TypeOK /\ PublishInv /\ [Next]_vars => PublishInv'
<1> SUFFICES ASSUME TypeOK, PublishInv, [Next]_vars, NEW w \in Uploads
             PROVE  Published(w)'
    BY DEF PublishInv
<1> USE DEF Settling, Past
<1>1. CASE pc'[w] = pc[w] /\ idx'[w] = idx[w]
    BY <1>1, PublishKept
<1>2. CASE ~ (pc'[w] = pc[w] /\ idx'[w] = idx[w])
    <2>1. Step(w)
        BY <1>2, StepIsLocal
           DEF Next, vars, CheckContentInStorage, work
    <2>2. Published(w) /\ req' = req /\ pc[w] \in Stages /\ idx[w] \in Nat
        BY NothingTakenBack DEF PublishInv, TypeOK
    <2>3. /\ req[w].root \in Roots /\ Claims(req[w]) \subseteq Parcels
          /\ req[w].root # NoRoot
          /\ Len(req[w].scene) \in Nat
          /\ \A i \in 1 .. Len(req[w].scene) : req[w].scene[i] \in Claims(req[w])
          /\ idx[w] \in 1 .. Len(req[w].scene)
        BY RequestFacts, NoneAssumption DEF TypeOK
    <2>4. /\ processed \subseteq processed'
          /\ metadata \subseteq metadata'
          /\ \A p \in Parcels : parcelRoot[p] # NoRoot => parcelRoot'[p] # NoRoot
          /\ \A r \in Roots : sceneOf[r] # NoCid => sceneOf'[r] # NoCid
        BY NothingTakenBack
    <2>5. Claims(req'[w]) = Claims(req[w])
        BY <2>2
    <2> USE DEF Goto, work, index, publish, store
    <2>6. CASE pc[w] \in {"idle", "save", "record"}
        <3>1. pc'[w] \in {"save", "record", "get", "rejected", "error"} /\ idx'[w] = 1
            BY <2>1, <2>2, <2>6 DEF Step, Progress, AcceptUpload, RejectUpload,
               SaveFile, StoreContent, AddCID, GetParcelCID, DeleteOldScene,
               PushParcels, PushError, SetParcel, SetProcessedParcel,
               StoreMetadata, SaveSceneCid, SaveRootCid, Fail, InFlight, TypeOK,
               Published
        <3> QED  BY <3>1 DEF Published
    <2>7. CASE Fail(w)
        <3>1. pc'[w] \in {"torn", "error"}
            BY <2>7 DEF Fail, TypeOK
        <3> QED  BY <3>1 DEF Published
    <2>8. CASE GetParcelCID(w)
        <3>1. \/ pc'[w] = "get"
              \/ pc'[w] = "del" /\ idx'[w] = 1
            BY <2>8 DEF GetParcelCID, NextParcel, TypeOK
        <3> QED  BY <3>1 DEF Published
    <2>9. CASE \E r \in Roots \cup {NoRoot} : DeleteOldScene(w, r)
        <3>1. pc'[w] \in {"del", "push"} /\ idx'[w] = 1
            BY <2>2, <2>9 DEF DeleteOldScene, TypeOK, Published
        <3> QED  BY <3>1 DEF Published
    <2>10. CASE PushParcels(w) \/ PushError(w)
        <3>1. pc'[w] \in {"set", "setx"} /\ idx'[w] = 1
            BY <2>2, <2>10 DEF PushParcels, PushError, TypeOK, Published
        <3> QED  BY <3>1 DEF Published
    <2>11. CASE SetParcel(w)
        <3>1. /\ pc[w] \in {"set", "setx"}
              /\ parcelRoot' = [parcelRoot EXCEPT ![Here(w)] = req[w].root]
              /\ Here(w) \in Parcels
              /\ Here(w) = req[w].scene[idx[w]]
            BY <2>11, LoopType DEF SetParcel, Here
        <3>2. parcelRoot'[Here(w)] # NoRoot
            BY <2>3, <3>1 DEF TypeOK
        <3>3. \A i \in 1 .. idx[w] - 1 : parcelRoot'[req[w].scene[i]] # NoRoot
            <4> TAKE i \in 1 .. idx[w] - 1
            <4>1. i \in 1 .. Len(req[w].scene)
                BY <2>2, <2>3
            <4>2. req[w].scene[i] \in Parcels
                BY <2>3, <4>1
            <4>3. parcelRoot[req[w].scene[i]] # NoRoot
                BY <2>2, <3>1 DEF Published
            <4> QED  BY <2>4, <4>2, <4>3
        <3>4. CASE ~ AtLast(w)
            <4>1. pc'[w] = pc[w] /\ idx'[w] = idx[w] + 1
                BY <2>11, <3>4, <3>1 DEF SetParcel, NextParcel, TypeOK
            <4>2. \A i \in 1 .. idx'[w] - 1 : parcelRoot'[req[w].scene[i]] # NoRoot
                BY <2>2, <3>1, <3>2, <3>3, <4>1
            <4> QED  BY <2>2, <3>1, <4>1, <4>2 DEF Published
        <3>5. CASE AtLast(w)
            <4>1. pc'[w] \in {"flag", "error"} /\ idx'[w] = 1
                BY <2>11, <3>5, <3>1 DEF SetParcel, NextParcel, TypeOK
            <4>2. \A p \in Claims(req[w]) : parcelRoot'[p] # NoRoot
                BY <3>2, <3>3, <3>5, LoopDone
            <4> QED  BY <2>2, <2>5, <4>1, <4>2 DEF Published
        <3> QED  BY <3>4, <3>5
    <2>12. CASE SetProcessedParcel(w)
        <3>1. /\ pc[w] = "flag"
              /\ processed' = processed \cup {Here(w)}
              /\ Here(w) = req[w].scene[idx[w]]
              /\ \A p \in Claims(req[w]) : parcelRoot'[p] # NoRoot
              /\ \A i \in 1 .. idx[w] - 1 : req[w].scene[i] \in processed
            BY <2>2, <2>3, <2>4, <2>12 DEF SetProcessedParcel, Here, Published
        <3>2. CASE ~ AtLast(w)
            <4>1. pc'[w] = "flag" /\ idx'[w] = idx[w] + 1
                BY <2>12, <3>2 DEF SetProcessedParcel, NextParcel, TypeOK
            <4>2. \A i \in 1 .. idx'[w] - 1 : req[w].scene[i] \in processed'
                BY <2>2, <3>1, <4>1
            <4> QED  BY <2>2, <2>5, <3>1, <4>1, <4>2 DEF Published
        <3>3. CASE AtLast(w)
            <4>1. pc'[w] = "meta"
                BY <2>12, <3>3 DEF SetProcessedParcel, TypeOK
            <4>2. Claims(req[w]) \subseteq processed'
                BY <3>1, <3>3, LoopDone
            <4> QED  BY <2>2, <2>5, <3>1, <4>1, <4>2 DEF Published
        <3> QED  BY <3>2, <3>3
    <2>13. CASE StoreMetadata(w)
        <3>1. /\ pc[w] = "meta" /\ pc'[w] = "scene" /\ req[w].root \in metadata'
            BY <2>13 DEF StoreMetadata, TypeOK
        <3> QED  BY <2>2, <2>3, <2>4, <2>5, <3>1 DEF Published
    <2>14. CASE SaveSceneCid(w)
        <3>1. SceneCid(req[w]) # NoCid
            BY SceneCidType, NoneAssumption DEF TypeOK
        <3>2. /\ pc[w] = "scene" /\ pc'[w] = "root"
              /\ sceneOf'[req[w].root] # NoCid
            BY <2>3, <2>14, <3>1 DEF SaveSceneCid, TypeOK
        <3> QED  BY <2>2, <2>3, <2>4, <2>5, <3>2 DEF Published
    <2>15. CASE SaveRootCid(w)
        <3>1. pc[w] = "root" /\ pc'[w] \in {"ok", "error"}
            BY <2>15 DEF SaveRootCid, TypeOK
        <3> QED  BY <2>2, <2>3, <2>4, <2>5, <3>1 DEF Published
    <2>16. CASE AcceptUpload(w) \/ RejectUpload(w) \/ AddCID(w)
                \/ (\E c \in Cids : SaveFile(w, c))
                \/ (\E e \in FileMetadata : StoreContent(w, e))
        BY <2>6, <2>16 DEF AcceptUpload, RejectUpload, AddCID, SaveFile, StoreContent
    <2> QED  BY <2>1, <2>7, <2>8, <2>9, <2>10, <2>11, <2>12, <2>13, <2>14, <2>15,
                <2>16 DEF Step, Progress
<1> QED  BY <1>1, <1>2

THEOREM PublishInvariant == Spec => []PublishInv
<1> QED  BY TypeCorrect, InitPublish, PublishStep, PTL DEF Spec

\* Who writes each of the keys an upload publishes after its parcels.
LEMMA PublishWriters ==
    ASSUME [Next]_vars
    PROVE  /\ processed' # processed => \E u \in Uploads : SetProcessedParcel(u)
           /\ metadata' # metadata => \E u \in Uploads : StoreMetadata(u)
           /\ sceneOf' # sceneOf => \E u \in Uploads : SaveSceneCid(u)
           /\ rootOf' # rootOf => \E u \in Uploads : SaveRootCid(u)
BY DEF Next, Step, Progress, vars, store, index, publish, work, history,
       AcceptUpload, RejectUpload, AddCID, GetParcelCID, PushParcels, PushError,
       SetParcel, SetProcessedParcel, StoreMetadata, SaveSceneCid, SaveRootCid,
       Fail, SaveFile, StoreContent, DeleteOldScene, CheckContentInStorage

LEMMA InitPublishOrder == Init => PublishOrder
BY DEF Init, PublishOrder

LEMMA PublishOrderStep ==
    TypeOK /\ PublishInv /\ PublishOrder /\ [Next]_vars => PublishOrder'
<1> SUFFICES ASSUME TypeOK, PublishInv, PublishOrder, [Next]_vars
             PROVE  PublishOrder'
    OBVIOUS
<1> USE DEF Past, Settling
<1>1. \A p \in processed' : parcelRoot'[p] # NoRoot
    <2> TAKE p \in processed'
    <2>1. CASE p \in processed
        BY <2>1, NothingTakenBack DEF PublishOrder, TypeOK
    <2>2. CASE p \notin processed
        <3>1. PICK u \in Uploads : SetProcessedParcel(u)
            BY <2>2, PublishWriters
        <3>2. p = Here(u) /\ pc[u] = "flag" /\ parcelRoot' = parcelRoot
            BY <2>2, <3>1 DEF SetProcessedParcel
        <3>3. p \in Claims(req[u])
            BY <3>1, <3>2, LoopType DEF SetProcessedParcel
        <3> QED  BY <3>2, <3>3 DEF PublishInv, Published
    <2> QED  BY <2>1, <2>2
<1>2. \A r \in metadata' : \E q \in Requests : q.root = r /\ Claims(q) \subseteq processed'
    <2> TAKE r \in metadata'
    <2>1. CASE r \in metadata
        BY <2>1, NothingTakenBack DEF PublishOrder
    <2>2. CASE r \notin metadata
        <3>1. PICK u \in Uploads : StoreMetadata(u)
            BY <2>2, PublishWriters
        <3>2. r = req[u].root /\ pc[u] = "meta" /\ processed' = processed
            BY <2>2, <3>1 DEF StoreMetadata, index
        <3> QED  BY <3>2 DEF PublishInv, Published, TypeOK
    <2> QED  BY <2>1, <2>2
<1>3. \A r \in Roots : sceneOf'[r] # NoCid => r \in metadata'
    <2> SUFFICES ASSUME NEW r \in Roots, sceneOf'[r] # NoCid, sceneOf[r] = NoCid
                 PROVE  r \in metadata'
        BY NothingTakenBack DEF PublishOrder
    <2>1. PICK u \in Uploads : SaveSceneCid(u)
        BY PublishWriters
    <2>2. r = req[u].root /\ pc[u] = "scene" /\ metadata' = metadata
        BY <2>1 DEF SaveSceneCid, TypeOK
    <2> QED  BY <2>2 DEF PublishInv, Published
<1>4. \A c \in Cids \cup {EmptyCid} : rootOf'[c] # NoRoot => sceneOf'[rootOf'[c]] # NoCid
    <2> TAKE c \in Cids \cup {EmptyCid}
    <2>1. CASE rootOf'[c] = rootOf[c]
        BY <2>1, NothingTakenBack DEF PublishOrder, TypeOK
    <2>2. CASE rootOf'[c] # rootOf[c]
        <3>1. PICK u \in Uploads : SaveRootCid(u)
            BY <2>2, PublishWriters
        <3>2. rootOf'[c] = req[u].root /\ pc[u] = "root" /\ sceneOf' = sceneOf
            BY <2>2, <3>1 DEF SaveRootCid, TypeOK
        <3> QED  BY <3>2 DEF PublishInv, Published
    <2> QED  BY <2>1, <2>2
<1> QED  BY <1>1, <1>2, <1>3, <1>4 DEF PublishOrder

(***************************************************************************)
(* An upload publishes in the order in which readers follow the keys: a    *)
(* reader that finds one key finds the ones it leads to.                   *)
(***************************************************************************)
THEOREM PublishOrderHolds == Spec => []PublishOrder
<1> QED  BY TypeCorrect, PublishInvariant, InitPublishOrder, PublishOrderStep, PTL
         DEF Spec

(***************************************************************************)
(* The index of quiet parcels.                                             *)
(***************************************************************************)

LEMMA ListedAreParcels ==
    ASSUME TypeOK, NEW r \in Roots PROVE Range(sceneParcels[r]) \subseteq Parcels
BY DEF TypeOK, Range

\* An upload only sets parcels of its own.
LEMMA PendingClaims ==
    ASSUME TypeOK, NEW u \in Uploads, NEW p, Pending(u, p)
    PROVE  pc[u] \in {"set", "setx"} /\ p \in Claims(req[u])
<1>1. Len(req[u].scene) \in Nat /\ idx[u] \in Nat /\ idx[u] >= 1
      /\ DOMAIN req[u].scene = 1 .. Len(req[u].scene)
    BY RequestFacts DEF TypeOK
<1> QED  BY <1>1 DEF Pending, Claims, Range

LEMMA InitExact == ASSUME Init, NEW p \in Parcels PROVE Exact(p)
<1>1. Lists(p) = {}
    BY DEF Init, Lists, Range
<1> QED  BY <1>1 DEF Init, Exact, ListedOnce, LeadsBack, OneAtATime, Cleared, Indexing

\* What the uploads that claim p do not disturb, nor anybody who only takes
\* it off lists.
LEMMA ExactKept ==
    ASSUME TypeOK, NEW p \in Parcels, Exact(p),
           req' = req, parcelRoot'[p] = parcelRoot[p], Lists(p)' \subseteq Lists(p),
           \A w \in Uploads : p \in Claims(req[w]) =>
               \/ pc'[w] = pc[w] /\ pc'[w] \notin Indexing
               \/ pc'[w] = pc[w] /\ idx'[w] = idx[w] /\ old'[w] = old[w]
               \/ pc[w] \notin {"set", "setx"} /\ pc'[w] \notin Indexing
    PROVE  Exact(p)'
<1>1. ListedOnce(p)'
    BY DEF Exact, ListedOnce
<1>2. LeadsBack(p)'
    <2>1. \A u \in Uploads : Pending(u, p) => Pending(u, p)'
        BY PendingClaims DEF Pending, Indexing
    <2> QED  BY <2>1 DEF Exact, LeadsBack
<1>3. OneAtATime(p)'
    BY DEF Exact, OneAtATime, Indexing
<1>4. ASSUME NEW u \in Uploads, p \in Claims(req[u]) PROVE Cleared(u, p)'
    <2>1. Cleared(u, p)
        BY <1>4 DEF Exact
    <2>2. CASE pc'[u] \notin Indexing
        BY <2>2 DEF Cleared, Indexing
    <2>3. CASE pc'[u] = pc[u] /\ idx'[u] = idx[u] /\ old'[u] = old[u]
        BY <2>1, <2>3 DEF Cleared
    <2> QED  BY <1>4, <2>2, <2>3
<1> QED  BY <1>1, <1>2, <1>3, <1>4 DEF Exact

\* Steps of an upload that has nothing to do with p.
LEMMA ExactElsewhere ==
    ASSUME TypeOK, NEW p \in Parcels, Exact(p), NEW u \in Uploads, Step(u),
           p \notin Claims(req[u]), parcelRoot'[p] = parcelRoot[p], Lists(p)' \subseteq Lists(p)
    PROVE  Exact(p)'
<1>1. req' = req /\ \A w \in Uploads \ {u} : pc'[w] = pc[w] /\ idx'[w] = idx[w] /\ old'[w] = old[w]
    BY StepIsLocal, NothingTakenBack DEF Next
<1> QED  BY <1>1, ExactKept

\* The steps of SetSceneParcels for an upload u of parcel p.

\* No other upload is inside SetSceneParcels for p.
LEMMA ExactEnter ==
    ASSUME TypeOK, PublishInv, NEW p \in Parcels, Exact(p), p \notin overlap',
           NEW u \in Uploads, AddCID(u)
    PROVE  Exact(p)'
<1> USE DEF index, publish
<1>1. /\ UNCHANGED <<parcelRoot, sceneParcels, req, idx, old>> /\ Lists(p)' = Lists(p)
      /\ pc[u] = "record"
    BY DEF AddCID, Lists
<1>2. CASE pc' = pc
    BY <1>1, <1>2, ExactKept
<1>3. CASE p \notin Claims(req[u])
    BY <1>1, <1>3, ExactElsewhere DEF Step, Progress
<1>4. CASE pc' # pc /\ p \in Claims(req[u])
    <2>1. EnterIndex(u) /\ pc' = [pc EXCEPT ![u] = "get"]
        BY <1>4 DEF AddCID, Goto
    <2>2. \A w \in Uploads \ {u} : pc[w] \in Indexing => p \notin Claims(req[w])
        BY <1>4, <2>1 DEF EnterIndex
    <2>3. idx[u] = 1
        BY <1>1 DEF PublishInv, Published
    <2>4. ListedOnce(p)'
        BY <1>1 DEF Exact, ListedOnce
    <2>5. LeadsBack(p)'
        <3>1. \A w \in Uploads : Pending(w, p) => Pending(w, p)'
            BY <1>1, <2>1 DEF Pending, TypeOK
        <3> QED  BY <1>1, <3>1 DEF Exact, LeadsBack
    <2>6. OneAtATime(p)'
        BY <1>1, <2>1, <2>2 DEF OneAtATime, Exact, TypeOK, Indexing
    <2>7. \A w \in Uploads : p \in Claims(req[w]) => Cleared(w, p)'
        BY <1>1, <2>1, <2>3 DEF Exact, Cleared, TypeOK
    <2> QED  BY <1>1, <2>4, <2>5, <2>6, <2>7 DEF Exact
<1> QED  BY <1>2, <1>3, <1>4

\* After the GETs, what lists p is among the roots u has read: while u is
\* inside, nobody else sets p.
LEMMA ExactGet ==
    ASSUME TypeOK, NEW p \in Parcels, Exact(p), NEW u \in Uploads, GetParcelCID(u)
    PROVE  Exact(p)'
<1> USE DEF index, publish
<1>1. /\ pc[u] = "get"
      /\ UNCHANGED <<parcelRoot, sceneParcels, req>> /\ Lists(p)' = Lists(p)
      /\ old' = [old EXCEPT ![u] = @ \cup {parcelRoot[Here(u)]}]
      /\ pc' = [pc EXCEPT ![u] = IF AtLast(u) THEN "del" ELSE "get"]
      /\ \A w \in Uploads \ {u} : idx'[w] = idx[w]
      /\ Here(u) = req[u].scene[idx[u]]
      /\ idx[u] \in Nat
    BY DEF GetParcelCID, Goto, NextParcel, TypeOK, Here, Lists
<1>2. CASE p \notin Claims(req[u])
    BY <1>1, <1>2, ExactElsewhere DEF Step, Progress
<1>3. CASE p \in Claims(req[u])
    <2>1. ListedOnce(p)'
        BY <1>1 DEF Exact, ListedOnce
    <2>2. LeadsBack(p)'
        <3>1. \A w \in Uploads : Pending(w, p) => Pending(w, p)'
            BY <1>1 DEF Pending, TypeOK
        <3> QED  BY <1>1, <3>1 DEF Exact, LeadsBack
    <2>3. OneAtATime(p)'
        BY <1>1 DEF Exact, OneAtATime, TypeOK, Indexing
    <2>4. \A w \in Uploads \ {u} : p \in Claims(req[w]) => Cleared(w, p)'
        BY <1>1 DEF Exact, Cleared, TypeOK
    <2>5. /\ \A i \in 1 .. idx[u] - 1 : req[u].scene[i] = p => parcelRoot[p] \in old'[u]
          /\ Here(u) = p => parcelRoot[p] \in old'[u]
        BY <1>1, <1>3 DEF Exact, Cleared, TypeOK
    <2>6. CASE ~ AtLast(u)
        <3>1. pc'[u] = "get" /\ idx'[u] = idx[u] + 1
            BY <1>1, <2>6 DEF GetParcelCID, NextParcel, TypeOK
        <3>2. \A i \in 1 .. idx'[u] - 1 : req[u].scene[i] = p => parcelRoot[p] \in old'[u]
            BY <1>1, <2>5, <3>1
        <3>3. Cleared(u, p)'
            BY <1>1, <3>1, <3>2 DEF Cleared
        <3> QED  BY <1>1, <2>1, <2>2, <2>3, <2>4, <3>3 DEF Exact
    <2>7. CASE AtLast(u)
        <3>1. pc'[u] = "del"
            BY <1>1, <2>7 DEF TypeOK
        <3>2. parcelRoot[p] \in old'[u]
            BY <1>3, <2>5, <2>7, LoopDone
        <3>3. \A w \in Uploads : ~ Pending(w, p)
            BY <1>1, <1>3, PendingClaims DEF Exact, OneAtATime, Indexing
        <3>4. Lists(p) \subseteq old'[u]
            BY <3>2, <3>3 DEF Exact, LeadsBack
        <3>5. Cleared(u, p)'
            BY <1>1, <3>1, <3>4 DEF Cleared
        <3> QED  BY <1>1, <2>1, <2>2, <2>3, <2>4, <3>5 DEF Exact
    <2> QED  BY <2>6, <2>7
<1> QED  BY <1>2, <1>3

\* A DEL takes p off one list, and that off what u has left to delete.
LEMMA ExactDelete ==
    ASSUME TypeOK, NEW p \in Parcels, Exact(p), NEW u \in Uploads,
           NEW s \in Roots \cup {NoRoot}, DeleteOldScene(u, s)
    PROVE  Exact(p)'
<1> USE DEF index, publish
<1>1. /\ pc[u] = "del"
      /\ UNCHANGED <<parcelRoot, req, idx>>
      /\ old' = [old EXCEPT ![u] = @ \ {s}]
      /\ pc' = [pc EXCEPT ![u] = IF old[u] = {s} THEN "push" ELSE "del"]
    BY DEF DeleteOldScene, Goto
<1>2. Lists(p)' = Lists(p) \ {s}
    BY DEF DeleteOldScene, Lists, Range
<1>3. CASE p \notin Claims(req[u])
    BY <1>1, <1>2, <1>3, ExactElsewhere DEF Step, Progress
<1>4. CASE p \in Claims(req[u])
    <2>1. ListedOnce(p)'
        BY <1>2 DEF Exact, ListedOnce
    <2>2. LeadsBack(p)'
        <3>1. \A w \in Uploads : Pending(w, p) => Pending(w, p)'
            BY <1>1 DEF Pending, TypeOK
        <3> QED  BY <1>1, <1>2, <3>1 DEF Exact, LeadsBack
    <2>3. OneAtATime(p)'
        BY <1>1 DEF Exact, OneAtATime, TypeOK, Indexing
    <2>4. \A w \in Uploads \ {u} : p \in Claims(req[w]) => Cleared(w, p)'
        BY <1>1, <1>2 DEF Exact, Cleared, TypeOK
    <2>5. Lists(p)' \subseteq old[u] \ {s}
        BY <1>1, <1>2, <1>4 DEF Exact, Cleared
    <2>6. pc'[u] = IF old[u] = {s} THEN "push" ELSE "del"
        BY <1>1 DEF TypeOK
    <2>7. Cleared(u, p)'
        BY <1>1, <2>5, <2>6 DEF Cleared, TypeOK
    <2> QED  BY <1>1, <2>1, <2>2, <2>3, <2>4, <2>7 DEF Exact
<1> QED  BY <1>3, <1>4

\* The list LPUSH leaves under the root of u holds the parcels u claims.
LEMMA PushedRange ==
    ASSUME TypeOK, NEW u \in Uploads, NEW r \in Roots
    PROVE  Range(Pushed(u)[r]) = IF r = req[u].root
                                 THEN Claims(req[u]) \cup Range(sceneParcels[r])
                                 ELSE Range(sceneParcels[r])
<1>1. req[u].root \in Roots /\ req[u].scene \in Seq(Parcels)
      /\ sceneParcels[r] \in Seq(Parcels)
    BY RequestFacts DEF TypeOK
<1>2. Range(Reverse(req[u].scene) \o sceneParcels[r])
          = Claims(req[u]) \cup Range(sceneParcels[r])
    BY <1>1, ReverseFacts, ConcatFacts DEF Claims
<1> QED  BY <1>1, <1>2 DEF Pushed, TypeOK

\* When u pushes p nothing lists it, and its SET is ahead.
LEMMA ExactPush ==
    ASSUME TypeOK, PublishInv, NEW p \in Parcels, Exact(p), NEW u \in Uploads,
           PushParcels(u) \/ PushError(u)
    PROVE  Exact(p)'
<1> USE DEF index, publish, work
<1>1. /\ pc[u] = "push"
      /\ UNCHANGED <<parcelRoot, req, idx, old>>
      /\ sceneParcels' \in {sceneParcels, Pushed(u)}
      /\ \E stage \in {"set", "setx"} : pc' = [pc EXCEPT ![u] = stage]
    BY DEF PushParcels, PushError, Goto
<1>2. \/ Lists(p)' = Lists(p)
      \/ p \in Claims(req[u]) /\ Lists(p)' = Lists(p) \cup {req[u].root}
    <2>1. CASE sceneParcels' = sceneParcels
        BY <2>1 DEF Lists
    <2>2. CASE sceneParcels' = Pushed(u)
        <3>1. \A r \in Roots : Range(sceneParcels'[r]) =
                  IF r = req[u].root THEN Claims(req[u]) \cup Range(sceneParcels[r])
                                     ELSE Range(sceneParcels[r])
            BY <2>2, PushedRange
        <3>2. req[u].root \in Roots
            BY RequestFacts DEF TypeOK
        <3> QED  BY <3>1, <3>2 DEF Lists
    <2> QED  BY <1>1, <2>1, <2>2
<1>3. CASE p \notin Claims(req[u])
    BY <1>1, <1>2, <1>3, ExactElsewhere DEF Step, Progress
<1>4. CASE p \in Claims(req[u])
    <2>1. Lists(p) = {} /\ Lists(p)' \subseteq {req[u].root}
        BY <1>1, <1>2, <1>4 DEF Exact, Cleared
    <2>2. Pending(u, p)'
        <3>1. idx[u] = 1 /\ req[u].scene \in Seq(Parcels)
            BY <1>1, RequestFacts DEF PublishInv, Published, TypeOK
        <3> QED  BY <1>1, <1>4, <3>1 DEF Pending, Claims, Range, TypeOK
    <2>3. ListedOnce(p)'
        BY <2>1 DEF ListedOnce
    <2>4. LeadsBack(p)'
        BY <1>1, <2>1, <2>2 DEF LeadsBack
    <2>5. OneAtATime(p)'
        BY <1>1 DEF Exact, OneAtATime, TypeOK, Indexing
    <2>6. \A w \in Uploads \ {u} : p \in Claims(req[w]) => pc'[w] \notin Indexing
        BY <1>1, <1>4 DEF Exact, OneAtATime, TypeOK, Indexing
    <2>7. \A w \in Uploads : p \in Claims(req[w]) => Cleared(w, p)'
        BY <1>1, <2>1, <2>6 DEF Cleared, TypeOK, Indexing
    <2> QED  BY <1>1, <2>3, <2>4, <2>5, <2>7 DEF Exact
<1> QED  BY <1>3, <1>4

\* A SET of p makes it lead back to the list; one of another parcel leaves
\* p pending.
LEMMA ExactSet ==
    ASSUME TypeOK, NEW p \in Parcels, Exact(p), NEW u \in Uploads, SetParcel(u)
    PROVE  Exact(p)'
<1> USE DEF index, publish
<1> DEFINE h == Here(u)
<1>1. /\ pc[u] \in {"set", "setx"}
      /\ UNCHANGED <<sceneParcels, req, old>> /\ Lists(p)' = Lists(p)
      /\ parcelRoot' = [parcelRoot EXCEPT ![h] = req[u].root]
      /\ h \in Parcels /\ h \in Claims(req[u]) /\ h = req[u].scene[idx[u]]
      /\ \A w \in Uploads \ {u} : idx'[w] = idx[w] /\ pc'[w] = pc[w]
      /\ idx[u] \in Nat /\ Len(req[u].scene) \in Nat
    BY LoopType, RequestFacts DEF SetParcel, Goto, NextParcel, TypeOK, Here, Lists
<1>2. \/ pc'[u] = pc[u] /\ idx'[u] = idx[u] + 1
      \/ pc'[u] \in {"flag", "error"} /\ AtLast(u)
    <2>1. CASE ~ AtLast(u)
        BY <1>1, <2>1 DEF SetParcel, NextParcel, Goto, TypeOK
    <2>2. CASE AtLast(u)
        BY <1>1, <2>2 DEF SetParcel, Goto, TypeOK
    <2> QED  BY <2>1, <2>2
<1>3. parcelRoot'[p] = IF p = h THEN req[u].root ELSE parcelRoot[p]
    BY <1>1 DEF TypeOK
<1> HIDE DEF h
<1>4. CASE p \notin Claims(req[u])
    BY <1>1, <1>3, <1>4, ExactElsewhere DEF Step, Progress
<1>5. CASE p \in Claims(req[u])
    <2>1. Lists(p) \subseteq {req[u].root}
        BY <1>1, <1>5 DEF Exact, Cleared
    <2>2. ListedOnce(p)'
        BY <1>1 DEF Exact, ListedOnce
    <2>3. LeadsBack(p)'
        <3>1. CASE p = h
            BY <1>1, <1>3, <2>1, <3>1 DEF LeadsBack
        <3>2. CASE p # h
            <4>1. ASSUME NEW w \in Uploads, Pending(w, p) PROVE Pending(w, p)'
                <5>1. CASE w # u
                    BY <1>1, <4>1, <5>1 DEF Pending
                <5>2. CASE w = u
                    <6>1. PICK i \in idx[u] .. Len(req[u].scene) : req[u].scene[i] = p
                        BY <4>1, <5>2 DEF Pending
                    <6>2. i \in idx[u] + 1 .. Len(req[u].scene)
                        BY <1>1, <3>2, <6>1
                    <6>3. ~ AtLast(u)
                        BY <1>1, <6>2 DEF AtLast
                    <6>4. pc'[u] = pc[u] /\ idx'[u] = idx[u] + 1
                        BY <1>1, <1>2, <6>3
                    <6> QED  BY <1>1, <5>2, <6>1, <6>2, <6>4 DEF Pending
                <5> QED  BY <5>1, <5>2
            <4> QED  BY <1>1, <1>3, <3>2, <4>1 DEF Exact, LeadsBack
        <3> QED  BY <3>1, <3>2
    <2>4. OneAtATime(p)'
        BY <1>1, <1>2 DEF Exact, OneAtATime, Indexing
    <2>5. \A w \in Uploads \ {u} : p \in Claims(req[w]) => pc'[w] \notin Indexing
        BY <1>1, <1>5 DEF Exact, OneAtATime, Indexing
    <2>6. \A w \in Uploads : p \in Claims(req[w]) => Cleared(w, p)'
        BY <1>1, <1>2, <2>1, <2>5 DEF Cleared, Indexing
    <2> QED  BY <1>1, <2>2, <2>3, <2>4, <2>6 DEF Exact
<1> QED  BY <1>4, <1>5

LEMMA ExactStep ==
    ASSUME TypeOK, PublishInv, [Next]_vars, NEW p \in Parcels, p \in Quiet', Exact(p)
    PROVE  Exact(p)'
<1> USE DEF store, index, publish, work, history
<1>1. ASSUME NEW u \in Uploads,
             \/ AcceptUpload(u) \/ RejectUpload(u)
             \/ \E c \in Cids : SaveFile(u, c)
             \/ \E e \in FileMetadata : StoreContent(u, e)
             \/ SetProcessedParcel(u)
             \/ StoreMetadata(u) \/ SaveSceneCid(u) \/ SaveRootCid(u)
      PROVE  Exact(p)'
    <2>1. /\ UNCHANGED <<parcelRoot, sceneParcels, req>> /\ Lists(p)' = Lists(p)
          /\ pc[u] \notin {"set", "setx"} /\ pc'[u] \notin Indexing
        BY <1>1 DEF AcceptUpload, RejectUpload, SaveFile, StoreContent, Lists, Indexing,
           SetProcessedParcel, StoreMetadata, SaveSceneCid, SaveRootCid, Goto, TypeOK
    <2>2. Step(u)
        BY <1>1 DEF Step, Progress
    <2>3. \A w \in Uploads \ {u} : pc'[w] = pc[w] /\ idx'[w] = idx[w] /\ old'[w] = old[w]
        BY <2>2, StepIsLocal
    <2> QED  BY <2>1, <2>3, ExactKept
<1>2. ASSUME NEW u \in Uploads, Fail(u) PROVE Exact(p)'
    <2>1. /\ UNCHANGED <<parcelRoot, sceneParcels, req, idx, old>> /\ Lists(p)' = Lists(p)
          /\ \A w \in Uploads \ {u} : pc'[w] = pc[w]
          /\ pc'[u] \in {"error", "torn"}
          /\ pc[u] \in {"set", "setx"} => pc'[u] = "torn"
        BY <1>2 DEF Fail, Goto, TypeOK, Lists
    <2>2. p \in Claims(req[u]) => pc[u] \notin {"set", "setx"}
        BY <2>1 DEF Quiet
    <2>3. pc'[u] \notin Indexing
        BY <2>1 DEF Indexing
    <2> QED  BY <2>1, <2>2, <2>3, ExactKept
<1>3. ASSUME NEW c \in Cids, CheckContentInStorage(c) PROVE Exact(p)'
    BY <1>3, ExactKept DEF CheckContentInStorage, Lists
<1>4. CASE UNCHANGED vars
    BY <1>4, ExactKept DEF vars, Lists
<1>5. ASSUME NEW u \in Uploads,
             \/ AddCID(u) \/ GetParcelCID(u)
             \/ \E r \in Roots \cup {NoRoot} : DeleteOldScene(u, r)
             \/ PushParcels(u) \/ PushError(u) \/ SetParcel(u)
      PROVE  Exact(p)'
    <2>1. p \notin overlap'
        BY DEF Quiet
    <2> QED  BY <1>5, <2>1, ExactEnter, ExactGet, ExactDelete, ExactPush, ExactSet
<1> QED  BY <1>1, <1>2, <1>3, <1>4, <1>5 DEF Next, Step, Progress

\* No parcel becomes quiet again.
LEMMA QuietBefore ==
    ASSUME TypeOK, [Next]_vars
    PROVE  Quiet' \subseteq Quiet
<1>1. overlap \subseteq overlap'
    BY DEF Next, Step, Progress, vars, store, index, publish, work, history,
       AcceptUpload, RejectUpload, AddCID, GetParcelCID, PushParcels, PushError,
       SetParcel, SetProcessedParcel, StoreMetadata, SaveSceneCid, SaveRootCid,
       Fail, SaveFile, StoreContent, DeleteOldScene, CheckContentInStorage,
       EnterIndex
<1>2. ASSUME NEW w \in Uploads PROVE pc[w] = "torn" => pc'[w] = "torn"
    <2> USE DEF vars, store, index, publish, work, history
    <2>1. CASE Step(w)
        BY <2>1 DEF Step, Progress,
           AcceptUpload, RejectUpload, AddCID, GetParcelCID, PushParcels, PushError,
           SetParcel, SetProcessedParcel, StoreMetadata, SaveSceneCid, SaveRootCid,
           Fail, SaveFile, StoreContent, DeleteOldScene, InFlight, Indexing, Settling
    <2>2. CASE \E u \in Uploads \ {w} : Step(u)
        BY <2>2, StepIsLocal
    <2>3. CASE \E c \in Cids : CheckContentInStorage(c)
        BY <2>3 DEF CheckContentInStorage
    <2>4. CASE UNCHANGED vars
        BY <2>4
    <2> QED  BY <2>1, <2>2, <2>3, <2>4 DEF Next
<1>3. req' = req
    BY NothingTakenBack
<1> QED  BY <1>1, <1>2, <1>3 DEF Quiet

LEMMA InitQuiet == Init => QuietInv
BY InitExact DEF QuietInv, Quiet

LEMMA QuietStep == TypeOK /\ PublishInv /\ QuietInv /\ [Next]_vars => QuietInv'
<1> SUFFICES ASSUME TypeOK, PublishInv, QuietInv, [Next]_vars, NEW p \in Quiet'
             PROVE  Exact(p)'
    BY DEF QuietInv
<1>1. p \in Quiet /\ p \in Parcels
    BY QuietBefore DEF Quiet
<1> QED  BY <1>1, ExactStep DEF QuietInv

LEMMA ExactIsUnique == ASSUME TypeOK, NEW p, Exact(p) PROVE UniqueParcel(p)
BY PendingClaims DEF Exact, LeadsBack, UniqueParcel

(***************************************************************************)
(* A parcel that no two uploads were in SetSceneParcels for at once, and   *)
(* that no upload stopped among its SETs for, is listed by at most one     *)
(* scene and leads back to it, whatever happens to other parcels.          *)
(***************************************************************************)
THEOREM QuietIndexHolds == Spec => []QuietIndex
<1>1. TypeOK /\ QuietInv => QuietIndex
    BY ExactIsUnique DEF QuietInv, QuietIndex
<1> QED  BY <1>1, TypeCorrect, PublishInvariant, InitQuiet, QuietStep, PTL DEF Spec

(***************************************************************************)
(* Quiet executions implement the map of disjoint scenes.                  *)
(***************************************************************************)

LEMMA InitRefines == Init => Map!SMInit
BY DEF Init, Map!SMInit, Range

\* Only these steps change a list of parcels.
LEMMA ListWriters ==
    ASSUME [Next]_vars, sceneParcels' # sceneParcels
    PROVE  \E u \in Uploads :
               \/ \E r \in Roots \cup {NoRoot} : DeleteOldScene(u, r)
               \/ PushParcels(u) \/ PushError(u)
BY DEF Next, Step, Progress, vars, store, index, publish, work, history,
       AcceptUpload, RejectUpload, AddCID, GetParcelCID, PushParcels, PushError,
       SetParcel, SetProcessedParcel, StoreMetadata, SaveSceneCid, SaveRootCid,
       Fail, SaveFile, StoreContent, DeleteOldScene, CheckContentInStorage

LEMMA StepRefines ==
    ASSUME TypeOK, \A p \in Parcels : Exact(p), [Next]_vars
    PROVE  [Map!SMNext]_([r \in Roots |-> Range(sceneParcels[r])])
<1> DEFINE live == [r \in Roots |-> Range(sceneParcels[r])]
           live1 == [r \in Roots |-> Range(sceneParcels'[r])]
<1> SUFFICES Map!SMNext \/ live1 = live
    OBVIOUS
<1>1. CASE sceneParcels' = sceneParcels
    BY <1>1
<1>2. ASSUME NEW u \in Uploads, NEW s \in Roots \cup {NoRoot}, DeleteOldScene(u, s)
      PROVE  Map!SMNext \/ live1 = live
    <2>1. \A r \in Roots : live1[r] = IF r = s THEN {} ELSE live[r]
        BY <1>2 DEF DeleteOldScene, Range
    <2>2. CASE s \notin Roots \/ live[s] = {}
        <3>1. \A r \in Roots : live1[r] = live[r]
            BY <2>1, <2>2
        <3> QED  BY <3>1
    <2>3. CASE s \in Roots /\ live[s] # {}
        <3>1. live1 = [live EXCEPT ![s] = {}]
            BY <2>1, <2>3
        <3>2. Map!Evict(s)
            BY <2>3, <3>1 DEF Map!Evict
        <3> QED  BY <2>3, <3>2 DEF Map!SMNext
    <2> QED  BY <2>2, <2>3
<1>3. ASSUME NEW u \in Uploads, PushParcels(u) \/ PushError(u)
      PROVE  Map!SMNext \/ live1 = live
    <2>1. pc[u] = "push" /\ sceneParcels' \in {sceneParcels, Pushed(u)}
        BY <1>3 DEF PushParcels, PushError
    <2>2. CASE sceneParcels' = sceneParcels
        BY <2>2
    <2>3. CASE sceneParcels' = Pushed(u)
        <3>1. /\ req[u].root \in Roots
              /\ Claims(req[u]) \in SUBSET Parcels
              /\ Claims(req[u]) # {}
            BY RequestFacts DEF TypeOK
        <3>2. live1 = [live EXCEPT ![req[u].root] = @ \cup Claims(req[u])]
            BY <2>3, <3>1, PushedRange
        <3>3. \A r \in Roots : live[r] \cap Claims(req[u]) = {}
            BY <2>1, <3>1 DEF Exact, Cleared, Lists
        <3>4. Map!Install(req[u].root, Claims(req[u]))
            BY <3>1, <3>2, <3>3 DEF Map!Install
        <3> QED  BY <3>1, <3>4 DEF Map!SMNext
    <2> QED  BY <2>1, <2>2, <2>3
<1> QED  BY <1>1, <1>2, <1>3, ListWriters

(***************************************************************************)
(* Every quiet execution of the uploads is, for whoever looks at the lists *)
(* of parcels, a behaviour of SceneMap.                                    *)
(***************************************************************************)
THEOREM QuietRefinesSceneMap == QuietSpec => ImplementsSceneMap
<1> DEFINE Inv == TypeOK /\ PublishInv /\ QuietInv /\ Quiet = Parcels
<1>1. Init => Inv
    BY InitType, InitPublish, InitQuiet DEF Init, Quiet
<1>2. Inv /\ [QuietNext]_vars => Inv'
    <2>1. UNCHANGED vars => Quiet' = Quiet
        BY DEF vars, history, work, Quiet
    <2>2. Inv /\ [QuietNext]_vars => [Next]_vars /\ Quiet' = Parcels
        BY <2>1 DEF QuietNext
    <2> QED  BY <2>2, StepType, PublishStep, QuietStep
<1>3. Inv /\ [QuietNext]_vars => [Map!SMNext]_([r \in Roots |-> Range(sceneParcels[r])])
    BY StepRefines DEF QuietNext, QuietInv
<1> QED  BY <1>1, <1>2, <1>3, InitRefines, PTL
         DEF QuietSpec, ImplementsSceneMap, Map!SMSpec

(***************************************************************************)
(* What SceneMap promises: no two scenes ever list the same parcel, the    *)
(* uniqueness data/redis.go:188-189 asks for.                              *)
(***************************************************************************)
THEOREM SceneMapDisjoint == Map!SMSpec => [](Map!SMTypeOK /\ Map!Disjoint)
<1> DEFINE live == [r \in Roots |-> Range(sceneParcels[r])]
<1>1. Map!SMInit => Map!SMTypeOK /\ Map!Disjoint
    BY DEF Map!SMInit, Map!SMTypeOK, Map!Disjoint
<1>2. Map!SMTypeOK /\ Map!Disjoint /\ [Map!SMNext]_live => Map!SMTypeOK' /\ Map!Disjoint'
    <2> SUFFICES ASSUME Map!SMTypeOK, Map!Disjoint, [Map!SMNext]_live
                 PROVE  Map!SMTypeOK' /\ Map!Disjoint'
        OBVIOUS
    <2>1. ASSUME NEW r \in Roots, Map!Evict(r) PROVE Map!SMTypeOK' /\ Map!Disjoint'
        BY <2>1 DEF Map!Evict, Map!SMTypeOK, Map!Disjoint
    <2>2. ASSUME NEW r \in Roots, NEW S \in SUBSET Parcels, Map!Install(r, S)
          PROVE  Map!SMTypeOK' /\ Map!Disjoint'
        <3>1. Map!SMTypeOK'
            BY <2>2 DEF Map!Install, Map!SMTypeOK
        <3>2. ASSUME NEW a \in Roots, NEW b \in Roots, a # b
              PROVE  live'[a] \cap live'[b] = {}
            <4>1. live[a] \cap live[b] = {} /\ live[a] \cap S = {} /\ live[b] \cap S = {}
                BY <2>2, <3>2 DEF Map!Install, Map!Disjoint
            <4>2. live' = [live EXCEPT ![r] = @ \cup S]
                BY <2>2 DEF Map!Install
            <4> HIDE DEF live
            <4>3. live \in [Roots -> SUBSET Parcels]
                BY DEF Map!SMTypeOK, live
            <4>4. \/ live'[a] = live[a] /\ live'[b] \subseteq live[b] \cup S
                  \/ live'[b] = live[b] /\ live'[a] \subseteq live[a] \cup S
                BY <3>2, <4>2, <4>3
            <4> QED  BY <4>1, <4>4
        <3> QED  BY <3>1, <3>2 DEF Map!Disjoint
    <2>3. CASE live' = live
        BY <2>3 DEF Map!SMTypeOK, Map!Disjoint
    <2> QED  BY <2>1, <2>2, <2>3 DEF Map!SMNext
<1> QED  BY <1>1, <1>2, PTL DEF Map!SMSpec

(***************************************************************************)
(* So the lists in Redis are disjoint in every state of a quiet execution, *)
(* while an upload moves parcels from one scene to another too.            *)
(***************************************************************************)
COROLLARY QuietScenesDisjoint == QuietSpec => []DisjointScenes
<1>1. Map!Disjoint => DisjointScenes
    BY DEF Map!Disjoint, DisjointScenes
<1> QED  BY <1>1, QuietRefinesSceneMap, SceneMapDisjoint, PTL DEF ImplementsSceneMap

-------------------------------------------------------------------------------
(***************************************************************************)
(* Where parcel keys and lists come from: every root that a parcel leads   *)
(* to, that an upload has read from a parcel of its own, or that has a     *)
(* list, is the root of an upload for these parcels.                       *)
(***************************************************************************)
OriginInv ==
    /\ \A p \in Parcels : parcelRoot[p] # NoRoot =>
          \E w \in Uploads : req[w].root = parcelRoot[p] /\ p \in Claims(req[w])
    /\ \A u \in Uploads : \A r \in old[u] \ {NoRoot} :
          \E w \in Uploads : req[w].root = r /\ ShareParcel(req[w], req[u])
    /\ \A r \in Roots : sceneParcels[r] # <<>> =>
          \E w \in Uploads : req[w].root = r /\ Claims(req[w]) \subseteq Range(sceneParcels[r])

\* While an upload is alone, no upload related to it is being published.
LoneInv ==
    \A u \in Uploads : alone[u] =>
        /\ pc[u] \notin {"idle", "save", "record"}
        /\ \A v \in Uploads \ {u} :
              pc[v] \in Indexing \cup Settling => ~ Related(req[u], req[v])

\* What an upload that is alone has published can be seen.
Visible(u) ==
    LET q == req[u] IN
    /\ pc[u] = "set" => \A i \in 1 .. idx[u] - 1 : parcelRoot[q.scene[i]] = q.root
    /\ pc[u] \in Settling \cup {"ok"} => \A p \in Claims(q) : parcelRoot[p] = q.root
    /\ pc[u] \in Settling \cup {"set", "ok"} =>
          IsPrefix(Reverse(q.scene), sceneParcels[q.root])
    /\ pc[u] \in {"root", "ok"} => sceneOf[q.root] = SceneCid(q)
    /\ pc[u] = "ok" => rootOf[SceneCid(q)] = q.root

VisibleInv == \A u \in Uploads : Undisturbed(u) => Visible(u)

LEMMA InitOrigin == Init => OriginInv /\ LoneInv /\ VisibleInv
<1> SUFFICES ASSUME Init PROVE OriginInv /\ LoneInv /\ VisibleInv
    OBVIOUS
<1>1. OriginInv
    BY DEF Init, OriginInv
<1>2. \A u \in Uploads : ~ alone[u]
    BY DEF Init
<1> QED  BY <1>1, <1>2 DEF LoneInv, VisibleInv, Undisturbed

\* Only a GET reads an old root, and only a DEL forgets one.
LEMMA OldWriters ==
    ASSUME [Next]_vars, old' # old
    PROVE  \E u \in Uploads :
               GetParcelCID(u) \/ \E r \in Roots \cup {NoRoot} : DeleteOldScene(u, r)
BY DEF Next, Step, Progress, vars, store, index, publish, work, history,
       AcceptUpload, RejectUpload, AddCID, PushParcels, PushError, SetParcel,
       SetProcessedParcel, StoreMetadata, SaveSceneCid, SaveRootCid, Fail, SaveFile,
       StoreContent, CheckContentInStorage

LEMMA OriginStep == TypeOK /\ OriginInv /\ [Next]_vars => OriginInv'
<1> SUFFICES ASSUME TypeOK, OriginInv, [Next]_vars PROVE OriginInv'
    OBVIOUS
<1>1. req' = req
    BY NothingTakenBack
<1>2. ASSUME NEW p \in Parcels, parcelRoot'[p] # NoRoot
      PROVE  \E w \in Uploads : req[w].root = parcelRoot'[p] /\ p \in Claims(req[w])
    <2>1. CASE parcelRoot'[p] = parcelRoot[p]
        BY <1>2, <2>1 DEF OriginInv
    <2>2. CASE parcelRoot'[p] # parcelRoot[p]
        <3>1. PICK u \in Uploads : SetParcel(u)
            BY <2>2, ParcelKeyWriter
        <3>2. Here(u) \in Claims(req[u])
            BY RequestFacts DEF TypeOK, Here
        <3>3. p = Here(u) /\ parcelRoot'[p] = req[u].root
            BY <2>2, <3>1 DEF SetParcel, TypeOK
        <3> QED  BY <3>2, <3>3
    <2> QED  BY <2>1, <2>2
<1>3. ASSUME NEW u \in Uploads, NEW r \in old'[u] \ {NoRoot}
      PROVE  \E w \in Uploads : req[w].root = r /\ ShareParcel(req[w], req[u])
    <2>1. CASE r \in old[u]
        BY <1>3, <2>1 DEF OriginInv
    <2>2. CASE r \notin old[u]
        <3>1. PICK v \in Uploads :
                  GetParcelCID(v) \/ \E s \in Roots \cup {NoRoot} : DeleteOldScene(v, s)
            BY <2>2, OldWriters
        <3>2. GetParcelCID(u) /\ r = parcelRoot[Here(u)]
            <4>1. ASSUME NEW s \in Roots \cup {NoRoot}, DeleteOldScene(v, s) PROVE FALSE
                <5>1. old' = [old EXCEPT ![v] = old[v] \ {s}]
                    BY <4>1 DEF DeleteOldScene
                <5> QED  BY <1>3, <2>2, <5>1 DEF TypeOK
            <4>2. GetParcelCID(v) /\ old' = [old EXCEPT ![v] = old[v] \cup {parcelRoot[Here(v)]}]
                BY <3>1, <4>1 DEF GetParcelCID
            <4> QED  BY <1>3, <2>2, <4>2 DEF TypeOK
        <3>3. Here(u) \in Claims(req[u]) /\ Here(u) \in Parcels
            BY RequestFacts DEF TypeOK, Here
        <3>4. PICK w \in Uploads : req[w].root = r /\ Here(u) \in Claims(req[w])
            BY <1>3, <3>2, <3>3 DEF OriginInv
        <3> QED  BY <3>3, <3>4 DEF ShareParcel
    <2> QED  BY <2>1, <2>2
<1>4. ASSUME NEW r \in Roots, sceneParcels'[r] # <<>>
      PROVE  \E w \in Uploads : req[w].root = r /\ Claims(req[w]) \subseteq Range(sceneParcels'[r])
    <2>1. CASE sceneParcels'[r] = sceneParcels[r]
        BY <1>4, <2>1 DEF OriginInv
    <2>2. CASE sceneParcels'[r] # sceneParcels[r]
        <3>1. PICK u \in Uploads : \/ \E s \in Roots \cup {NoRoot} : DeleteOldScene(u, s)
                                   \/ PushParcels(u) \/ PushError(u)
            BY <2>2, ListWriters
        <3>2. sceneParcels' = Pushed(u)
            BY <1>4, <2>2, <3>1 DEF DeleteOldScene, PushParcels, PushError
        <3>3. r = req[u].root /\ sceneParcels'[r] = Reverse(req[u].scene) \o sceneParcels[r]
            BY <2>2, <3>2 DEF Pushed, TypeOK
        <3>4. req[u].scene \in Seq(Parcels) /\ sceneParcels[r] \in Seq(Parcels)
            BY RequestFacts DEF TypeOK
        <3>5. Claims(req[u]) \subseteq Range(sceneParcels'[r])
            BY <3>3, <3>4, ReverseFacts, ConcatFacts DEF Claims
        <3> QED  BY <3>3, <3>5
    <2> QED  BY <2>1, <2>2
<1> QED  BY <1>1, <1>2, <1>3, <1>4 DEF OriginInv

LEMMA OriginInvariant == Spec => [](TypeOK /\ OriginInv)
BY TypeCorrect, InitOrigin, OriginStep, PTL DEF Spec

(***************************************************************************)
(* A scene is taken off the list only by an upload that claims one of the  *)
(* parcels it lists, whatever overlaps or fails, if the scene is always    *)
(* uploaded for the same parcels (the DELs of SetSceneParcels).            *)
(***************************************************************************)
THEOREM EvictionJustifiedHolds == Spec => EvictionJustified
<1> DEFINE Justified == \A r \in Roots :
              SameClaims(r) /\ sceneParcels[r] # <<>> /\ sceneParcels'[r] = <<>> =>
                  \E u \in Uploads :
                      /\ pc[u] = "del" /\ old'[u] # old[u]
                      /\ Claims(req[u]) \cap Range(sceneParcels[r]) # {}
<1>1. TypeOK /\ OriginInv /\ [Next]_vars => Justified
    <2> SUFFICES ASSUME TypeOK, OriginInv, [Next]_vars, NEW r \in Roots, SameClaims(r),
                        sceneParcels[r] # <<>>, sceneParcels'[r] = <<>>
                 PROVE  \E u \in Uploads :
                            /\ pc[u] = "del" /\ old'[u] # old[u]
                            /\ Claims(req[u]) \cap Range(sceneParcels[r]) # {}
        OBVIOUS
    <2>1. PICK u \in Uploads : \/ \E s \in Roots \cup {NoRoot} : DeleteOldScene(u, s)
                               \/ PushParcels(u) \/ PushError(u)
        BY ListWriters
    <2>2. sceneParcels' # Pushed(u)
        <3> SUFFICES ASSUME sceneParcels' = Pushed(u) PROVE FALSE
            OBVIOUS
        <3>1. req[u].root = r
            BY DEF Pushed, TypeOK
        <3>2. req[u].scene \in Seq(Parcels) /\ req[u].scene # <<>> /\ sceneParcels[r] \in Seq(Parcels)
            BY RequestFacts DEF TypeOK
        <3>3. Reverse(req[u].scene) \o sceneParcels[r] = <<>>
            BY <3>1 DEF Pushed, TypeOK
        <3>4. Reverse(req[u].scene) \in Seq(Parcels) /\ Len(Reverse(req[u].scene)) # 0
            BY <3>2, ReverseFacts
        <3> QED  BY <3>2, <3>3, <3>4
    <2>3. DeleteOldScene(u, r)
        BY <2>1, <2>2 DEF DeleteOldScene, PushParcels, PushError
    <2>4. pc[u] = "del" /\ r \in old[u] /\ old'[u] # old[u] /\ r # NoRoot
        BY <2>3, NoneAssumption DEF DeleteOldScene, TypeOK
    <2>5. PICK w \in Uploads : req[w].root = r /\ ShareParcel(req[w], req[u])
        BY <2>4 DEF OriginInv
    <2>6. PICK v \in Uploads : req[v].root = r /\ Claims(req[v]) \subseteq Range(sceneParcels[r])
        BY DEF OriginInv
    <2>7. Claims(req[w]) = Claims(req[v])
        BY <2>5, <2>6 DEF SameClaims
    <2> QED  BY <2>4, <2>5, <2>6, <2>7 DEF ShareParcel
<1>2. TypeOK /\ OriginInv /\ [Next]_vars => [Justified]_vars
    BY <1>1
<1> QED  BY <1>2, OriginInvariant, PTL DEF Spec, EvictionJustified

-------------------------------------------------------------------------------
(***************************************************************************)
(* What an acknowledged upload has brought about.                          *)
(***************************************************************************)

LEMMA PrefixFacts ==
    ASSUME NEW S, NEW s \in Seq(S), NEW t \in Seq(S)
    PROVE  IsPrefix(s, s \o t)
<1>1. /\ s \o t \in Seq(S) /\ Len(s \o t) = Len(s) + Len(t)
      /\ \A i \in 1 .. Len(s) : (s \o t)[i] = s[i]
      /\ Len(s) \in Nat /\ Len(t) \in Nat
    OBVIOUS
<1>2. /\ SubSeq(s \o t, 1, Len(s)) \in Seq(S)
      /\ Len(SubSeq(s \o t, 1, Len(s))) = Len(s)
      /\ \A i \in 1 .. Len(s) : SubSeq(s \o t, 1, Len(s))[i] = (s \o t)[i]
    BY <1>1
<1>3. SubSeq(s \o t, 1, Len(s)) = s
    BY <1>1, <1>2
<1>4. SubSeq(s, 1, Len(s)) = s
    BY SubSeqFull
<1> QED  BY <1>1, <1>3, <1>4 DEF IsPrefix

\* Being related is mutual.
LEMMA RelatedFacts ==
    ASSUME NEW q, NEW r
    PROVE  Related(q, r) <=> Related(r, q)
BY DEF Related, ShareParcel

\* Who enters SetSceneParcels, and what becomes of the ones that are alone.
LEMMA AloneBefore ==
    ASSUME TypeOK, [Next]_vars, NEW u \in Uploads, alone'[u]
    PROVE  \/ alone[u] /\ \A v \in Uploads \ {u} :
                  \/ pc[v] \in Indexing \cup Settling
                  \/ pc'[v] \notin Indexing \cup Settling
                  \/ ~ Related(req[u], req[v])
           \/ /\ pc[u] = "record" /\ pc'[u] = "get"
              /\ \A v \in Uploads \ {u} :
                    /\ pc'[v] = pc[v]
                    /\ pc[v] \in Indexing \cup Settling => ~ Related(req[u], req[v])
<1>1. ASSUME NEW v \in Uploads, AddCID(v), EnterIndex(v), pc' = [pc EXCEPT ![v] = "get"]
      PROVE  \/ alone[u] /\ \A w \in Uploads \ {u} :
                    \/ pc[w] \in Indexing \cup Settling
                    \/ pc'[w] \notin Indexing \cup Settling
                    \/ ~ Related(req[u], req[w])
             \/ /\ pc[u] = "record" /\ pc'[u] = "get"
                /\ \A w \in Uploads \ {u} :
                      /\ pc'[w] = pc[w]
                      /\ pc[w] \in Indexing \cup Settling => ~ Related(req[u], req[w])
    <2>1. CASE v = u
        BY <1>1, <2>1 DEF AddCID, EnterIndex, TypeOK
    <2>2. CASE v # u
        <3>1. alone[u] /\ ~ Related(req[v], req[u])
            BY <1>1, <2>2 DEF EnterIndex
        <3>2. \A w \in Uploads \ {v} : pc'[w] = pc[w]
            BY <1>1 DEF TypeOK
        <3> QED  BY <3>1, <3>2, RelatedFacts
    <2> QED  BY <2>1, <2>2
<1>2. CASE /\ alone' = alone
           /\ \A v \in Uploads : \/ pc[v] \in Indexing \cup Settling
                                 \/ pc'[v] \notin Indexing \cup Settling
    BY <1>2
<1>3. ASSUME NEW v \in Uploads, Step(v),
             ~ (AddCID(v) /\ EnterIndex(v) /\ pc' = [pc EXCEPT ![v] = "get"])
      PROVE  /\ alone' = alone
             /\ \A w \in Uploads : \/ pc[w] \in Indexing \cup Settling
                                   \/ pc'[w] \notin Indexing \cup Settling
    <2>1. alone' = alone
        BY <1>3 DEF Step, Progress, history, AcceptUpload, RejectUpload, AddCID, GetParcelCID,
           PushParcels, PushError, SetParcel, SetProcessedParcel, StoreMetadata, SaveSceneCid,
           SaveRootCid, Fail, SaveFile, StoreContent, DeleteOldScene, Goto
    <2>2. pc[v] \in Indexing \cup Settling \/ pc'[v] \notin Indexing \cup Settling
        <3>1. CASE \/ AcceptUpload(v) \/ RejectUpload(v) \/ Fail(v)
                   \/ \E c \in Cids : SaveFile(v, c)
            BY <3>1 DEF AcceptUpload, RejectUpload, Fail, SaveFile, Goto, Indexing, Settling, TypeOK
        <3>2. CASE AddCID(v) \/ \E e \in FileMetadata : StoreContent(v, e)
            BY <1>3, <3>2 DEF AddCID, StoreContent, Goto, Indexing, Settling, TypeOK
        <3>3. CASE \/ GetParcelCID(v) \/ PushParcels(v) \/ PushError(v) \/ SetParcel(v)
                   \/ SetProcessedParcel(v) \/ StoreMetadata(v) \/ SaveSceneCid(v) \/ SaveRootCid(v)
                   \/ \E r \in Roots \cup {NoRoot} : DeleteOldScene(v, r)
            BY <3>3 DEF GetParcelCID, PushParcels, PushError, SetParcel, SetProcessedParcel,
               StoreMetadata, SaveSceneCid, SaveRootCid, DeleteOldScene, Indexing, Settling
        <3> QED  BY <1>3, <3>1, <3>2, <3>3 DEF Step, Progress
    <2>3. \A w \in Uploads \ {v} : pc'[w] = pc[w]
        BY <1>3, StepIsLocal
    <2> QED  BY <2>1, <2>2, <2>3
<1>4. CASE UNCHANGED vars \/ \E c \in Cids : CheckContentInStorage(c)
    BY <1>2, <1>4 DEF vars, history, CheckContentInStorage
<1> QED  BY <1>1, <1>2, <1>3, <1>4 DEF Next

LEMMA LoneStep == TypeOK /\ LoneInv /\ [Next]_vars => LoneInv'
<1> SUFFICES ASSUME TypeOK, LoneInv, [Next]_vars, NEW u \in Uploads, alone'[u]
             PROVE  /\ pc'[u] \notin {"idle", "save", "record"}
                    /\ \A v \in Uploads \ {u} :
                          pc'[v] \in Indexing \cup Settling => ~ Related(req[u], req[v])
    BY NothingTakenBack DEF LoneInv
<1>1. CASE /\ pc[u] = "record" /\ pc'[u] = "get"
           /\ \A v \in Uploads \ {u} :
                 /\ pc'[v] = pc[v]
                 /\ pc[v] \in Indexing \cup Settling => ~ Related(req[u], req[v])
    BY <1>1
<1>2. CASE alone[u] /\ \A v \in Uploads \ {u} :
               \/ pc[v] \in Indexing \cup Settling
               \/ pc'[v] \notin Indexing \cup Settling
               \/ ~ Related(req[u], req[v])
    <2>1. pc'[u] \notin {"idle", "save", "record"}
        <3>1. pc[u] \notin {"idle", "save", "record"}
            BY <1>2 DEF LoneInv
        <3>2. CASE pc'[u] = pc[u]
            BY <3>1, <3>2
        <3>3. CASE pc'[u] # pc[u]
            <4>1. Step(u)
                BY <3>3, StepIsLocal DEF Next, vars, CheckContentInStorage
            <4> QED  BY <3>1, <4>1 DEF Step, Progress, AcceptUpload, RejectUpload, AddCID,
                     GetParcelCID, PushParcels, PushError, SetParcel, SetProcessedParcel,
                     StoreMetadata, SaveSceneCid, SaveRootCid, Fail, SaveFile, StoreContent,
                     DeleteOldScene, Goto, TypeOK
        <3> QED  BY <3>2, <3>3
    <2> QED  BY <1>2, <2>1 DEF LoneInv
<1> QED  BY <1>1, <1>2, AloneBefore

\* An unrelated upload does not touch what u has published.
LEMMA StrangerKeeps ==
    ASSUME TypeOK, OriginInv, [Next]_vars, NEW u \in Uploads, SameClaims(req[u].root),
           NEW v \in Uploads \ {u}, Step(v),
           pc[v] \in Indexing \cup Settling => ~ Related(req[u], req[v])
    PROVE  LET q == req[u] IN
           /\ \A p \in Claims(q) : parcelRoot'[p] = parcelRoot[p]
           /\ sceneParcels'[q.root] = sceneParcels[q.root]
           /\ sceneOf'[q.root] = sceneOf[q.root]
           /\ rootOf'[SceneCid(q)] = rootOf[SceneCid(q)]
<1> DEFINE q == req[u]
           s == req[v]
<1>1. q \in Requests /\ s \in Requests /\ q.root \in Roots /\ s.root \in Roots
      /\ Claims(q) \subseteq Parcels
    BY RequestFacts DEF TypeOK
<1>2. ASSUME pc[v] \in Indexing \cup Settling
      PROVE  Claims(q) \cap Claims(s) = {} /\ q.root # s.root /\ SceneCid(q) # SceneCid(s)
    BY <1>2 DEF Related, ShareParcel
<1>3. \A p \in Claims(q) : parcelRoot'[p] = parcelRoot[p]
    <2>1. CASE SetParcel(v)
        <3>1. Here(v) \in Claims(s) /\ parcelRoot' = [parcelRoot EXCEPT ![Here(v)] = s.root]
              /\ pc[v] \in {"set", "setx"}
            BY <1>1, <2>1, RequestFacts DEF SetParcel, Here, TypeOK
        <3> QED  BY <1>1, <1>2, <3>1 DEF TypeOK, Indexing
    <2>2. CASE ~ SetParcel(v)
        BY <2>2 DEF Step, Progress, index, AcceptUpload, RejectUpload, AddCID, GetParcelCID,
           PushParcels, PushError, SetProcessedParcel, StoreMetadata, SaveSceneCid, SaveRootCid,
           Fail, SaveFile, StoreContent, DeleteOldScene
    <2> QED  BY <2>1, <2>2
<1>4. sceneParcels'[q.root] = sceneParcels[q.root]
    <2>1. ASSUME NEW r \in Roots \cup {NoRoot}, DeleteOldScene(v, r)
          PROVE  sceneParcels'[q.root] = sceneParcels[q.root]
        <3>1. pc[v] = "del" /\ r \in old[v]
            BY <2>1 DEF DeleteOldScene
        <3>2. CASE r # q.root
            BY <1>1, <2>1, <3>2 DEF DeleteOldScene
        <3>3. CASE r = q.root
            <4>1. PICK w \in Uploads : req[w].root = r /\ ShareParcel(req[w], s)
                BY <1>1, <3>1, <3>3, NoneAssumption DEF OriginInv
            <4>2. Claims(req[w]) = Claims(q)
                BY <3>3, <4>1 DEF SameClaims
            <4> QED  BY <1>2, <3>1, <4>1, <4>2 DEF ShareParcel, Indexing
        <3> QED  BY <3>2, <3>3
    <2>2. CASE PushParcels(v) \/ PushError(v)
        <3>1. pc[v] = "push" /\ sceneParcels' \in {sceneParcels, Pushed(v)}
            BY <2>2 DEF PushParcels, PushError
        <3> QED  BY <1>1, <1>2, <3>1 DEF Pushed, TypeOK, Indexing
    <2>3. CASE sceneParcels' = sceneParcels
        BY <2>3
    <2> QED  BY <2>1, <2>2, <2>3
             DEF Step, Progress, index, AcceptUpload, RejectUpload, AddCID, GetParcelCID, SetParcel,
             SetProcessedParcel, StoreMetadata, SaveSceneCid, SaveRootCid, Fail, SaveFile, StoreContent
<1>5. sceneOf'[q.root] = sceneOf[q.root]
    <2>1. CASE SaveSceneCid(v)
        BY <1>1, <1>2, <2>1 DEF SaveSceneCid, TypeOK, Settling
    <2>2. CASE ~ SaveSceneCid(v)
        BY <2>2 DEF Step, Progress, publish, AcceptUpload, RejectUpload, AddCID, GetParcelCID,
           PushParcels, PushError, SetParcel, SetProcessedParcel, StoreMetadata, SaveRootCid,
           Fail, SaveFile, StoreContent, DeleteOldScene
    <2> QED  BY <2>1, <2>2
<1>6. rootOf'[SceneCid(q)] = rootOf[SceneCid(q)]
    <2>1. CASE SaveRootCid(v)
        BY <1>1, <1>2, <2>1 DEF SaveRootCid, TypeOK, Settling
    <2>2. CASE ~ SaveRootCid(v)
        BY <2>2 DEF Step, Progress, publish, AcceptUpload, RejectUpload, AddCID, GetParcelCID,
           PushParcels, PushError, SetParcel, SetProcessedParcel, StoreMetadata, SaveSceneCid,
           Fail, SaveFile, StoreContent, DeleteOldScene
    <2> QED  BY <2>1, <2>2
<1> QED  BY <1>3, <1>4, <1>5, <1>6

\* The upload's own steps.
LEMMA OwnPush ==
    ASSUME TypeOK, PublishInv, NEW u \in Uploads, PushParcels(u)
    PROVE  Visible(u)'
<1>1. pc'[u] = "set" /\ req' = req /\ idx'[u] = 1 /\ sceneParcels' = Pushed(u)
    BY DEF PushParcels, Goto, TypeOK, work, PublishInv, Published
<1>2. /\ req[u].root \in Roots /\ req[u].scene \in Seq(Parcels)
      /\ sceneParcels[req[u].root] \in Seq(Parcels)
      /\ Reverse(req[u].scene) \in Seq(Parcels)
    BY RequestFacts, ReverseFacts DEF TypeOK
<1>3. IsPrefix(Reverse(req[u].scene), sceneParcels'[req[u].root])
    BY <1>1, <1>2, PrefixFacts DEF Pushed, TypeOK
<1>4. \A i \in 1 .. 1 - 1 : FALSE
    OBVIOUS
<1> QED  BY <1>1, <1>3, <1>4 DEF Visible, Settling

LEMMA OwnSet ==
    ASSUME TypeOK, NEW u \in Uploads, SetParcel(u), Visible(u)
    PROVE  Visible(u)'
<1> DEFINE q == req[u]
<1>1. /\ pc[u] \in {"set", "setx"} /\ UNCHANGED <<sceneParcels, req>>
      /\ parcelRoot' = [parcelRoot EXCEPT ![Here(u)] = q.root]
      /\ Here(u) \in Parcels /\ Here(u) = q.scene[idx[u]]
    BY LoopType DEF SetParcel, Here
<1>2. /\ q.root \in Roots /\ Claims(q) \subseteq Parcels /\ Len(q.scene) \in Nat
      /\ \A i \in 1 .. Len(q.scene) : q.scene[i] \in Claims(q)
      /\ idx[u] \in 1 .. Len(q.scene) /\ idx[u] \in Nat
    BY RequestFacts DEF TypeOK
<1>3. CASE pc[u] = "setx"
    <2>1. pc'[u] \in {"setx", "error"}
        <3>1. CASE AtLast(u)
            BY <1>3, <3>1 DEF SetParcel, Goto, TypeOK
        <3>2. CASE ~ AtLast(u)
            BY <1>3, <3>2 DEF SetParcel, Goto, TypeOK
        <3> QED  BY <3>1, <3>2
    <2> QED  BY <2>1 DEF Visible, Settling
<1>4. CASE pc[u] = "set"
    <2>1. \A i \in 1 .. idx[u] : parcelRoot'[q.scene[i]] = q.root
        <3> TAKE i \in 1 .. idx[u]
        <3>1. q.scene[i] \in Parcels
            BY <1>2
        <3>2. i = idx[u] \/ parcelRoot[q.scene[i]] = q.root
            BY <1>2, <1>4 DEF Visible
        <3> QED  BY <1>1, <3>1, <3>2 DEF TypeOK
    <2>2. IsPrefix(Reverse(q.scene), sceneParcels[q.root])
        BY <1>4 DEF Visible
    <2>3. CASE ~ AtLast(u)
        <3>1. pc'[u] = "set" /\ idx'[u] = idx[u] + 1
            BY <1>4, <2>3 DEF SetParcel, NextParcel, Goto, TypeOK
        <3>2. \A i \in 1 .. idx'[u] - 1 : parcelRoot'[q.scene[i]] = q.root
            BY <1>2, <2>1, <3>1
        <3> QED  BY <1>1, <2>2, <3>1, <3>2 DEF Visible, Settling
    <2>4. CASE AtLast(u)
        <3>1. pc'[u] = "flag"
            BY <1>4, <2>4 DEF SetParcel, Goto, TypeOK
        <3>2. \A p \in Claims(q) : parcelRoot'[p] = q.root
            <4> TAKE p \in Claims(q)
            <4>1. PICK i \in 1 .. Len(q.scene) : q.scene[i] = p
                BY RequestFacts DEF TypeOK, Claims, Range
            <4> QED  BY <1>2, <2>1, <2>4, <4>1 DEF AtLast
        <3> QED  BY <1>1, <2>2, <3>1, <3>2 DEF Visible, Settling
    <2> QED  BY <2>3, <2>4
<1> QED  BY <1>1, <1>3, <1>4

LEMMA OwnSettling ==
    ASSUME TypeOK, NEW u \in Uploads, Visible(u),
           SetProcessedParcel(u) \/ StoreMetadata(u) \/ SaveSceneCid(u) \/ SaveRootCid(u)
    PROVE  Visible(u)'
<1>1. req[u].root \in Roots /\ SceneCid(req[u]) \in Cids \cup {EmptyCid}
    BY RequestFacts, SceneCidType DEF TypeOK
<1>2. req' = req /\ parcelRoot' = parcelRoot /\ sceneParcels' = sceneParcels
    BY DEF SetProcessedParcel, StoreMetadata, SaveSceneCid, SaveRootCid, index, work
<1>3. CASE SetProcessedParcel(u) \/ StoreMetadata(u)
    <2>1. pc[u] \in {"flag", "meta"} /\ pc'[u] \in {"flag", "meta", "scene"}
        BY <1>3 DEF SetProcessedParcel, StoreMetadata, Goto, TypeOK
    <2> QED  BY <1>2, <2>1 DEF Visible, Settling
<1>4. CASE SaveSceneCid(u)
    <2>1. pc[u] = "scene" /\ pc'[u] = "root" /\ sceneOf'[req[u].root] = SceneCid(req[u])
        BY <1>1, <1>4 DEF SaveSceneCid, Goto, TypeOK
    <2> QED  BY <1>2, <2>1 DEF Visible, Settling
<1>5. CASE SaveRootCid(u)
    <2>1. pc[u] = "root" /\ pc'[u] \in {"ok", "error"} /\ sceneOf' = sceneOf
          /\ rootOf'[SceneCid(req[u])] = req[u].root
        BY <1>1, <1>5 DEF SaveRootCid, Goto, TypeOK
    <2> QED  BY <1>2, <2>1 DEF Visible, Settling
<1> QED  BY <1>3, <1>4, <1>5

LEMMA VisibleStep ==
    TypeOK /\ PublishInv /\ OriginInv /\ LoneInv /\ VisibleInv /\ [Next]_vars => VisibleInv'
<1> SUFFICES ASSUME TypeOK, PublishInv, OriginInv, LoneInv, VisibleInv, [Next]_vars,
                    NEW u \in Uploads, Undisturbed(u)'
             PROVE  Visible(u)'
    BY DEF VisibleInv
<1>1. req' = req /\ alone'[u] /\ SameClaims(req[u].root)
    BY NothingTakenBack DEF Undisturbed, SameClaims
<1>2. CASE pc'[u] \in {"idle", "save", "record", "get", "del", "push", "rejected", "error", "torn"}
    BY <1>2 DEF Visible, Settling
<1>3. CASE alone[u]
    <2>1. Visible(u)
        BY <1>1, <1>3 DEF VisibleInv, Undisturbed
    <2>2. ASSUME NEW v \in Uploads \ {u}, Step(v) PROVE Visible(u)'
        <3>1. pc'[u] = pc[u] /\ idx'[u] = idx[u]
            BY <2>2, StepIsLocal
        <3>2. pc[v] \in Indexing \cup Settling => ~ Related(req[u], req[v])
            BY <1>3 DEF LoneInv
        <3>3. \A i \in 1 .. idx[u] - 1 : req[u].scene[i] \in Claims(req[u])
            <4>1. Len(req[u].scene) \in Nat /\ idx[u] \in 1 .. Len(req[u].scene)
                  /\ \A i \in 1 .. Len(req[u].scene) : req[u].scene[i] \in Claims(req[u])
                BY RequestFacts DEF TypeOK
            <4> QED  BY <4>1
        <3> QED  BY <1>1, <2>1, <2>2, <3>1, <3>2, <3>3, StrangerKeeps DEF Visible, Settling
    <2>3. ASSUME Step(u) PROVE Visible(u)'
        <3>1. CASE \/ AcceptUpload(u) \/ RejectUpload(u) \/ Fail(u) \/ AddCID(u)
                   \/ (\E c \in Cids : SaveFile(u, c))
                   \/ (\E e \in FileMetadata : StoreContent(u, e))
            <4>1. pc'[u] \in {"idle", "save", "record", "get", "rejected", "error", "torn"}
                BY <3>1 DEF AcceptUpload, RejectUpload, Fail, AddCID, SaveFile, StoreContent, Goto, TypeOK
            <4> QED  BY <1>2, <4>1
        <3>2. CASE GetParcelCID(u) \/ \E r \in Roots \cup {NoRoot} : DeleteOldScene(u, r)
            <4>1. pc'[u] \in {"get", "del", "push"}
                BY <3>2 DEF GetParcelCID, DeleteOldScene, Goto, TypeOK
            <4> QED  BY <1>2, <4>1
        <3>3. CASE PushError(u)
            <4>1. pc'[u] = "setx"
                BY <3>3 DEF PushError, Goto, TypeOK
            <4> QED  BY <4>1 DEF Visible, Settling
        <3> QED  BY <2>1, <2>3, <3>1, <3>2, <3>3, OwnPush, OwnSet, OwnSettling DEF Step, Progress
    <2>4. CASE UNCHANGED vars \/ \E c \in Cids : CheckContentInStorage(c)
        BY <2>1, <2>4 DEF vars, index, publish, work, CheckContentInStorage, Visible
    <2> QED  BY <2>2, <2>3, <2>4 DEF Next
<1> QED  BY <1>1, <1>2, <1>3, AloneBefore

(***************************************************************************)
(* An upload that was acknowledged and that no related upload has run into *)
(* is visible as a whole - content, parcel keys, processed marks, list,    *)
(* metadata and the ties to its scene CID - whatever debris earlier        *)
(* uploads have left and wherever unrelated ones fail.                     *)
(***************************************************************************)
THEOREM AckVisibleHolds == Spec => []AckVisible
<1>1. ASSUME TypeOK, ContentInv, PublishInv, VisibleInv PROVE AckVisible
    <2> SUFFICES ASSUME NEW u \in Uploads, pc[u] = "ok", Undisturbed(u)
                 PROVE  LET q == req[u] IN
                        /\ Complete(q)
                        /\ \A p \in Claims(q) : parcelRoot[p] = q.root /\ p \in processed
                        /\ IsPrefix(Reverse(q.scene), sceneParcels[q.root])
                        /\ q.root \in metadata
                        /\ sceneOf[q.root] = SceneCid(q)
                        /\ rootOf[SceneCid(q)] = q.root
        BY <1>1 DEF AckVisible
    <2>1. Complete(req[u])
        BY <1>1, RecordedIsComplete DEF Past
    <2>2. Claims(req[u]) \subseteq processed /\ req[u].root \in metadata
        BY <1>1 DEF PublishInv, Published, Past
    <2>3. Visible(u)
        BY <1>1 DEF VisibleInv
    <2> QED  BY <2>1, <2>2, <2>3 DEF Visible
<1>2. Spec => [](OriginInv /\ LoneInv /\ VisibleInv)
    <2>1. Init => OriginInv /\ LoneInv /\ VisibleInv
        BY InitOrigin
    <2>2. TypeOK /\ PublishInv /\ OriginInv /\ LoneInv /\ VisibleInv /\ [Next]_vars
              => OriginInv' /\ LoneInv' /\ VisibleInv'
        <3>1. TypeOK /\ OriginInv /\ [Next]_vars => OriginInv'
            BY OriginStep
        <3>2. TypeOK /\ LoneInv /\ [Next]_vars => LoneInv'
            BY LoneStep
        <3>3. TypeOK /\ PublishInv /\ OriginInv /\ LoneInv /\ VisibleInv /\ [Next]_vars
                  => VisibleInv'
            BY VisibleStep
        <3> QED  BY <3>1, <3>2, <3>3
    <2> QED  BY <2>1, <2>2, TypeCorrect, PublishInvariant, PTL DEF Spec
<1> QED  BY <1>1, <1>2, TypeCorrect, ContentInvariant, PublishInvariant, PTL

\* An upload that has been acknowledged stays so; it may be run into later.
LEMMA AcknowledgedStays ==
    ASSUME TypeOK, [Next]_vars, NEW u \in Uploads, pc[u] = "ok"
    PROVE  pc'[u] = "ok" /\ req' = req /\ (Undisturbed(u)' => Undisturbed(u))
<1>1. req' = req
    BY NothingTakenBack
<1>2. pc'[u] = "ok"
    <2>1. CASE pc'[u] = pc[u]
        BY <2>1
    <2>2. CASE pc'[u] # pc[u]
        <3>1. Step(u)
            BY <2>2, StepIsLocal DEF Next, vars, CheckContentInStorage
        <3> QED  BY <3>1 DEF Step, Progress, AcceptUpload, RejectUpload, AddCID, GetParcelCID,
                 PushParcels, PushError, SetParcel, SetProcessedParcel, StoreMetadata,
                 SaveSceneCid, SaveRootCid, Fail, SaveFile, StoreContent, DeleteOldScene,
                 InFlight, Indexing, Settling
    <2> QED  BY <2>1, <2>2
<1>3. alone'[u] => alone[u]
    BY AloneBefore
<1> QED  BY <1>1, <1>2, <1>3 DEF Undisturbed, SameClaims

\* What a list begins with is in the list.
LEMMA PrefixRange ==
    ASSUME NEW S, NEW s \in Seq(S), NEW t \in Seq(S), IsPrefix(s, t)
    PROVE  Range(s) \subseteq Range(t)
<1>1. Len(s) \in Nat /\ Len(t) \in Nat /\ Len(s) <= Len(t)
      /\ SubSeq(s, 1, Len(s)) = SubSeq(t, 1, Len(s))
      /\ DOMAIN s = 1 .. Len(s) /\ DOMAIN t = 1 .. Len(t)
    BY DEF IsPrefix
<1>2. \A i \in 1 .. Len(s) : SubSeq(s, 1, Len(s))[i] = s[i] /\ SubSeq(t, 1, Len(s))[i] = t[i]
    BY <1>1
<1>3. \A i \in 1 .. Len(s) : s[i] = t[i] /\ i \in 1 .. Len(t)
    BY <1>1, <1>2
<1> QED  BY <1>1, <1>3 DEF Range

\* What a reader sees of a scene that nothing has run into.
LEMMA SeenOfScene ==
    ASSUME TypeOK, AckVisible, NEW u \in Uploads, pc[u] = "ok", Undisturbed(u),
           NEW q \in Requests, q = req[u]
    PROVE  /\ \A p \in Claims(q) : parcelRoot[p] = q.root /\ p \in processed
           /\ Claims(q) \subseteq Range(sceneParcels[q.root])
           /\ sceneOf[q.root] = SceneCid(q) /\ SceneCid(q) # NoCid
           /\ q.root \in Roots /\ q.root # NoRoot
<1>1. /\ q.scene \in Seq(Parcels) /\ q.root \in Roots /\ q.root # NoRoot
    BY RequestFacts, NoneAssumption
<1>2. /\ \A p \in Claims(q) : parcelRoot[p] = q.root /\ p \in processed
      /\ IsPrefix(Reverse(q.scene), sceneParcels[q.root])
      /\ sceneOf[q.root] = SceneCid(q)
    BY DEF AckVisible
<1>3. sceneParcels[q.root] \in Seq(Parcels)
    BY <1>1 DEF TypeOK
<1>4. Claims(q) = Range(Reverse(q.scene)) /\ Reverse(q.scene) \in Seq(Parcels)
    BY <1>1, ReverseFacts DEF Claims
<1>5. Range(Reverse(q.scene)) \subseteq Range(sceneParcels[q.root])
    BY <1>2, <1>3, <1>4, PrefixRange
<1>6. SceneCid(q) # NoCid
    BY SceneCidType, NoneAssumption
<1> QED  BY <1>1, <1>2, <1>4, <1>5, <1>6
===============================================================================
