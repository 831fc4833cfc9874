-------------------------- MODULE ScenesReaderProofs --------------------------
(***************************************************************************)
(* Theorems about ScenesReader: what GET /scenes answers while any number  *)
(* of uploads are being published.  The uploads' own invariants come from  *)
(* SceneIndexProofs: whatever the reader does, they follow Spec.           *)
(***************************************************************************)
EXTENDS ScenesReader, SceneIndexProofs

\* Some upload of root r claimed p, and all of its manifest can be fetched.
Servable(r, p) ==
    \E u \in Uploads : req[u].root = r /\ p \in Claims(req[u]) /\ Complete(req[u])

ListsServable == \A r \in Roots : \A p \in Range(sceneParcels[r]) : Servable(r, p)

\* What the reader holds and what it has answered can be fetched.
HeldServable ==
    /\ stage = "scene" => \A p \in listed : Servable(root, p)
    /\ \A a \in answer : Servable(a.root, a.parcel)

\* The root in hand.
RootInv ==
    /\ stage = "scene" => root \in cids
    /\ stage = "member" => root # NoRoot

Serving == stage \notin {"idle", "done", "failed"}

(***************************************************************************)
(* While nobody publishes, the lists stand still: what has been answered   *)
(* is still in them.                                                       *)
(***************************************************************************)
CalmInv ==
    /\ stage = "idle" => answer = {}
    /\ calm /\ Serving =>
          /\ NobodyPublishes
          /\ stage = "scene" => listed \subseteq Range(sceneParcels[root])
          /\ \A a \in answer : a.root \in Roots /\ a.parcel \in Range(sceneParcels[a.root])

\* How far the reader has come with the scene of q.
Underway(q) ==
    /\ stage \in {"get", "member"} =>
          \A i \in 1 .. at - 1 : area[i] \in Claims(q) => q.root \in cids
    /\ stage = "member" /\ Pid \in Claims(q) => root = q.root
    /\ stage \in {"list", "scene", "done"} => q.root \in cids \/ Listed(q)
    /\ stage = "scene" /\ root = q.root => Claims(q) \subseteq listed

(***************************************************************************)
(* A scene that was visible as a whole when the request came in and that   *)
(* nothing has run into since is found, unless a read has failed.          *)
(***************************************************************************)
FoundInv ==
    /\ stage = "idle" => before = {} /\ at = 1
    /\ stage = "done" => cids = {}
    /\ \A u \in before :
          /\ pc[u] = "ok"
          /\ ~ misread /\ Undisturbed(u) /\ Asked(req[u]) => Underway(req[u])

-------------------------------------------------------------------------------
(***************************************************************************)
(* The uploads do not notice the reader.                                   *)
(***************************************************************************)
Read ==
    \/ Ask \/ GetParcelCIDOf \/ ProcessedParcel \/ SkipParcel
    \/ \E r \in Roots : GetSceneParcels(r)
    \/ ListError \/ GetSceneCid \/ SceneCidError \/ Respond

LEMMA ReadKeeps == Read => UNCHANGED vars
BY DEF Read, Ask, GetParcelCIDOf, ProcessedParcel, SkipParcel, GetSceneParcels, ListError,
       GetSceneCid, SceneCidError, Report, Respond

LEMMA StepCases == [RNext]_rvars => UploadStep \/ Read \/ UNCHANGED rvars
BY DEF RNext, Read

LEMMA UploadsFollowSpec == RSpec => Spec
<1>1. RInit => Init
    BY DEF RInit
<1>2. [RNext]_rvars => [Next]_vars
    BY ReadKeeps, StepCases DEF UploadStep, rvars
<1> QED  BY <1>1, <1>2, PTL DEF RSpec, Spec

LEMMA StepOfUploads == [RNext]_rvars => [Next]_vars
BY ReadKeeps, StepCases DEF UploadStep, rvars

(***************************************************************************)
(* Type correctness.                                                       *)
(***************************************************************************)
LEMMA InitRType == RInit => RTypeOK
<1> SUFFICES ASSUME RInit PROVE RTypeOK
    OBVIOUS
<1>1. at \in 1 .. Len(area)
    BY AreasAssumption DEF RInit
<1> QED  BY <1>1 DEF RInit, RTypeOK

LEMMA AreaFacts ==
    ASSUME RTypeOK
    PROVE  /\ area \in Seq(Parcels) /\ Len(area) \in Nat
           /\ at \in 1 .. Len(area) /\ Pid \in Parcels
           /\ DOMAIN area = 1 .. Len(area)
<1>1. area \in Seq(Parcels) /\ at \in 1 .. Len(area)
    BY AreasAssumption DEF RTypeOK
<1> QED  BY <1>1 DEF Pid

LEMMA NextPidType ==
    ASSUME RTypeOK, NextPid
    PROVE  stage' \in {"get", "list"} /\ at' \in 1 .. Len(area)
BY AreaFacts DEF NextPid

\* What a scene is reported with.
LEMMA ReportType ==
    ASSUME RTypeOK, stage = "scene", root \in Roots, NEW c \in Cids \cup {EmptyCid}, Report(c)
    PROVE  answer' \subseteq Scene
<1>1. [parcel : listed, root : {root}, scene : {c}] \subseteq Scene
    BY DEF RTypeOK, Scene
<1> QED  BY <1>1 DEF Report, RTypeOK

LEMMA RTypeStep ==
    TypeOK /\ RTypeOK /\ RootInv /\ [RNext]_rvars => RTypeOK' /\ RootInv'
<1> SUFFICES ASSUME TypeOK, RTypeOK, RootInv, [RNext]_rvars PROVE RTypeOK' /\ RootInv'
    OBVIOUS
<1>1. CASE Ask
    <2>1. calm' \in BOOLEAN
        BY <1>1 DEF Ask, NobodyPublishes
    <2> QED  BY <1>1, <2>1 DEF Ask, RTypeOK, RootInv
<1>2. CASE GetParcelCIDOf
    <2>1. parcelRoot[Pid] \in Roots \cup {NoRoot}
        BY AreaFacts DEF TypeOK
    <2> QED  BY <1>2, <2>1, NextPidType DEF GetParcelCIDOf, RTypeOK, RootInv
<1>3. CASE SkipParcel
    BY <1>3, NextPidType DEF SkipParcel, RTypeOK, RootInv
<1>4. ASSUME NEW r \in Roots, GetSceneParcels(r)
      PROVE  RTypeOK' /\ RootInv'
    <2>1. Range(sceneParcels[r]) \subseteq Parcels
        BY RangeOfSeq DEF TypeOK
    <2> QED  BY <1>4, <2>1 DEF GetSceneParcels, RTypeOK, RootInv
<1>5. CASE ListError \/ Respond
    BY <1>5 DEF ListError, Respond, RTypeOK, RootInv
<1>6. CASE GetSceneCid
    <2>1. stage = "scene" /\ root \in Roots
        BY <1>6 DEF GetSceneCid, RTypeOK, RootInv
    <2>2. (IF sceneOf[root] = NoCid THEN EmptyCid ELSE sceneOf[root]) \in Cids \cup {EmptyCid}
        BY <2>1 DEF TypeOK
    <2> QED  BY <1>6, <2>1, <2>2, ReportType DEF GetSceneCid, Report, RTypeOK, RootInv
<1>7. CASE SceneCidError
    <2>1. stage = "scene" /\ root \in Roots
        BY <1>7 DEF SceneCidError, RTypeOK, RootInv
    <2> QED  BY <1>7, <2>1, ReportType DEF SceneCidError, Report, RTypeOK, RootInv
<1>8. CASE UploadStep
    <2>1. calm' \in BOOLEAN
        BY <1>8 DEF UploadStep, RTypeOK, RootInv
    <2> QED  BY <1>8, <2>1 DEF UploadStep, request, RTypeOK, RootInv
<1>9. CASE UNCHANGED rvars
    BY <1>9 DEF rvars, request, RTypeOK, RootInv
<1>10. CASE ProcessedParcel
    <2>1. root \in Roots \/ cids' = cids
        BY <1>10 DEF ProcessedParcel, RTypeOK, RootInv
    <2> QED  BY <1>10, <2>1, NextPidType DEF ProcessedParcel, RTypeOK, RootInv
<1> QED  BY <1>1, <1>2, <1>3, <1>4, <1>5, <1>6, <1>7, <1>8, <1>9, <1>10, StepCases DEF Read

(***************************************************************************)
(* The reader's variables stay in range: the position is always one of the *)
(* area, a listed root is one that has been collected.                     *)
(***************************************************************************)
THEOREM RTypeCorrect == RSpec => []RTypeOK
<1>1. RSpec => [](RTypeOK /\ RootInv)
    <2>1. RInit => RTypeOK /\ RootInv
        BY InitRType DEF RInit, RootInv
    <2>2. RSpec => []TypeOK
        BY UploadsFollowSpec, TypeCorrect, PTL
    <2> QED  BY <2>1, <2>2, RTypeStep, PTL DEF RSpec
<1> QED  BY <1>1, PTL

(***************************************************************************)
(* What is listed can be fetched.                                          *)
(***************************************************************************)

\* What can be fetched stays so.
LEMMA ServableStays ==
    ASSUME TypeOK, ContentInv', [Next]_vars, NEW r, NEW p, Servable(r, p)
    PROVE  Servable(r, p)'
<1>1. PICK u \in Uploads : req[u].root = r /\ p \in Claims(req[u]) /\ Complete(req[u])
    BY DEF Servable
<1>2. Complete(req[u])' /\ req' = req
    BY <1>1, CompleteStays, NothingTakenBack
<1> QED  BY <1>1, <1>2 DEF Servable

\* An upload lists its parcels after it has recorded its files.
LEMMA ListsServableStep ==
    TypeOK /\ ContentInv /\ ContentInv' /\ ListsServable /\ [Next]_vars => ListsServable'
<1> SUFFICES ASSUME TypeOK, ContentInv, ContentInv', ListsServable, [Next]_vars,
                    NEW r \in Roots, NEW p \in Range(sceneParcels'[r])
             PROVE  Servable(r, p)'
    BY DEF ListsServable
<1>1. CASE p \in Range(sceneParcels[r])
    <2>1. Servable(r, p)
        BY <1>1 DEF ListsServable
    <2> QED  BY <2>1, ServableStays
<1>2. CASE p \notin Range(sceneParcels[r])
    <2>1. PICK u \in Uploads : \/ \E s \in Roots \cup {NoRoot} : DeleteOldScene(u, s)
                               \/ PushParcels(u) \/ PushError(u)
        BY <1>2, ListWriters
    <2>2. ~ \E s \in Roots \cup {NoRoot} : DeleteOldScene(u, s)
        BY <1>2 DEF DeleteOldScene, Range
    <2>3. pc[u] = "push" /\ sceneParcels' = Pushed(u)
        BY <1>2, <2>1, <2>2 DEF PushParcels, PushError
    <2>4. r = req[u].root /\ p \in Claims(req[u])
        BY <1>2, <2>3, PushedRange
    <2>5. Complete(req[u])
        BY <2>3, RecordedIsComplete DEF Past, Indexing
    <2>6. Servable(r, p)
        BY <2>4, <2>5 DEF Servable
    <2> QED  BY <2>6, ServableStays
<1> QED  BY <1>1, <1>2

LEMMA HeldServableStep ==
    TypeOK /\ ContentInv' /\ ListsServable /\ HeldServable /\ RTypeOK /\ [RNext]_rvars
        => HeldServable'
<1> SUFFICES ASSUME TypeOK, ContentInv', ListsServable, HeldServable, RTypeOK, [RNext]_rvars
             PROVE  HeldServable'
    OBVIOUS
<1>1. [Next]_vars
    BY StepOfUploads
<1>2. \A r, p : Servable(r, p) => Servable(r, p)'
    BY <1>1, ServableStays
<1>3. ASSUME NEW p \in listed', stage' = "scene" PROVE Servable(root', p)
    <2>1. CASE UNCHANGED <<stage, listed, root>>
        BY <1>3, <2>1 DEF HeldServable
    <2>2. CASE \E r \in Roots : GetSceneParcels(r)
        BY <1>3, <2>2 DEF GetSceneParcels, ListsServable
    <2> QED  BY <1>3, <2>1, <2>2, StepCases
             DEF Read, Ask, GetParcelCIDOf, ProcessedParcel, SkipParcel, NextPid, ListError,
                 GetSceneCid, SceneCidError, Report, Respond, UploadStep, rvars, request
<1>4. ASSUME NEW a \in answer' PROVE Servable(a.root, a.parcel)
    <2>1. CASE answer' = answer
        BY <1>4, <2>1 DEF HeldServable
    <2>2. ASSUME NEW c, Report(c), stage = "scene" PROVE Servable(a.root, a.parcel)
        <3>1. CASE a \in answer
            BY <3>1 DEF HeldServable
        <3>2. CASE a \in [parcel : listed, root : {root}, scene : {c}]
            BY <2>2, <3>2 DEF HeldServable
        <3> QED  BY <1>4, <2>2, <3>1, <3>2 DEF Report
    <2> QED  BY <2>1, <2>2, StepCases
             DEF Read, Ask, GetParcelCIDOf, ProcessedParcel, SkipParcel, GetSceneParcels,
                 ListError, GetSceneCid, SceneCidError, Respond, UploadStep, rvars, request
<1>5. ASSUME NEW p \in listed', stage' = "scene" PROVE Servable(root, p)'
    BY <1>2, <1>3, <1>5 DEF Servable
<1>6. ASSUME NEW a \in answer' PROVE Servable(a.root, a.parcel)'
    BY <1>2, <1>4
<1> QED  BY <1>5, <1>6 DEF HeldServable

(***************************************************************************)
(* Every scene of an answer can be fetched as a whole, at any time after   *)
(* it was read, whatever uploads do or fail to do meanwhile.               *)
(***************************************************************************)
THEOREM ScenesServableHolds == RSpec => []ScenesServable
<1>1. RSpec => [](TypeOK /\ ContentInv)
    BY UploadsFollowSpec, TypeCorrect, ContentInvariant, PTL
<1>2. RSpec => [](ListsServable /\ HeldServable)
    <2>1. RInit => ListsServable /\ HeldServable
        BY DEF RInit, Init, ListsServable, HeldServable, Range
    <2>2. /\ TypeOK /\ ContentInv /\ ContentInv' /\ ListsServable /\ HeldServable /\ RTypeOK
          /\ [RNext]_rvars
          => ListsServable' /\ HeldServable'
        BY StepOfUploads, ListsServableStep, HeldServableStep
    <2> QED  BY <1>1, <2>1, <2>2, RTypeCorrect, PTL DEF RSpec
<1>3. HeldServable => ScenesServable
    BY DEF HeldServable, ScenesServable, Servable
<1> QED  BY <1>2, <1>3, PTL

(***************************************************************************)
(* While nobody publishes.                                                 *)
(***************************************************************************)

\* If nobody publishes before and after a step, the lists have not changed.
LEMMA ListsStandStill ==
    ASSUME [Next]_vars, NobodyPublishes
    PROVE  sceneParcels' = sceneParcels
BY ListWriters DEF NobodyPublishes, DeleteOldScene, PushParcels, PushError, Indexing

LEMMA CalmStep == RTypeOK /\ RootInv /\ CalmInv /\ [RNext]_rvars => CalmInv'
<1> SUFFICES ASSUME RTypeOK, RootInv, CalmInv, [RNext]_rvars PROVE CalmInv'
    OBVIOUS
<1>1. CASE Read
    <2>1. UNCHANGED vars /\ NobodyPublishes' = NobodyPublishes
        BY <1>1, ReadKeeps DEF vars, NobodyPublishes
    <2>2. CASE Ask
        <3>1. answer' = answer /\ answer = {} /\ stage' = "get" /\ calm' = NobodyPublishes
            BY <2>2 DEF Ask, CalmInv
        <3> QED  BY <2>1, <3>1 DEF CalmInv
    <2>3. CASE ~ Ask
        <3>1. calm' = calm /\ Serving
            BY <1>1, <2>3 DEF Read, GetParcelCIDOf, ProcessedParcel, SkipParcel, GetSceneParcels,
               ListError, GetSceneCid, SceneCidError, Report, Respond, Serving
        <3>2. stage' # "idle"
            BY <1>1, <2>3 DEF Read, GetParcelCIDOf, ProcessedParcel, SkipParcel, NextPid,
               GetSceneParcels, ListError, GetSceneCid, SceneCidError, Report, Respond
        <3> SUFFICES ASSUME calm'
                     PROVE  /\ stage' = "scene" => listed' \subseteq Range(sceneParcels[root'])
                            /\ \A a \in answer' : /\ a.root \in Roots
                                                  /\ a.parcel \in Range(sceneParcels[a.root])
            BY <2>1, <3>1, <3>2 DEF CalmInv, vars, index
        <3>3. /\ stage = "scene" => listed \subseteq Range(sceneParcels[root])
              /\ \A a \in answer : a.root \in Roots /\ a.parcel \in Range(sceneParcels[a.root])
            BY <3>1 DEF CalmInv
        <3>4. ASSUME NEW r \in Roots, GetSceneParcels(r)
              PROVE  /\ stage' = "scene" => listed' \subseteq Range(sceneParcels[root'])
                     /\ \A a \in answer' : /\ a.root \in Roots
                                           /\ a.parcel \in Range(sceneParcels[a.root])
            BY <3>3, <3>4 DEF GetSceneParcels
        <3>5. ASSUME NEW c, Report(c), stage = "scene"
              PROVE  /\ stage' = "scene" => listed' \subseteq Range(sceneParcels[root'])
                     /\ \A a \in answer' : /\ a.root \in Roots
                                           /\ a.parcel \in Range(sceneParcels[a.root])
            <4>1. root \in Roots
                BY <3>5 DEF RootInv, RTypeOK
            <4>2. \A a \in [parcel : listed, root : {root}, scene : {c}] :
                      a.root \in Roots /\ a.parcel \in Range(sceneParcels[a.root])
                BY <3>3, <3>5, <4>1
            <4> QED  BY <3>3, <3>5, <4>2 DEF Report
        <3>6. CASE stage' # "scene" /\ answer' = answer
            BY <3>3, <3>6
        <3> QED  BY <1>1, <2>3, <3>4, <3>5, <3>6
                 DEF Read, GetParcelCIDOf, ProcessedParcel, SkipParcel, NextPid, ListError,
                     GetSceneCid, SceneCidError, Respond
    <2> QED  BY <2>2, <2>3
<1>2. CASE UploadStep
    <2>1. /\ UNCHANGED <<stage, answer, listed, root>>
          /\ calm' /\ Serving => calm /\ NobodyPublishes'
        BY <1>2 DEF UploadStep, request, Serving
    <2>2. CASE calm' /\ Serving
        <3>1. NobodyPublishes
            BY <2>1, <2>2 DEF CalmInv
        <3>2. sceneParcels' = sceneParcels
            BY <1>2, <3>1, ListsStandStill DEF UploadStep
        <3> QED  BY <2>1, <2>2, <3>2 DEF CalmInv, Serving
    <2>3. CASE ~ (calm' /\ Serving)
        BY <2>1, <2>3 DEF CalmInv, Serving
    <2> QED  BY <2>2, <2>3
<1>3. CASE UNCHANGED rvars
    BY <1>3 DEF rvars, vars, request, index, CalmInv, Serving, NobodyPublishes
<1> QED  BY <1>1, <1>2, <1>3, StepCases

\* What is read from disjoint lists that stand still is disjoint.
LEMMA DisjointStep ==
    TypeOK /\ QuietInv' /\ CalmInv' /\ ScenesDisjoint /\ [RNext]_rvars => ScenesDisjoint'
<1> SUFFICES ASSUME TypeOK, QuietInv', CalmInv', ScenesDisjoint, [RNext]_rvars,
                    calm', NEW a \in answer', NEW b \in answer',
                    a.parcel = b.parcel, a.parcel \in Quiet'
             PROVE  a.root = b.root
    BY DEF ScenesDisjoint
<1>1. CASE Serving'
    <2>1. ListedOnce(a.parcel)'
        BY DEF QuietInv, Exact
    <2>2. a.root \in Lists(a.parcel)' /\ b.root \in Lists(a.parcel)'
        BY <1>1 DEF CalmInv, Lists
    <2> QED  BY <2>1, <2>2 DEF ListedOnce
<1>2. CASE ~ Serving'
    <2>1. answer' = answer /\ (calm \/ stage = "idle")
        BY <1>2, StepCases DEF Serving, Read, Ask, GetParcelCIDOf, ProcessedParcel, SkipParcel,
           NextPid, GetSceneParcels, ListError, GetSceneCid, SceneCidError, Report, Respond,
           UploadStep, request, rvars
    <2>2. a.parcel \in Quiet
        BY StepOfUploads, QuietBefore
    <2>3. stage = "idle" => stage' = "idle"
        BY <1>2, StepCases DEF Serving, Read, Ask, GetParcelCIDOf, ProcessedParcel, SkipParcel,
           GetSceneParcels, ListError, GetSceneCid, SceneCidError, Respond,
           UploadStep, request, rvars
    <2> QED  BY <2>1, <2>2, <2>3 DEF ScenesDisjoint, CalmInv
<1> QED  BY <1>1, <1>2

(***************************************************************************)
(* No quiet parcel is in an answer under two roots, if nobody was          *)
(* publishing while it was put together: the scenes that were evicted do   *)
(* not show, although parcel keys may still lead to them.                  *)
(***************************************************************************)
THEOREM ScenesDisjointHolds == RSpec => []ScenesDisjoint
<1>1. RSpec => [](TypeOK /\ QuietInv)
    <2>1. Spec => []QuietInv
        BY TypeCorrect, PublishInvariant, InitQuiet, QuietStep, PTL DEF Spec
    <2> QED  BY <2>1, UploadsFollowSpec, TypeCorrect, PTL
<1>2. RSpec => [](RTypeOK /\ RootInv)
    <2>1. RInit => RTypeOK /\ RootInv
        BY InitRType DEF RInit, RootInv
    <2> QED  BY <1>1, <2>1, RTypeStep, PTL DEF RSpec
<1>3. RSpec => []CalmInv
    <2>1. RInit => CalmInv
        BY DEF RInit, CalmInv, Serving
    <2> QED  BY <1>2, <2>1, CalmStep, PTL DEF RSpec
<1>4. RInit => ScenesDisjoint
    BY DEF RInit, ScenesDisjoint
<1> QED  BY <1>1, <1>3, <1>4, DisjointStep, PTL DEF RSpec
(***************************************************************************)
(* An acknowledged scene is found.                                         *)
(***************************************************************************)

\* The next parcel of the area, or the lists once all parcels are looked up.
LEMMA UnderwayNext ==
    ASSUME RTypeOK, NextPid, area' = area, NEW q \in Requests, Asked(q),
           \A i \in 1 .. at : area[i] \in Claims(q) => q.root \in cids'
    PROVE  Underway(q)'
<1>1. CASE stage' = "get" /\ at' = at + 1
    BY <1>1, AreaFacts DEF Underway
<1>2. CASE at = Len(area) /\ stage' = "list"
    <2>1. q.root \in cids'
        BY <1>2, AreaFacts DEF Asked, Range
    <2> QED  BY <1>2, <2>1 DEF Underway
<1> QED  BY <1>1, <1>2 DEF NextPid

\* A step of the reader that skips nothing.
LEMMA UnderwayStep ==
    ASSUME TypeOK, RTypeOK, RootInv, AckVisible, Read, stage # "idle", ~ misread',
           NEW u \in Uploads, pc[u] = "ok", Undisturbed(u),
           NEW q \in Requests, q = req[u], Asked(q), Underway(q),
           stage = "done" => cids = {}
    PROVE  Underway(q)'
<1>1. /\ \A p \in Claims(q) : parcelRoot[p] = q.root /\ p \in processed
      /\ Claims(q) \subseteq Range(sceneParcels[q.root])
      /\ sceneOf[q.root] = SceneCid(q) /\ SceneCid(q) # NoCid
      /\ q.root \in Roots /\ q.root # NoRoot
    BY SeenOfScene
<1>2. area \in Seq(Parcels) /\ Len(area) \in Nat /\ at \in 1 .. Len(area) /\ Pid \in Parcels
    BY AreaFacts
<1>3. CASE GetParcelCIDOf
    <2>1. CASE NextPid
        <3>1. Pid \notin Claims(q) /\ cids' = cids /\ area' = area /\ stage = "get"
            BY <1>1, <1>3, <2>1, <1>2 DEF GetParcelCIDOf, NextPid
        <3>2. \A i \in 1 .. at : area[i] \in Claims(q) => q.root \in cids'
            BY <1>2, <3>1 DEF Underway, Pid
        <3> QED  BY <2>1, <3>1, <3>2, UnderwayNext
    <2>2. CASE ~ NextPid
        <3>1. /\ root' = parcelRoot[Pid] /\ stage' = "member" /\ stage = "get"
              /\ UNCHANGED <<at, area, cids>>
            BY <1>3, <2>2 DEF GetParcelCIDOf
        <3>2. Pid' = Pid
            BY <3>1 DEF Pid
        <3> QED  BY <1>1, <3>1, <3>2 DEF Underway
    <2> QED  BY <2>1, <2>2
<1>4. CASE ProcessedParcel
    <2>1. /\ NextPid /\ area' = area /\ stage = "member"
          /\ cids \subseteq cids'
          /\ Pid \in Claims(q) => q.root \in cids'
        BY <1>1, <1>4 DEF ProcessedParcel, Underway
    <2>2. \A i \in 1 .. at : area[i] \in Claims(q) => q.root \in cids'
        BY <1>2, <2>1 DEF Underway, Pid
    <2> QED  BY <2>1, <2>2, UnderwayNext
<1>5. ASSUME NEW r \in Roots, GetSceneParcels(r) PROVE Underway(q)'
    <2>1. /\ root' = r /\ stage' = "scene" /\ stage = "list" /\ cids' = cids
          /\ answer' = answer /\ listed' = Range(sceneParcels[r])
        BY <1>5 DEF GetSceneParcels
    <2>2. Listed(q)' = Listed(q)
        BY <2>1 DEF Listed
    <2> QED  BY <1>1, <2>1, <2>2 DEF Underway
<1>6. CASE GetSceneCid
    <2>1. /\ stage = "scene" /\ stage' = "list" /\ cids' = cids \ {root} /\ root \in Roots
          /\ answer' = answer \cup [parcel : listed, root : {root},
                 scene : {IF sceneOf[root] = NoCid THEN EmptyCid ELSE sceneOf[root]}]
        BY <1>6 DEF GetSceneCid, Report, RootInv, RTypeOK
    <2>2. CASE root = q.root
        <3>1. Claims(q) \subseteq listed
            BY <2>1, <2>2 DEF Underway
        <3>2. answer' = answer \cup [parcel : listed, root : {q.root}, scene : {SceneCid(q)}]
            BY <1>1, <2>1, <2>2
        <3>3. Listed(q)'
            BY <3>1, <3>2 DEF Listed
        <3> QED  BY <2>1, <3>3 DEF Underway
    <2>3. CASE root # q.root
        <3>1. Listed(q) => Listed(q)'
            BY <2>1 DEF Listed
        <3> QED  BY <2>1, <2>3, <3>1 DEF Underway
    <2> QED  BY <2>2, <2>3
<1>7. CASE ListError
    BY <1>7 DEF ListError, Underway
<1>8. CASE Respond
    <2>1. Listed(q)' = Listed(q)
        BY <1>8 DEF Respond, Listed
    <2> QED  BY <1>8, <2>1 DEF Respond, Underway
<1>9. ~ Ask /\ ~ SkipParcel /\ ~ SceneCidError
    BY DEF Ask, SkipParcel, SceneCidError
<1> QED  BY <1>3, <1>4, <1>5, <1>6, <1>7, <1>8, <1>9 DEF Read

LEMMA FoundStep ==
    TypeOK /\ RTypeOK /\ RootInv /\ AckVisible /\ FoundInv /\ [RNext]_rvars => FoundInv'
<1> SUFFICES ASSUME TypeOK, RTypeOK, RootInv, AckVisible, FoundInv, [RNext]_rvars
             PROVE  FoundInv'
    OBVIOUS
<1>1. stage' = "idle" => stage = "idle" /\ before' = before /\ at' = at
    BY StepCases DEF Read, Ask, GetParcelCIDOf, ProcessedParcel, SkipParcel, NextPid,
       GetSceneParcels, ListError, GetSceneCid, SceneCidError, Report, Respond,
       UploadStep, request, rvars
<1>2. stage' = "done" => cids' = {}
    BY StepCases DEF Read, Ask, GetParcelCIDOf, ProcessedParcel, SkipParcel, NextPid,
       GetSceneParcels, ListError, GetSceneCid, SceneCidError, Report, Respond,
       UploadStep, request, rvars, FoundInv
<1>3. [Next]_vars
    BY StepOfUploads
<1>4. ASSUME NEW u \in before'
      PROVE  /\ pc'[u] = "ok"
             /\ ~ misread' /\ Undisturbed(u)' /\ Asked(req[u])' => Underway(req[u])'
    <2>1. u \in Uploads /\ pc[u] = "ok" /\ (~ Ask => u \in before)
        BY <1>4, StepCases DEF Read, Ask, GetParcelCIDOf, ProcessedParcel, SkipParcel,
           GetSceneParcels, ListError, GetSceneCid, SceneCidError, Report, Respond,
           UploadStep, request, rvars, FoundInv, RTypeOK
    <2>2. pc'[u] = "ok" /\ req' = req /\ (Undisturbed(u)' => Undisturbed(u))
        BY <1>3, <2>1, AcknowledgedStays
    <2>3. PICK q \in Requests : q = req[u]
        BY <2>1 DEF TypeOK
    <2> SUFFICES ASSUME ~ misread', Undisturbed(u), Asked(q)' PROVE Underway(q)'
        BY <2>2, <2>3
    <2>4. area' = area /\ Asked(q)
        BY StepCases DEF Read, Ask, GetParcelCIDOf, ProcessedParcel, SkipParcel,
           GetSceneParcels, ListError, GetSceneCid, SceneCidError, Report, Respond,
           UploadStep, request, rvars, Asked
    <2>5. CASE Ask
        BY <2>5 DEF Ask, FoundInv, Underway
    <2>6. CASE ~ Ask
        <3>1. ~ misread
            BY StepCases DEF Read, Ask, GetParcelCIDOf, ProcessedParcel, SkipParcel,
               GetSceneParcels, ListError, GetSceneCid, SceneCidError, Report, Respond,
               UploadStep, request, rvars
        <3>2. Underway(q)
            BY <2>1, <2>3, <2>4, <2>6, <3>1 DEF FoundInv
        <3>3. CASE UNCHANGED request
            BY <3>2, <3>3 DEF request, Underway, Listed, Pid
        <3>4. CASE Read
            <4>1. stage # "idle"
                BY <2>6, <3>4 DEF Read, GetParcelCIDOf, ProcessedParcel, SkipParcel,
                   GetSceneParcels, ListError, GetSceneCid, SceneCidError, Respond
            <4> QED  BY <2>1, <2>3, <2>4, <3>2, <3>4, <4>1, UnderwayStep DEF FoundInv
        <3> QED  BY <3>3, <3>4, StepCases DEF UploadStep, rvars
    <2> QED  BY <2>5, <2>6
<1>5. /\ stage' = "idle" => before' = {} /\ at' = 1
      /\ stage' = "done" => cids' = {}
    BY <1>1, <1>2 DEF FoundInv
<1> QED  BY <1>4, <1>5 DEF FoundInv

(***************************************************************************)
(* A scene that was acknowledged before the request, and that no related   *)
(* upload has run into since, is in the answer with all of its parcels,    *)
(* unless a read failed, whatever else is published or fails meanwhile.    *)
(***************************************************************************)
THEOREM AcknowledgedListedHolds == RSpec => []AcknowledgedListed
<1>1. RSpec => [](TypeOK /\ AckVisible)
    BY UploadsFollowSpec, TypeCorrect, AckVisibleHolds, PTL
<1>2. RSpec => [](RTypeOK /\ RootInv)
    <2>1. RInit => RTypeOK /\ RootInv
        BY InitRType DEF RInit, RootInv
    <2> QED  BY <1>1, <2>1, RTypeStep, PTL DEF RSpec
<1>3. RSpec => []FoundInv
    <2>1. RInit => FoundInv
        BY DEF RInit, FoundInv
    <2> QED  BY <1>1, <1>2, <2>1, FoundStep, PTL DEF RSpec
<1>4. FoundInv => AcknowledgedListed
    <2> SUFFICES ASSUME FoundInv, stage = "done", ~ misread, NEW u \in before,
                        Undisturbed(u), Asked(req[u])
                 PROVE  Listed(req[u])
        BY DEF AcknowledgedListed
    <2>1. Underway(req[u]) /\ cids = {}
        BY DEF FoundInv
    <2> QED  BY <2>1 DEF Underway
<1> QED  BY <1>3, <1>4, PTL
===============================================================================
