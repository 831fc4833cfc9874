----------------------------- MODULE ScenesReader -----------------------------
(***************************************************************************)
(* GET /scenes while uploads go on.  GetScenes collects the roots of the   *)
(* processed parcels of an area, one Redis read at a time, then reads the  *)
(* parcel list and the scene CID of every root.  Nothing is locked: any    *)
(* step of module SceneIndex may come between two reads.  One request is   *)
(* followed; it changes nothing that another one could see.                *)
(***************************************************************************)
EXTENDS SceneIndex

CONSTANT Areas      \* the areas asked for, sequences of parcels

ASSUME AreasAssumption == \A a \in Areas : a \in Seq(Parcels) /\ a # <<>>

VARIABLES
    stage,      \* what the request reads next
    area,       \* the parcels of the rectangle
    at,         \* position in area
    root,       \* the root just read
    cids,       \* roots collected and not listed yet
    listed,     \* the parcels just read for root
    answer,     \* the scenes of the answer
    misread,    \* history: a read failed and was not reported
    calm,       \* history: no upload was publishing while the request was served
    before      \* history: uploads that were visible as a whole at the start

request == <<stage, area, at, root, cids, listed, answer, misread, before>>
rvars == <<vars, request, calm>>

Scene == [parcel : Parcels, root : Roots, scene : Cids \cup {EmptyCid}]

NobodyPublishes == \A u \in Uploads : pc[u] \notin Indexing \cup Settling

RInit ==
    /\ Init
    /\ stage = "idle" /\ area \in Areas /\ at = 1 /\ root = NoRoot
    /\ cids = {} /\ listed = {} /\ answer = {}
    /\ misread = FALSE /\ calm = TRUE /\ before = {}

Ask ==
    /\ stage = "idle"
    /\ stage' = "get"
    /\ calm' = NobodyPublishes
    /\ before' = {u \in Uploads : pc[u] = "ok" /\ Undisturbed(u)}
    /\ UNCHANGED <<vars, area, at, root, cids, listed, answer, misread>>

Pid == area[at]

\* Mutant: the position is not reset after the last parcel.
NextPidPastEnd ==
    /\ at' = at + 1
    /\ stage' = IF at < Len(area) THEN "get" ELSE "list"

\* The next iteration over the area; the roots are listed after the last.
NextPid ==
    \/ at < Len(area) /\ at' = at + 1 /\ stage' = "get"
    \/ at = Len(area) /\ at' = 1 /\ stage' = "list"

GetParcelCIDOf ==
    /\ stage = "get"
    /\ \/ /\ parcelRoot[Pid] = NoRoot
          /\ NextPid
          /\ UNCHANGED root
       \/ /\ parcelRoot[Pid] # NoRoot
          /\ root' = parcelRoot[Pid]
          /\ stage' = "member"
          /\ UNCHANGED at
    /\ UNCHANGED <<vars, area, cids, listed, answer, misread, calm, before>>

ProcessedParcel ==
    /\ stage = "member"
    /\ cids' = IF Pid \in processed THEN cids \cup {root} ELSE cids
    /\ NextPid
    /\ UNCHANGED <<vars, area, root, listed, answer, misread, calm, before>>

\* A failed GET answers "" and is skipped before its error is looked at; a
\* failed SISMEMBER is logged and skipped.
SkipParcel ==
    /\ stage \in {"get", "member"}
    /\ misread' = TRUE
    /\ NextPid
    /\ UNCHANGED <<vars, area, root, cids, listed, answer, calm, before>>

\* Mutant: only the parcels of the area are returned.
GetSceneParcelsInArea(r) ==
    /\ stage = "list"
    /\ r \in cids
    /\ root' = r
    /\ listed' = Range(sceneParcels[r]) \cap Range(area)
    /\ stage' = "scene"
    /\ UNCHANGED <<vars, area, at, cids, answer, misread, calm, before>>

GetSceneParcels(r) ==
    /\ stage = "list"
    /\ r \in cids
    /\ root' = r
    /\ listed' = Range(sceneParcels[r])
    /\ stage' = "scene"
    /\ UNCHANGED <<vars, area, at, cids, answer, misread, calm, before>>

ListError ==
    /\ stage = "list"
    /\ cids # {}
    /\ stage' = "failed"
    /\ UNCHANGED <<vars, area, at, root, cids, listed, answer, misread, calm, before>>

Report(c) ==
    /\ answer' = answer \cup [parcel : listed, root : {root}, scene : {c}]
    /\ cids' = cids \ {root}
    /\ stage' = "list"
    /\ UNCHANGED <<vars, area, at, root, listed, calm, before>>

\* A root without a scene CID is reported with the empty one.
GetSceneCid ==
    /\ stage = "scene"
    /\ Report(IF sceneOf[root] = NoCid THEN EmptyCid ELSE sceneOf[root])
    /\ UNCHANGED misread

SceneCidError ==
    /\ stage = "scene"
    /\ Report(EmptyCid)
    /\ misread' = TRUE

Respond ==
    /\ stage = "list"
    /\ cids = {}
    /\ stage' = "done"
    /\ UNCHANGED <<vars, area, at, root, cids, listed, answer, misread, calm, before>>

UploadStep ==
    /\ Next
    /\ calm' = (calm /\ (stage \in {"idle", "done", "failed"} \/ NobodyPublishes'))
    /\ UNCHANGED request

RNext ==
    \/ UploadStep
    \/ Ask \/ GetParcelCIDOf \/ ProcessedParcel \/ SkipParcel
    \/ \E r \in Roots : GetSceneParcels(r)
    \/ ListError \/ GetSceneCid \/ SceneCidError \/ Respond

RSpec == RInit /\ [][RNext]_rvars

-------------------------------------------------------------------------------

RTypeOK ==
    /\ stage \in {"idle", "get", "member", "list", "scene", "done", "failed"}
    /\ area \in Areas
    /\ at \in 1 .. Len(area)
    /\ root \in Roots \cup {NoRoot}
    /\ cids \subseteq Roots
    /\ listed \subseteq Parcels
    /\ answer \subseteq Scene
    /\ misread \in BOOLEAN /\ calm \in BOOLEAN
    /\ before \subseteq Uploads

(***************************************************************************)
(* Whatever uploads do in the meantime, complete or fail, a client that    *)
(* follows a scene of the answer finds it: some upload of that root        *)
(* claimed the parcel, and everything in its manifest is recorded and can  *)
(* be fetched.  (GetScenes reads parcel keys and lists, which uploads      *)
(* write after their files.)                                               *)
(***************************************************************************)
ScenesServable ==
    \A a \in answer :
        \E u \in Uploads :
            req[u].root = a.root /\ a.parcel \in Claims(req[u]) /\ Complete(req[u])

Listed(q) ==
    \A p \in Claims(q) :
        [parcel |-> p, root |-> q.root, scene |-> SceneCid(q)] \in answer

\* q touches the area that was asked for.
Asked(q) == Claims(q) \cap Range(area) # {}

(***************************************************************************)
(* A scene that was acknowledged before the request, and that no related   *)
(* upload has run into since, is in the answer with all its parcels, those *)
(* outside the area included, unless a read failed (docs/APIDOC.md:67).    *)
(***************************************************************************)
AcknowledgedListed ==
    stage = "done" /\ ~ misread =>
        \A u \in before : Undisturbed(u) /\ Asked(req[u]) => Listed(req[u])

(***************************************************************************)
(* No quiet parcel is in the answer under two roots if no upload was       *)
(* publishing while the lists were read: the evicted scenes a parcel key   *)
(* still leads to (data/redis.go:191-193) do not show.                     *)
(***************************************************************************)
ScenesDisjoint ==
    calm => \A a, b \in answer :
                a.parcel = b.parcel /\ a.parcel \in Quiet => a.root = b.root
===============================================================================
