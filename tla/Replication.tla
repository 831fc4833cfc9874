------------------------------ MODULE Replication ------------------------------
(***************************************************************************)
(* Runs of the replication command, which copies parcels from another      *)
(* server: it asks /mappings once, for the rectangle between two corners,  *)
(* then /validate for every parcel of the answer, and writes the answers   *)
(* into the Redis and the storage of the replica.  Uploads go on at the    *)
(* source meanwhile; runs may overlap, stop anywhere (log.Fatal), and be   *)
(* repeated.                                                               *)
(*                                                                         *)
(* The source is what modules SceneIndex and ParcelReader make of it: a    *)
(* parcel leads to one root, and a root has a fixed manifest.  An answer   *)
(* of /mappings is one step here; uploads between its reads are what       *)
(* module ParcelReader is about.                                           *)
(***************************************************************************)
EXTENDS Integers, FiniteSets

CONSTANTS
    Runs,           \* runs of the command
    Parcels,        \* parcels, by their coordinates
    Roots, Names, Cids,
    NoRoot,         \* a parcel key that is not set
    NoCid,          \* a field that is not set
    EmptyRoot,      \* the root CID in an answer that has none
    Corners,        \* two corners (NW and SE), as the command takes them
    Scene,          \* Scene[r]: the parcels of root r
    Manifest        \* Manifest[r]: the files of root r, by name

Hash == [Names -> Cids \cup {NoCid}]
Element == [file : Names, cid : Cids]

ASSUME ReplicationAssumption ==
    /\ Parcels # {} /\ Roots # {} /\ Names # {} /\ Cids # {}
    /\ NoRoot \notin Roots \cup {EmptyRoot} /\ EmptyRoot \notin Roots /\ NoCid \notin Cids
    /\ Parcels \subseteq [x : Int, y : Int]
    /\ Corners \subseteq [x1 : Int, y1 : Int, x2 : Int, y2 : Int] /\ Corners # {}
    /\ Scene \in [Roots -> SUBSET Parcels]
    /\ Manifest \in [Roots -> Hash]

VARIABLES
    source,         \* source[p]: the root that parcel p leads to at the source
    parcelRoot,     \* the replica's key <parcel>
    metadata,       \* roots that have a hash metadata_<root> on the replica
    content,        \* content[r]: the replica's hash content_<root>
    storage,        \* storage[c]: "none", "whole", or "other" bytes under name c
    pc,             \* pc[k]: what run k does next
    corners,        \* corners[k]: the arguments of run k
    todo,           \* todo[k]: entries of the answer of /mappings not copied yet
    entry,          \* entry[k]: the one being copied
    root,           \* root[k]: the root /validate named for it
    elements,       \* elements[k]: its files not copied yet
    element,        \* element[k]: the file being copied
    moved,          \* history: the source changed while a run was under way
    outage,         \* history: /validate answered without a root
    calm,           \* history: run k had the source and the replica to itself
    left            \* history: parcels missing from the answer of /mappings to run k

replica == <<parcelRoot, metadata, content, storage>>
work    == <<corners, todo, entry, root, elements, element>>
history == <<moved, outage, calm, left>>
vars    == <<source, replica, pc, work, history>>

Entry == [parcel : Parcels, contents : Roots]
Underway(k) == pc[k] \notin {"idle", "ok", "failed"}
Goto(k, step) == pc' = [pc EXCEPT ![k] = step]

Elements(r) == {e \in Element : Manifest[r][e.file] = e.cid}

Between(v, a, b) == (a <= v /\ v <= b) \/ (b <= v /\ v <= a)

(***************************************************************************)
(* The parcels /mappings looks up.  It takes both coordinates of a corner  *)
(* from its first token: the rectangle is the square over x1 and x2,       *)
(* whatever y1 and y2.  (Squares of more than 200 parcels are refused, see *)
(* module ParcelRect.)                                                     *)
(***************************************************************************)
Mapped(c) == {p \in Parcels : Between(p.x, c.x1, c.x2) /\ Between(p.y, c.x1, c.x2)}

-------------------------------------------------------------------------------

\* The replica may have files already, if it takes uploads as well.
Init ==
    /\ source = [p \in Parcels |-> NoRoot]
    /\ parcelRoot = [p \in Parcels |-> NoRoot]
    /\ metadata = {}
    /\ content = [r \in Roots \cup {EmptyRoot} |-> [n \in Names |-> NoCid]]
    /\ storage \in [Cids -> {"none", "whole"}]
    /\ pc = [k \in Runs |-> "idle"]
    /\ corners \in [Runs -> {CHOOSE c \in Corners : TRUE}]
    /\ todo = [k \in Runs |-> {}]
    /\ entry \in [Runs -> {CHOOSE e \in Entry : TRUE}]
    /\ root = [k \in Runs |-> EmptyRoot]
    /\ elements = [k \in Runs |-> {}]
    /\ element \in [Runs -> {CHOOSE e \in Element : TRUE}]
    /\ moved = FALSE
    /\ outage = FALSE
    /\ calm = [k \in Runs |-> FALSE]
    /\ left = [k \in Runs |-> {}]

\* An upload at the source takes over the parcels of its scene.
Publish(r) ==
    /\ source' = [p \in Parcels |-> IF p \in Scene[r] THEN r ELSE source[p]]
    /\ moved' = (moved \/ \E k \in Runs : Underway(k))
    /\ calm' = [k \in Runs |-> FALSE]
    /\ UNCHANGED <<replica, pc, work, outage, left>>

\* The parcels at the source that lead to a scene.
Led == {p \in Parcels : source[p] # NoRoot}

(***************************************************************************)
(* GET /mappings between the two corners.  A read of a parcel or its files *)
(* that fails is not reported: the answer goes without that parcel, with   *)
(* status 200.                                                             *)
(***************************************************************************)
GetMappings(k, c, lost) ==
    /\ pc[k] = "idle"
    /\ corners' = [corners EXCEPT ![k] = c]
    /\ left' = [left EXCEPT ![k] = lost]
    /\ todo' = [todo EXCEPT ![k] =
                  {e \in Entry : e.parcel \in Mapped(c) \ lost /\ source[e.parcel] = e.contents}]
    /\ Goto(k, IF todo'[k] = {} THEN "ok" ELSE "validate")
    /\ calm' = [j \in Runs |-> IF j = k THEN \A i \in Runs : ~ Underway(i) ELSE FALSE]
    /\ UNCHANGED <<source, replica, entry, root, elements, element, moved, outage>>

\* Mutant: what could not be decoded leaves the previous metadata in place.
GetValidateStale(k, e) ==
    /\ pc[k] = "validate" /\ e \in todo[k]
    /\ entry' = [entry EXCEPT ![k] = e]
    /\ todo' = [todo EXCEPT ![k] = @ \ {e}]
    /\ root' = [root EXCEPT ![k] = IF @ = EmptyRoot THEN source[e.parcel] ELSE @]
    /\ Goto(k, "key")
    /\ UNCHANGED <<source, replica, corners, elements, element, history>>

\* Mutant: an answer without a root is taken for a parcel without one.
GetValidateUnset(k, e) ==
    /\ pc[k] = "validate" /\ e \in todo[k]
    /\ entry' = [entry EXCEPT ![k] = e]
    /\ todo' = [todo EXCEPT ![k] = @ \ {e}]
    /\ root' = [root EXCEPT ![k] = NoRoot]
    /\ Goto(k, "key")
    /\ UNCHANGED <<source, replica, corners, elements, element, history>>

\* GET /validate of a parcel.  The status is not looked at: an error, or an
\* empty object, is decoded into metadata without a root CID.
GetValidate(k, e) ==
    /\ pc[k] = "validate" /\ e \in todo[k]
    /\ entry' = [entry EXCEPT ![k] = e]
    /\ todo' = [todo EXCEPT ![k] = @ \ {e}]
    /\ \/ root' = [root EXCEPT ![k] = source[e.parcel]] /\ UNCHANGED outage
       \/ root' = [root EXCEPT ![k] = EmptyRoot] /\ outage' = TRUE
    /\ Goto(k, "key")
    /\ UNCHANGED <<source, replica, corners, elements, element, moved, calm, left>>

\* Mutant: a key that is set is left alone.
SetParcelOnce(k) ==
    /\ pc[k] = "key"
    /\ parcelRoot' = [parcelRoot EXCEPT
                        ![entry[k].parcel] = IF @ = NoRoot THEN root[k] ELSE @]
    /\ Goto(k, "metadata")
    /\ UNCHANGED <<source, metadata, content, storage, work, history>>

SetParcel(k) ==
    /\ pc[k] = "key"
    /\ parcelRoot' = [parcelRoot EXCEPT ![entry[k].parcel] = root[k]]
    /\ Goto(k, "metadata")
    /\ UNCHANGED <<source, metadata, content, storage, work, history>>

NextEntry(k) == IF todo[k] = {} THEN "ok" ELSE "validate"

StoreMetadata(k) ==
    /\ pc[k] = "metadata"
    /\ metadata' = metadata \cup {root[k]}
    /\ elements' = [elements EXCEPT ![k] = Elements(entry[k].contents)]
    /\ Goto(k, IF elements'[k] = {} THEN NextEntry(k) ELSE "file")
    /\ UNCHANGED <<source, parcelRoot, content, storage, corners, todo, entry,
                   root, element, history>>

\* Mutant: a file the replica does not have is left for later.
SaveStoredFile(k, e) ==
    /\ pc[k] = "file" /\ e \in elements[k]
    /\ element' = [element EXCEPT ![k] = e]
    /\ elements' = [elements EXCEPT ![k] = @ \ {e}]
    /\ storage' = [storage EXCEPT ![e.cid] = IF @ = "none" THEN @ ELSE "other"]
    /\ Goto(k, "field")
    /\ UNCHANGED <<source, parcelRoot, metadata, content, corners, todo, entry, root, history>>

(***************************************************************************)
(* The files of an entry, in the order of the answer (that of a Go map).   *)
(* The request goes to /contents?<cid>, which no route serves (the route   *)
(* is /contents/:cid), and its status is not looked at: what is saved      *)
(* under the name of the file is an error page.                            *)
(***************************************************************************)
SaveFile(k, e) ==
    /\ pc[k] = "file" /\ e \in elements[k]
    /\ element' = [element EXCEPT ![k] = e]
    /\ elements' = [elements EXCEPT ![k] = @ \ {e}]
    /\ storage' = [storage EXCEPT ![e.cid] = "other"]
    /\ Goto(k, "field")
    /\ UNCHANGED <<source, parcelRoot, metadata, content, corners, todo, entry, root, history>>

\* Mutant: the loop over the files ends after the first one.
StoreFirstField(k) ==
    /\ pc[k] = "field"
    /\ content' = [content EXCEPT ![root[k]][element[k].file] = element[k].cid]
    /\ elements' = [elements EXCEPT ![k] = {}]
    /\ Goto(k, NextEntry(k))
    /\ UNCHANGED <<source, parcelRoot, metadata, storage, corners, todo, entry,
                   root, element, history>>

StoreField(k) ==
    /\ pc[k] = "field"
    /\ content' = [content EXCEPT ![root[k]][element[k].file] = element[k].cid]
    /\ Goto(k, IF elements[k] = {} THEN NextEntry(k) ELSE "file")
    /\ UNCHANGED <<source, parcelRoot, metadata, storage, work, history>>

\* log.Fatal, or the process is killed; a write may have been applied.  An
\* answer of /mappings other than 200 is not a list, and ends the run too.
Fail(k) ==
    /\ pc[k] = "idle" \/ Underway(k)
    /\ Goto(k, "failed")
    /\ UNCHANGED <<source, replica, work, history>>

Next ==
    \/ \E r \in Roots : Publish(r)
    \/ \E k \in Runs :
          \/ \E c \in Corners : \E lost \in SUBSET (Mapped(c) \cap Led) : GetMappings(k, c, lost)
          \/ \E e \in Entry : GetValidate(k, e)
          \/ SetParcel(k) \/ StoreMetadata(k)
          \/ \E e \in Element : SaveFile(k, e)
          \/ StoreField(k) \/ Fail(k)

Spec == Init /\ [][Next]_vars

-------------------------------------------------------------------------------

Found == Roots \cup {EmptyRoot}

TypeOK ==
    /\ source \in [Parcels -> Roots \cup {NoRoot}]
    /\ parcelRoot \in [Parcels -> Found \cup {NoRoot}]
    /\ metadata \subseteq Found
    /\ content \in [Found -> Hash]
    /\ storage \in [Cids -> {"none", "whole", "other"}]
    /\ pc \in [Runs -> {"idle", "validate", "key", "metadata", "file", "field",
                        "ok", "failed"}]
    /\ corners \in [Runs -> Corners] /\ left \in [Runs -> SUBSET Parcels]
    /\ todo \in [Runs -> SUBSET Entry] /\ entry \in [Runs -> Entry]
    /\ root \in [Runs -> Found]
    /\ elements \in [Runs -> SUBSET Element] /\ element \in [Runs -> Element]
    /\ moved \in BOOLEAN /\ outage \in BOOLEAN /\ calm \in [Runs -> BOOLEAN]

(***************************************************************************)
(* Every file the replica records for a root has an object in its storage, *)
(* and the root its metadata, wherever runs stop and however they overlap  *)
(* (the files and the hash are written in this order, unlike the parcel    *)
(* key) - though the object is not the file.                               *)
(***************************************************************************)
RecordedIsStored ==
    \A r \in Found, n \in Names : content[r][n] # NoCid =>
        storage[content[r][n]] # "none" /\ r \in metadata

(***************************************************************************)
(* The replica records a file for a root that does not have it, or files   *)
(* without a root, only if the source changed between /mappings and        *)
(* /validate or /validate failed: the two answers are never matched.       *)
(***************************************************************************)
NotMixed ==
    ~ moved /\ ~ outage =>
        /\ content[EmptyRoot] = [n \in Names |-> NoCid]
        /\ \A r \in Roots, n \in Names : content[r][n] \in {NoCid, Manifest[r][n]}

\* The metadata and the list of files of a root; what is stored under the
\* CIDs of the list is not the files (see SaveFile).
Recorded(r) == r \in metadata /\ \A n \in Names : Manifest[r][n] # NoCid =>
                                     content[r][n] = Manifest[r][n]

(***************************************************************************)
(* The parcel key comes first, so readers of the replica find parcels      *)
(* whose metadata or list of files is missing or short; but only while a   *)
(* run is copying that root, or after one has stopped, or if the source    *)
(* changed or failed meanwhile.                                            *)
(***************************************************************************)
GapsExplained ==
    ~ moved /\ ~ outage =>
        \A p \in Parcels : parcelRoot[p] # NoRoot =>
            \/ Recorded(parcelRoot[p])
            \/ \E k \in Runs : root[k] = parcelRoot[p] /\ (Underway(k) \/ pc[k] = "failed")

(***************************************************************************)
(* Repeating the command mends the index: after a run that ended without   *)
(* an error, met no failure of /validate and had the source and the        *)
(* replica to itself, every parcel of the square over x1 and x2 that       *)
(* /mappings did not leave out has the root it has at the source, with     *)
(* metadata and the whole list of files, whatever earlier runs had left    *)
(* behind.  This is not the area asked for unless the corners are on the   *)
(* diagonal, and it does not bring the files themselves: what is under     *)
(* their names are error pages, however often the command is repeated.     *)
(***************************************************************************)
CopyCurrent ==
    \A k \in Runs : pc[k] = "ok" /\ calm[k] /\ ~ outage =>
        \A p \in Mapped(corners[k]) \ left[k] : source[p] # NoRoot =>
            parcelRoot[p] = source[p] /\ Recorded(source[p])
===============================================================================
