--------------------------- MODULE ReplicationProofs ---------------------------
(***************************************************************************)
(* Theorems about Replication for any runs, scenes and areas: in what      *)
(* order a copy is written, and what repeating the command brings about.   *)
(***************************************************************************)
EXTENDS Replication, TLAPS

Copying == {"key", "metadata", "file", "field"}

\* The files of its entry that run k has not recorded yet.
Pending(k) == elements[k] \cup (IF pc[k] = "field" THEN {element[k]} ELSE {})

\* The two answers run k works from belong together.
Undisturbed(k) == ~ outage /\ (~ moved \/ calm[k])

File(r, n) == [file |-> n, cid |-> Manifest[r][n]]

(***************************************************************************)
(* What a run relies on, whatever the others and the source do.            *)
(***************************************************************************)
RunInv ==
    \A k \in Runs :
        /\ \A e \in todo[k] : source[e.parcel] # NoRoot
        /\ pc[k] = "idle" => root[k] = EmptyRoot /\ ~ calm[k]
        /\ pc[k] \in {"file", "field"} =>
              root[k] \in metadata /\ Pending(k) \subseteq Elements(entry[k].contents)
        /\ pc[k] = "field" => storage[element[k].cid] # "none"
        /\ calm[k] => \A i \in Runs : Underway(i) => i = k

(***************************************************************************)
(* What it has achieved as long as its two answers belong together: the    *)
(* root it copies is the one it was told, and what it has not copied of it *)
(* is pending.                                                             *)
(***************************************************************************)
Work(k) ==
    /\ Underway(k) => \A e \in todo[k] : source[e.parcel] = e.contents
    /\ pc[k] \in Copying =>
          root[k] = entry[k].contents /\ source[entry[k].parcel] = root[k]
    /\ pc[k] \in {"file", "field"} =>
          \A n \in Names : Manifest[root[k]][n] # NoCid =>
              content[root[k]][n] = Manifest[root[k]][n] \/ File(root[k], n) \in Pending(k)
    /\ pc[k] \in {"validate", "ok"} => root[k] = EmptyRoot \/ Recorded(root[k])

WorkInv == \A k \in Runs : Undisturbed(k) => Work(k)

\* No parcel leads to files without a root.
KeyInv == ~ moved /\ ~ outage => \A p \in Parcels : parcelRoot[p] # EmptyRoot

\* Run k asks /mappings.
Ask(k) == \E c \in Corners : \E lost \in SUBSET (Mapped(c) \cap Led) : GetMappings(k, c, lost)

\* A parcel /mappings has answered for is waiting, being copied, or done.
Copy(k) ==
    /\ pc[k] \in Copying \ {"key"} => parcelRoot[entry[k].parcel] = root[k]
    /\ pc[k] # "failed" => \A p \in Mapped(corners[k]) \ left[k] : source[p] # NoRoot =>
          \/ Underway(k) /\ [parcel |-> p, contents |-> source[p]] \in todo[k]
          \/ pc[k] \in Copying /\ entry[k].parcel = p
          \/ parcelRoot[p] = source[p] /\ Recorded(source[p])

CopyInv == \A k \in Runs : calm[k] /\ ~ outage => Copy(k)

-------------------------------------------------------------------------------
(***************************************************************************)
(* Types.                                                                  *)
(***************************************************************************)

LEMMA InitType == Init => TypeOK
<1> SUFFICES ASSUME Init PROVE TypeOK
    OBVIOUS
<1>1. Entry # {} /\ Element # {}
    <2>1. PICK p \in Parcels, r \in Roots, n \in Names, c \in Cids : TRUE
        BY ReplicationAssumption
    <2>2. [parcel |-> p, contents |-> r] \in Entry /\ [file |-> n, cid |-> c] \in Element
        BY DEF Entry, Element
    <2> QED  BY <2>2
<1>2. entry \in [Runs -> Entry] /\ element \in [Runs -> Element]
    <2>1. (CHOOSE e \in Entry : TRUE) \in Entry /\ (CHOOSE e \in Element : TRUE) \in Element
        BY <1>1
    <2> QED  BY <2>1 DEF Init
<1>3. content \in [Found -> Hash] /\ parcelRoot \in [Parcels -> Found \cup {NoRoot}]
    BY DEF Init, Found, Hash
<1>4. source \in [Parcels -> Roots \cup {NoRoot}] /\ root \in [Runs -> Found]
    BY DEF Init, Found
<1>5. storage \in [Cids -> {"none", "whole", "other"}]
    BY DEF Init
<1>6. todo \in [Runs -> SUBSET Entry] /\ elements \in [Runs -> SUBSET Element]
    BY DEF Init
<1>7. corners \in [Runs -> Corners] /\ left \in [Runs -> SUBSET Parcels]
    <2>1. (CHOOSE c \in Corners : TRUE) \in Corners
        BY ReplicationAssumption
    <2> QED  BY <2>1 DEF Init
<1> QED  BY <1>2, <1>3, <1>4, <1>5, <1>6, <1>7 DEF Init, TypeOK

LEMMA TypeStep == TypeOK /\ (\A k \in Runs : \A e \in todo[k] : source[e.parcel] # NoRoot)
                  /\ [Next]_vars => TypeOK'
<1> SUFFICES ASSUME TypeOK, \A k \in Runs : \A e \in todo[k] : source[e.parcel] # NoRoot,
                    [Next]_vars
             PROVE  TypeOK'
    OBVIOUS
<1> USE DEF TypeOK, Found, Goto, replica, work, history
<1>1. ASSUME NEW r \in Roots, Publish(r) PROVE TypeOK'
    BY <1>1 DEF Publish
<1>2. ASSUME NEW k \in Runs, Ask(k) PROVE TypeOK'
    BY <1>2 DEF Ask, GetMappings, Mapped
<1>3. ASSUME NEW k \in Runs, NEW e \in Entry, GetValidate(k, e) PROVE TypeOK'
    <2>1. source[e.parcel] \in Roots
        BY <1>3 DEF GetValidate, Entry
    <2> QED  BY <1>3, <2>1 DEF GetValidate
<1>4. ASSUME NEW k \in Runs, SetParcel(k) PROVE TypeOK'
    BY <1>4 DEF SetParcel
<1>5. ASSUME NEW k \in Runs, StoreMetadata(k) PROVE TypeOK'
    BY <1>5 DEF StoreMetadata, NextEntry, Elements
<1>6. ASSUME NEW k \in Runs, NEW e \in Element, SaveFile(k, e) PROVE TypeOK'
    BY <1>6 DEF SaveFile, Element
<1>7. ASSUME NEW k \in Runs, StoreField(k) PROVE TypeOK'
    BY <1>7 DEF StoreField, NextEntry, Element, Hash
<1>8. ASSUME NEW k \in Runs, Fail(k) PROVE TypeOK'
    BY <1>8 DEF Fail
<1>9. CASE UNCHANGED vars
    BY <1>9 DEF vars
<1> QED  BY <1>1, <1>2, <1>3, <1>4, <1>5, <1>6, <1>7, <1>8, <1>9 DEF Next, Ask

LEMMA RunStep == TypeOK /\ RunInv /\ [Next]_vars => RunInv'
<1> SUFFICES ASSUME TypeOK, RunInv, [Next]_vars PROVE RunInv'
    OBVIOUS
<1> USE DEF TypeOK, RunInv, Underway, Goto, Pending, replica, work, history
<1>1. ASSUME NEW r \in Roots, Publish(r) PROVE RunInv'
    BY <1>1, ReplicationAssumption DEF Publish, Entry
<1>2. ASSUME NEW k \in Runs, Ask(k) PROVE RunInv'
    <2>1. /\ pc[k] = "idle" /\ pc'[k] \in {"ok", "validate"}
          /\ \A e \in todo'[k] : e \in Entry /\ source[e.parcel] = e.contents
          /\ calm'[k] => \A i \in Runs : ~ Underway(i)
          /\ \A i \in Runs : i # k => ~ calm'[i] /\ pc'[i] = pc[i] /\ todo'[i] = todo[i]
          /\ UNCHANGED <<source, metadata, storage, entry, root, elements, element>>
        BY <1>2 DEF Ask, GetMappings
    <2>2. \A e \in todo'[k] : source[e.parcel] # NoRoot
        BY <2>1, ReplicationAssumption DEF Entry
    <2>3. \A i \in Runs : \A e \in todo'[i] : source'[e.parcel] # NoRoot
        BY <2>1, <2>2
    <2>4. \A i \in Runs : pc'[i] = "idle" => root'[i] = EmptyRoot /\ ~ calm'[i]
        BY <2>1
    <2>5. \A i \in Runs : /\ pc'[i] \in {"file", "field"} =>
                               root'[i] \in metadata' /\ Pending(i)' \subseteq Elements(entry'[i].contents)
                          /\ pc'[i] = "field" => storage'[element'[i].cid] # "none"
        <3>1. pc'[k] \notin {"file", "field"}
            BY <2>1
        <3>2. ASSUME NEW i \in Runs, i # k
              PROVE  /\ pc'[i] = pc[i] /\ root'[i] = root[i] /\ entry'[i] = entry[i]
                     /\ Pending(i)' = Pending(i) /\ metadata' = metadata
                     /\ storage'[element'[i].cid] = storage[element[i].cid]
            BY <2>1, <3>2
        <3> QED  BY <3>1, <3>2
    <2>6. \A i \in Runs : calm'[i] => \A j \in Runs : Underway(j)' => j = i
        BY <2>1
    <2> QED  BY <2>3, <2>4, <2>5, <2>6 DEF Elements
<1>3. ASSUME NEW k \in Runs, NEW e \in Entry, GetValidate(k, e) PROVE RunInv'
    BY <1>3 DEF GetValidate
<1>4. ASSUME NEW k \in Runs, SetParcel(k) PROVE RunInv'
    BY <1>4 DEF SetParcel
<1>5. ASSUME NEW k \in Runs, StoreMetadata(k) PROVE RunInv'
    BY <1>5 DEF StoreMetadata, NextEntry
<1>6. ASSUME NEW k \in Runs, NEW e \in Element, SaveFile(k, e) PROVE RunInv'
    BY <1>6 DEF SaveFile, Element
<1>7. ASSUME NEW k \in Runs, StoreField(k) PROVE RunInv'
    BY <1>7 DEF StoreField, NextEntry
<1>8. ASSUME NEW k \in Runs, Fail(k) PROVE RunInv'
    BY <1>8 DEF Fail
<1>9. CASE UNCHANGED vars
    BY <1>9 DEF vars
<1> QED  BY <1>1, <1>2, <1>3, <1>4, <1>5, <1>6, <1>7, <1>8, <1>9 DEF Next, Ask

LEMMA InitRun == Init => RunInv /\ RecordedIsStored
BY DEF Init, RunInv, RecordedIsStored, Underway, Found

LEMMA RunInvariant == Spec => [](TypeOK /\ RunInv)
<1>1. TypeOK /\ RunInv /\ [Next]_vars => TypeOK'
    BY TypeStep DEF RunInv
<1> QED  BY <1>1, InitType, InitRun, RunStep, PTL DEF Spec

(***************************************************************************)
(* Every reachable state is well typed: the key of a parcel is only ever   *)
(* set to a root that /validate named, or to the empty one.                *)
(***************************************************************************)
THEOREM TypeCorrect == Spec => []TypeOK
BY RunInvariant, PTL

-------------------------------------------------------------------------------
(***************************************************************************)
(* The order of the writes.                                                *)
(***************************************************************************)

LEMMA RecordedStep == TypeOK /\ RunInv /\ RecordedIsStored /\ [Next]_vars => RecordedIsStored'
<1> SUFFICES ASSUME TypeOK, RunInv, RecordedIsStored, [Next]_vars PROVE RecordedIsStored'
    OBVIOUS
<1> USE DEF TypeOK, RecordedIsStored, Found, Hash, replica
<1>1. ASSUME NEW k \in Runs, StoreMetadata(k) PROVE RecordedIsStored'
    BY <1>1 DEF StoreMetadata
<1>2. ASSUME NEW k \in Runs, NEW e \in Element, SaveFile(k, e) PROVE RecordedIsStored'
    BY <1>2 DEF SaveFile, Element
<1>3. ASSUME NEW k \in Runs, StoreField(k) PROVE RecordedIsStored'
    BY <1>3 DEF StoreField, RunInv, Element
<1>4. CASE UNCHANGED <<content, storage, metadata>>
    BY <1>4
<1> QED  BY <1>1, <1>2, <1>3, <1>4
         DEF Next, vars, Publish, Ask, GetMappings, GetValidate, SetParcel, Fail

(***************************************************************************)
(* Every file the replica records for a root has an object in its storage, *)
(* and the root its metadata, wherever runs stop and however they overlap. *)
(***************************************************************************)
THEOREM RecordedIsStoredHolds == Spec => []RecordedIsStored
BY RunInvariant, InitRun, RecordedStep, PTL DEF Spec

-------------------------------------------------------------------------------
(***************************************************************************)
(* The work of a run whose two answers belong together.                    *)
(***************************************************************************)

\* A run that writes works undisturbed if any does.
LEMMA Together ==
    ASSUME RunInv, NEW k \in Runs, NEW i \in Runs, Undisturbed(k), Underway(i)
    PROVE  Undisturbed(i)
BY DEF RunInv, Undisturbed

\* The field that is recorded is one of the manifest.
LEMMA FieldFacts ==
    ASSUME TypeOK, RunInv, WorkInv, NEW k \in Runs, Undisturbed(k), pc[k] = "field"
    PROVE  /\ root[k] \in Roots /\ element[k].file \in Names
           /\ element[k].cid = Manifest[root[k]][element[k].file]
           /\ element[k] = File(root[k], element[k].file)
<1>1. root[k] = entry[k].contents /\ element[k] \in Elements(entry[k].contents)
    BY DEF RunInv, WorkInv, Work, Pending, Copying
<1>2. entry[k].contents \in Roots /\ element[k] \in Element
    BY DEF TypeOK, Entry
<1> QED  BY <1>1, <1>2 DEF Elements, Element, File

LEMMA MetadataGrows == [Next]_vars => metadata \subseteq metadata'
BY DEF Next, vars, replica, Publish, Ask, GetMappings, GetValidate, SetParcel, StoreMetadata, SaveFile,
       StoreField, Fail

\* What has been copied stays.
LEMMA CopiedKept ==
    ASSUME TypeOK, RunInv, WorkInv, [Next]_vars,
           NEW k \in Runs, Undisturbed(k),
           NEW r \in Roots, NEW n \in Names, Manifest[r][n] # NoCid
    PROVE  content[r][n] = Manifest[r][n] => content'[r][n] = Manifest[r][n]
<1>2. ASSUME NEW i \in Runs, StoreField(i), content[r][n] = Manifest[r][n]
      PROVE  content'[r][n] = Manifest[r][n]
    <2>1. Undisturbed(i) /\ pc[i] = "field"
        <3>1. pc[i] = "field" /\ Underway(i)
            BY <1>2 DEF StoreField, Underway
        <3> QED  BY <3>1, Together
    <2>2. content \in [Found -> Hash] /\ r \in Found /\ root[i] \in Found
        BY DEF TypeOK, Found
    <2>3. content' = [content EXCEPT ![root[i]][element[i].file] = element[i].cid]
        BY <1>2 DEF StoreField
    <2> QED  BY <1>2, <2>1, <2>2, <2>3, FieldFacts DEF Hash
<1>3. CASE UNCHANGED content
    BY <1>3
<1> QED  BY <1>2, <1>3
         DEF Next, vars, replica, Publish, Ask, GetMappings, GetValidate, SetParcel, StoreMetadata, SaveFile, Fail

\* A run ends, fails, turns to its next entry, or goes on with its root.
LEMMA FateOfRun ==
    ASSUME TypeOK, [Next]_vars, NEW k \in Runs, Underway(k) \/ pc[k] = "failed"
    PROVE  \/ root'[k] = root[k] /\ (Underway(k)' \/ pc'[k] = "failed")
           \/ root'[k] = root[k] /\ pc'[k] = "ok"
           \/ pc[k] = "validate"
<1>1. ASSUME NEW r \in Roots, Publish(r) PROVE root'[k] = root[k] /\ pc'[k] = pc[k]
    BY <1>1 DEF Publish, work
<1>2. ASSUME NEW i \in Runs, i # k,
             \/ Ask(i) \/ SetParcel(i) \/ StoreMetadata(i) \/ StoreField(i)
             \/ \E e \in Entry : GetValidate(i, e)
             \/ \E e \in Element : SaveFile(i, e)
             \/ Fail(i)
      PROVE  root'[k] = root[k] /\ pc'[k] = pc[k]
    BY <1>2 DEF Ask, GetMappings, SetParcel, StoreMetadata, StoreField, GetValidate, SaveFile, Fail,
                Goto, TypeOK, work
<1>3. CASE Ask(k) \/ \E e \in Entry : GetValidate(k, e)
    BY <1>3 DEF Ask, GetMappings, GetValidate, Underway
<1>4. CASE \/ SetParcel(k) \/ StoreMetadata(k) \/ StoreField(k)
           \/ \E e \in Element : SaveFile(k, e)
           \/ Fail(k)
    <2>1. root' = root
        BY <1>4 DEF SetParcel, StoreMetadata, SaveFile, StoreField, Fail, work
    <2>2. pc'[k] \in {"metadata", "file", "validate", "ok", "field", "failed"}
        BY <1>4 DEF SetParcel, StoreMetadata, SaveFile, StoreField, Fail, Goto, NextEntry, TypeOK
    <2> QED  BY <2>1, <2>2 DEF Underway
<1>5. CASE UNCHANGED vars
    BY <1>5 DEF vars, work, Underway
<1> QED  BY <1>1, <1>2, <1>3, <1>4, <1>5 DEF Next, Ask, Underway

LEMMA CalmBefore ==
    ASSUME TypeOK, [Next]_vars, NEW i \in Runs, calm'[i]
    PROVE  calm[i] \/ Ask(i)
<1>1. ASSUME NEW r \in Roots, Publish(r) PROVE ~ calm'[i]
    BY <1>1 DEF Publish
<1>2. ASSUME NEW k \in Runs, Ask(k), k # i PROVE ~ calm'[i]
    BY <1>2 DEF Ask, GetMappings
<1>3. CASE calm' = calm
    BY <1>3
<1> QED  BY <1>1, <1>2, <1>3
         DEF Next, Ask, vars, history, GetValidate, SetParcel, StoreMetadata, SaveFile, StoreField, Fail

\* A run is undisturbed from the beginning on.
LEMMA UndisturbedBefore ==
    ASSUME TypeOK, [Next]_vars, NEW i \in Runs, Undisturbed(i)'
    PROVE  Undisturbed(i) \/ Ask(i)
<1>1. (~ outage' => ~ outage) /\ (~ moved' => ~ moved)
    BY DEF Next, vars, history, TypeOK, Publish, Ask, GetMappings, GetValidate, SetParcel, StoreMetadata,
           SaveFile, StoreField, Fail
<1>2. calm'[i] => calm[i] \/ Ask(i)
    BY CalmBefore
<1> QED  BY <1>1, <1>2 DEF Undisturbed

\* What the others and the source do does not undo the work of a run.
LEMMA OthersWork ==
    ASSUME TypeOK, RunInv, WorkInv, [Next]_vars, NEW i \in Runs,
           Undisturbed(i), Undisturbed(i)',
           pc'[i] = pc[i], todo'[i] = todo[i], entry'[i] = entry[i], root'[i] = root[i],
           elements'[i] = elements[i], element'[i] = element[i],
           Underway(i) => source' = source
    PROVE  Work(i)'
<1>1. Work(i)
    BY DEF WorkInv
<1>2. root[i] \in Roots \/ root[i] = EmptyRoot
    BY DEF TypeOK, Found
<1>3. (Underway(i) => \A e \in todo[i] : source[e.parcel] = e.contents)'
    BY <1>1 DEF Work, Underway
<1>4. (pc[i] \in Copying => root[i] = entry[i].contents /\ source[entry[i].parcel] = root[i])'
    BY <1>1 DEF Work, Underway, Copying
<1>5. (pc[i] \in {"file", "field"} =>
          \A n \in Names : Manifest[root[i]][n] # NoCid =>
              content[root[i]][n] = Manifest[root[i]][n] \/ File(root[i], n) \in Pending(i))'
    <2>1. pc[i] \in {"file", "field"} => root[i] \in Roots
        BY <1>1 DEF Work, Copying, TypeOK, Entry
    <2>2. \A r \in Roots : \A n \in Names : Manifest[r][n] # NoCid =>
              (content[r][n] = Manifest[r][n] => content'[r][n] = Manifest[r][n])
        BY CopiedKept
    <2>3. Pending(i)' = Pending(i)
        BY DEF Pending
    <2> QED  BY <1>1, <2>1, <2>2, <2>3 DEF Work, File
<1>6. (pc[i] \in {"validate", "ok"} => root[i] = EmptyRoot \/ Recorded(root[i]))'
    <2>1. ASSUME NEW r \in Roots, Recorded(r) PROVE Recorded(r)'
        <3>1. metadata \subseteq metadata'
            BY MetadataGrows
        <3> QED  BY <2>1, <3>1, CopiedKept DEF Recorded
    <2>2. root'[i] = root[i] /\ (Recorded(root[i]) /\ root[i] \in Roots => Recorded(root[i])')
        BY <2>1 DEF Recorded
    <2> QED  BY <1>1, <1>2, <2>2 DEF Work
<1> QED  BY <1>3, <1>4, <1>5, <1>6 DEF Work

LEMMA OwnMappings ==
    ASSUME TypeOK, RunInv, NEW k \in Runs, Ask(k)
    PROVE  Work(k)'
<1>1. PICK c \in Corners : \E lost \in SUBSET (Mapped(c) \cap Led) : GetMappings(k, c, lost)
    BY DEF Ask
<1>2. PICK lost \in SUBSET (Mapped(c) \cap Led) : GetMappings(k, c, lost)
    BY <1>1
<1>3. /\ pc[k] = "idle" /\ pc'[k] \in {"ok", "validate"} /\ root'[k] = EmptyRoot
      /\ source' = source
      /\ todo'[k] = {e \in Entry : e.parcel \in Mapped(c) \ lost /\ source[e.parcel] = e.contents}
    BY <1>2 DEF GetMappings, Goto, TypeOK, RunInv
<1> QED  BY <1>3 DEF Work, Copying

LEMMA OwnValidate ==
    ASSUME TypeOK, RunInv, WorkInv, NEW k \in Runs, NEW e \in Entry, GetValidate(k, e), Undisturbed(k),
           Undisturbed(k)'
    PROVE  Work(k)'
<1>1. /\ pc[k] = "validate" /\ e \in todo[k] /\ pc'[k] = "key" /\ source' = source
      /\ entry'[k] = e /\ todo'[k] = todo[k] \ {e} /\ root'[k] = source[e.parcel]
    BY DEF GetValidate, Goto, TypeOK, Undisturbed
<1>2. \A x \in todo[k] : source[x.parcel] = x.contents
    BY <1>1 DEF WorkInv, Work, Underway
<1> QED  BY <1>1, <1>2 DEF Work, Copying

LEMMA OwnKey ==
    ASSUME TypeOK, WorkInv, NEW k \in Runs, SetParcel(k), Undisturbed(k)
    PROVE  Work(k)'
<1>1. /\ pc[k] = "key" /\ pc'[k] = "metadata" /\ source' = source
      /\ UNCHANGED work
    BY DEF SetParcel, Goto, TypeOK
<1> QED  BY <1>1 DEF WorkInv, Work, Copying, Underway, work

LEMMA OwnMetadata ==
    ASSUME TypeOK, WorkInv, NEW k \in Runs, StoreMetadata(k), Undisturbed(k)
    PROVE  Work(k)'
<1>1. /\ pc[k] = "metadata" /\ source' = source /\ content' = content
      /\ UNCHANGED <<todo, entry, root, element>>
      /\ metadata' = metadata \cup {root[k]}
      /\ elements'[k] = Elements(entry[k].contents)
      /\ pc'[k] = IF elements'[k] = {} THEN NextEntry(k) ELSE "file"
    BY DEF StoreMetadata, Goto, TypeOK
<1>2. /\ root[k] = entry[k].contents /\ source[entry[k].parcel] = root[k]
      /\ \A e \in todo[k] : source[e.parcel] = e.contents
    BY <1>1 DEF WorkInv, Work, Copying, Underway
<1>3. root[k] \in Roots /\ Manifest[root[k]] \in Hash
    BY <1>2, ReplicationAssumption DEF TypeOK, Entry
<1>4. ASSUME NEW n \in Names, Manifest[root[k]][n] # NoCid
      PROVE  File(root[k], n) \in elements'[k]
    BY <1>1, <1>2, <1>3, <1>4 DEF Elements, Element, File, Hash
<1>5. elements'[k] = {} => Recorded(root[k])'
    BY <1>1, <1>4 DEF Recorded
<1>6. elements[k]' \subseteq Pending(k)'
    BY DEF Pending
<1> QED  BY <1>1, <1>2, <1>4, <1>5, <1>6 DEF Work, Copying, NextEntry, File

LEMMA OwnFile ==
    ASSUME TypeOK, WorkInv, NEW k \in Runs, NEW e \in Element, SaveFile(k, e), Undisturbed(k)
    PROVE  Work(k)'
<1>1. /\ pc[k] = "file" /\ pc'[k] = "field" /\ source' = source /\ content' = content
      /\ e \in elements[k]
      /\ UNCHANGED <<todo, entry, root, metadata>>
      /\ elements'[k] = elements[k] \ {e} /\ element'[k] = e
    BY DEF SaveFile, Goto, TypeOK
<1>2. Pending(k)' = Pending(k)
    BY <1>1 DEF Pending
<1> QED  BY <1>1, <1>2 DEF WorkInv, Work, Copying, Underway, File

LEMMA OwnField ==
    ASSUME TypeOK, RunInv, WorkInv, NEW k \in Runs, StoreField(k), Undisturbed(k)
    PROVE  Work(k)'
<1>1. /\ pc[k] = "field" /\ source' = source /\ metadata' = metadata
      /\ UNCHANGED <<todo, entry, root, elements, element>>
      /\ content' = [content EXCEPT ![root[k]][element[k].file] = element[k].cid]
      /\ pc'[k] = IF elements[k] = {} THEN NextEntry(k) ELSE "file"
    BY DEF StoreField, Goto, TypeOK, work
<1>2. /\ root[k] = entry[k].contents /\ source[entry[k].parcel] = root[k]
      /\ \A e \in todo[k] : source[e.parcel] = e.contents
      /\ \A n \in Names : Manifest[root[k]][n] # NoCid =>
            content[root[k]][n] = Manifest[root[k]][n] \/ File(root[k], n) \in Pending(k)
    BY <1>1 DEF WorkInv, Work, Copying, Underway
<1>3. ASSUME NEW n \in Names, Manifest[root[k]][n] # NoCid
      PROVE  content'[root[k]][n] = Manifest[root[k]][n] \/ File(root[k], n) \in elements[k]
    <2>1. root[k] \in Found /\ content \in [Found -> Hash]
        BY DEF TypeOK
    <2>2. CASE n = element[k].file
        BY <1>1, <2>1, <2>2, FieldFacts DEF Hash
    <2>3. CASE n # element[k].file
        <3>1. content'[root[k]][n] = content[root[k]][n]
            BY <1>1, <2>1, <2>3 DEF Hash
        <3>2. File(root[k], n) # element[k]
            BY <2>3 DEF File
        <3> QED  BY <1>1, <1>2, <1>3, <3>1, <3>2 DEF Pending
    <2> QED  BY <2>2, <2>3
<1>4. elements[k] = {} => Recorded(root[k])'
    BY <1>1, <1>3 DEF Recorded, RunInv
<1>5. elements[k]' \subseteq Pending(k)'
    BY DEF Pending
<1> QED  BY <1>1, <1>2, <1>3, <1>4, <1>5 DEF Work, Copying, NextEntry, File

LEMMA WorkStep == TypeOK /\ RunInv /\ WorkInv /\ [Next]_vars => WorkInv'
<1> SUFFICES ASSUME TypeOK, RunInv, WorkInv, [Next]_vars, NEW i \in Runs, Undisturbed(i)'
             PROVE  Work(i)'
    BY DEF WorkInv
<1>1. CASE Ask(i)
    BY <1>1, OwnMappings
<1>2. CASE ~ Ask(i)
    <2>1. Undisturbed(i)
        BY <1>2, UndisturbedBefore
    <2> DEFINE Kept == /\ pc'[i] = pc[i] /\ todo'[i] = todo[i] /\ entry'[i] = entry[i]
                       /\ root'[i] = root[i] /\ elements'[i] = elements[i]
                       /\ element'[i] = element[i] /\ (Underway(i) => source' = source)
    <2>2. Kept => Work(i)'
        BY <2>1, OthersWork
    <2>3. ASSUME NEW r \in Roots, Publish(r) PROVE Kept
        <3>1. ~ moved'
            BY <2>3 DEF Undisturbed, Publish
        <3>2. ~ Underway(i)
            BY <2>3, <3>1 DEF Publish
        <3> QED  BY <2>3, <3>2 DEF Publish, work
    <2>4. ASSUME NEW k \in Runs, k # i,
                 \/ Ask(k) \/ SetParcel(k) \/ StoreMetadata(k) \/ StoreField(k)
                 \/ \E e \in Entry : GetValidate(k, e)
                 \/ \E e \in Element : SaveFile(k, e)
                 \/ Fail(k)
          PROVE  Kept
        BY <2>4 DEF Ask, GetMappings, SetParcel, StoreMetadata, StoreField, GetValidate, SaveFile, Fail,
                    Goto, TypeOK, work
    <2>5. CASE Fail(i)
        <3>1. pc'[i] = "failed"
            BY <2>5 DEF Fail, Goto, TypeOK
        <3> QED  BY <3>1 DEF Work, Copying, Underway
    <2>6. CASE UNCHANGED vars
        BY <2>2, <2>6 DEF vars, work
    <2> QED  BY <1>2, <2>1, <2>2, <2>3, <2>4, <2>5, <2>6, OwnValidate, OwnKey, OwnMetadata, OwnFile, OwnField
             DEF Next, Ask
<1> QED  BY <1>1, <1>2

LEMMA InitWork == Init => WorkInv /\ NotMixed /\ KeyInv /\ GapsExplained /\ CopyInv
<1> SUFFICES ASSUME Init PROVE WorkInv /\ NotMixed /\ KeyInv /\ GapsExplained /\ CopyInv
    OBVIOUS
<1>1. WorkInv
    BY DEF Init, WorkInv, Work, Underway, Copying
<1>2. NotMixed
    BY DEF Init, NotMixed
<1>3. KeyInv /\ GapsExplained
    BY ReplicationAssumption DEF Init, KeyInv, GapsExplained
<1>4. CopyInv
    BY DEF Init, CopyInv
<1> QED  BY <1>1, <1>2, <1>3, <1>4

LEMMA WorkInvariant == Spec => [](TypeOK /\ RunInv /\ WorkInv)
BY RunInvariant, InitWork, WorkStep, PTL DEF Spec

-------------------------------------------------------------------------------
(***************************************************************************)
(* What a replica holds if the source did not change under a run.          *)
(***************************************************************************)

LEMMA MixedStep == TypeOK /\ RunInv /\ WorkInv /\ NotMixed /\ [Next]_vars => NotMixed'
<1> SUFFICES ASSUME TypeOK, RunInv, WorkInv, NotMixed, [Next]_vars, ~ moved', ~ outage'
             PROVE  NotMixed'
    BY DEF NotMixed
<1>1. ~ moved /\ ~ outage
    BY DEF Next, vars, history, TypeOK, Publish, Ask, GetMappings, GetValidate, SetParcel, StoreMetadata,
           SaveFile, StoreField, Fail
<1>2. ASSUME NEW k \in Runs, StoreField(k) PROVE NotMixed'
    <2>1. /\ root[k] \in Roots /\ element[k].file \in Names
          /\ element[k].cid = Manifest[root[k]][element[k].file]
        BY <1>1, <1>2, FieldFacts DEF StoreField, Undisturbed
    <2>2. content \in [Found -> Hash]
          /\ content' = [content EXCEPT ![root[k]][element[k].file] = element[k].cid]
        BY <1>2 DEF StoreField, TypeOK
    <2> QED  BY <1>1, <2>1, <2>2, ReplicationAssumption DEF NotMixed, Found, Hash
<1>3. CASE UNCHANGED content
    BY <1>1, <1>3 DEF NotMixed
<1> QED  BY <1>2, <1>3
         DEF Next, vars, replica, Publish, Ask, GetMappings, GetValidate, SetParcel, StoreMetadata, SaveFile, Fail

(***************************************************************************)
(* A file is recorded for a root that does not have it, or without a root, *)
(* only if the source changed while a run was under way, or /validate      *)
(* failed.                                                                 *)
(***************************************************************************)
THEOREM NotMixedHolds == Spec => []NotMixed
BY WorkInvariant, InitWork, MixedStep, PTL DEF Spec

LEMMA KeyStep ==
    ASSUME TypeOK, RunInv, WorkInv, KeyInv, GapsExplained, [Next]_vars
    PROVE  KeyInv' /\ GapsExplained'
<1> SUFFICES ASSUME ~ moved', ~ outage', NEW p \in Parcels, parcelRoot'[p] # NoRoot
             PROVE  /\ parcelRoot'[p] # EmptyRoot
                    /\ \/ Recorded(parcelRoot[p])'
                       \/ \E k \in Runs : /\ root'[k] = parcelRoot'[p]
                                          /\ Underway(k)' \/ pc'[k] = "failed"
    BY ReplicationAssumption DEF KeyInv, GapsExplained
<1>1. ~ moved /\ ~ outage
    BY DEF Next, vars, history, TypeOK, Publish, Ask, GetMappings, GetValidate, SetParcel, StoreMetadata,
           SaveFile, StoreField, Fail
<1>2. \A k \in Runs : Undisturbed(k) /\ Undisturbed(k)'
    BY <1>1 DEF Undisturbed
<1>3. \A k \in Runs : Work(k) /\ Work(k)'
    BY <1>2, WorkStep DEF WorkInv
<1>4. ASSUME NEW r \in Roots, Recorded(r) PROVE Recorded(r)'
    <2>1. metadata \subseteq metadata'
        BY MetadataGrows
    <2>2. CASE \E k \in Runs : TRUE
        BY <1>2, <1>4, <2>1, <2>2, CopiedKept DEF Recorded
    <2>3. CASE ~ \E k \in Runs : TRUE
        BY <1>4, <2>3 DEF Recorded, Next, vars, replica, Publish
    <2> QED  BY <2>2, <2>3
<1>5. ASSUME NEW k \in Runs, SetParcel(k), p = entry[k].parcel
      PROVE  root'[k] = parcelRoot'[p] /\ Underway(k)' /\ root'[k] \in Roots
    <2>1. pc[k] = "key" /\ pc'[k] = "metadata" /\ root' = root /\ parcelRoot'[p] = root[k]
        BY <1>5 DEF SetParcel, Goto, TypeOK, work
    <2> QED  BY <1>3, <2>1 DEF Work, Copying, Underway, TypeOK, Entry
<1>6. CASE parcelRoot'[p] = parcelRoot[p]
    <2> DEFINE r == parcelRoot[p]
    <2>1. r \in Roots
        BY <1>1, <1>6, ReplicationAssumption DEF KeyInv, TypeOK, Found
    <2>2. CASE Recorded(r)
        BY <1>4, <1>6, <2>1, <2>2, ReplicationAssumption DEF Recorded
    <2>3. CASE \E k \in Runs : root[k] = r /\ (Underway(k) \/ pc[k] = "failed")
        <3>1. PICK k \in Runs : root[k] = r /\ (Underway(k) \/ pc[k] = "failed")
            BY <2>3
        <3>2. CASE root'[k] = root[k] /\ (Underway(k)' \/ pc'[k] = "failed")
            BY <1>6, <2>1, <3>1, <3>2, ReplicationAssumption
        <3>3. CASE pc'[k] = "ok" /\ root'[k] = root[k]
            BY <1>3, <1>6, <2>1, <3>1, <3>3, ReplicationAssumption DEF Work, Recorded
        <3>4. CASE pc[k] = "validate"
            BY <1>3, <1>4, <1>6, <2>1, <3>1, <3>4, ReplicationAssumption DEF Work, Recorded
        <3> QED  BY <3>1, <3>2, <3>3, <3>4, FateOfRun
    <2> QED  BY <1>1, <1>6, <2>2, <2>3 DEF GapsExplained
<1>7. CASE parcelRoot'[p] # parcelRoot[p]
    <2>1. PICK k \in Runs : SetParcel(k) /\ p = entry[k].parcel
        BY <1>7 DEF Next, vars, replica, TypeOK, Publish, Ask, GetMappings, GetValidate, SetParcel, StoreMetadata,
               SaveFile, StoreField, Fail
    <2> QED  BY <1>5, <2>1, ReplicationAssumption
<1> QED  BY <1>6, <1>7

(***************************************************************************)
(* Readers of the replica find a parcel without its metadata or files only *)
(* while a run is copying that root, or after one has stopped, or if the   *)
(* source changed or failed meanwhile.                                     *)
(***************************************************************************)
THEOREM GapsExplainedHolds == Spec => []GapsExplained
BY WorkInvariant, InitWork, KeyStep, PTL DEF Spec

-------------------------------------------------------------------------------
(***************************************************************************)
(* Repeating the command.                                                  *)
(***************************************************************************)

\* Nobody else writes to the replica of a calm run, nor publishes.
LEMMA CalmStep ==
    ASSUME TypeOK, RunInv, [Next]_vars, NEW k \in Runs, calm[k], calm'[k]
    PROVE  \/ \E e \in Entry : GetValidate(k, e)
           \/ SetParcel(k) \/ StoreMetadata(k) \/ StoreField(k)
           \/ \E i \in Runs : Fail(i)
           \/ \E e \in Element : SaveFile(k, e)
           \/ UNCHANGED vars
<1>1. ASSUME NEW r \in Roots, Publish(r) PROVE FALSE
    BY <1>1 DEF Publish
<1>2. ASSUME NEW i \in Runs, Ask(i) PROVE FALSE
    BY <1>2 DEF Ask, GetMappings, RunInv
<1>3. ASSUME NEW i \in Runs, i # k PROVE ~ Underway(i)
    BY <1>3 DEF RunInv
<1>4. \A i \in Runs : ~ Underway(i) =>
          /\ ~ SetParcel(i) /\ ~ StoreMetadata(i) /\ ~ StoreField(i)
          /\ ~ \E e \in Entry : GetValidate(i, e)
          /\ ~ \E e \in Element : SaveFile(i, e)
    BY DEF Underway, GetValidate, SetParcel, StoreMetadata, StoreField, SaveFile
<1> QED  BY <1>1, <1>2, <1>3, <1>4 DEF Next, Ask

LEMMA CopyStart ==
    ASSUME TypeOK, RunInv, NEW k \in Runs, Ask(k)
    PROVE  Copy(k)'
<1>1. PICK c \in Corners : \E lost \in SUBSET (Mapped(c) \cap Led) : GetMappings(k, c, lost)
    BY DEF Ask
<1>2. PICK lost \in SUBSET (Mapped(c) \cap Led) : GetMappings(k, c, lost)
    BY <1>1
<1>3. /\ pc'[k] = IF todo'[k] = {} THEN "ok" ELSE "validate"
      /\ source' = source /\ corners'[k] = c /\ left'[k] = lost
      /\ todo'[k] = {e \in Entry : e.parcel \in Mapped(c) \ lost /\ source[e.parcel] = e.contents}
    BY <1>2 DEF GetMappings, Goto, TypeOK
<1>4. ASSUME NEW p \in Mapped(c) \ lost, source[p] # NoRoot
      PROVE  [parcel |-> p, contents |-> source[p]] \in todo'[k]
    <2>1. p \in Parcels /\ source[p] \in Roots
        BY <1>4 DEF TypeOK, Mapped
    <2> QED  BY <1>3, <2>1 DEF Entry
<1>5. Mapped(corners'[k]) = Mapped(c)
    BY <1>3
<1> QED  BY <1>3, <1>4, <1>5 DEF Copy, Copying, Underway, Mapped

LEMMA CopyStep == TypeOK /\ RunInv /\ WorkInv /\ CopyInv /\ [Next]_vars => CopyInv'
<1> SUFFICES ASSUME TypeOK, RunInv, WorkInv, CopyInv, [Next]_vars,
                    NEW k \in Runs, calm'[k], ~ outage'
             PROVE  Copy(k)'
    BY DEF CopyInv, Copy
<1>1. CASE Ask(k)
    BY <1>1, CopyStart
<1>2. CASE ~ Ask(k)
    <2>1. calm[k] /\ ~ outage /\ Undisturbed(k) /\ Undisturbed(k)'
        <3>1. ~ outage
            BY DEF Next, vars, history, TypeOK, Publish, Ask, GetMappings, GetValidate, SetParcel,
                   StoreMetadata, SaveFile, StoreField, Fail
        <3>2. calm[k]
            BY <1>2, CalmBefore
        <3> QED  BY <3>1, <3>2 DEF Undisturbed
    <2>2. Copy(k) /\ Work(k) /\ Work(k)' /\ UNCHANGED <<source, corners, left>>
        <3>1. UNCHANGED <<source, corners, left>>
            BY <2>1, CalmStep DEF vars, work, history, GetValidate, SetParcel, StoreMetadata, SaveFile,
                                  StoreField, Fail
        <3> QED  BY <2>1, <3>1, WorkStep DEF CopyInv, Copy, WorkInv
    <2>3. ASSUME NEW p \in Mapped(corners[k]) \ left[k], source[p] # NoRoot, Recorded(source[p])
          PROVE  Recorded(source[p])'
        <3>1. p \in Parcels /\ source[p] \in Roots
            BY <2>3 DEF TypeOK, Mapped
        <3>2. \A r \in Roots, n \in Names : Manifest[r][n] # NoCid =>
                  (content[r][n] = Manifest[r][n] => content'[r][n] = Manifest[r][n])
            BY <2>1, CopiedKept
        <3> QED  BY <2>2, <2>3, <3>1, <3>2, MetadataGrows DEF Recorded
    <2>4. ASSUME NEW e \in Entry, GetValidate(k, e) PROVE Copy(k)'
        <3>1. /\ pc[k] = "validate" /\ pc'[k] = "key" /\ todo'[k] = todo[k] \ {e}
              /\ entry'[k] = e /\ parcelRoot' = parcelRoot
            BY <2>4 DEF GetValidate, Goto, TypeOK, replica
        <3> QED  BY <2>2, <2>3, <3>1 DEF Copy, Copying, Underway
    <2>5. ASSUME SetParcel(k) PROVE Copy(k)'
        <3>1. /\ pc[k] = "key" /\ pc'[k] = "metadata" /\ UNCHANGED work
              /\ parcelRoot' = [parcelRoot EXCEPT ![entry[k].parcel] = root[k]]
            BY <2>5 DEF SetParcel, Goto, TypeOK
        <3>2. entry[k].parcel \in Parcels
            BY DEF TypeOK, Entry
        <3>3. parcelRoot'[entry[k].parcel] = root[k]
            BY <3>1, <3>2 DEF TypeOK
        <3> QED  BY <2>2, <2>3, <3>1, <3>2, <3>3, ReplicationAssumption
                 DEF Copy, Copying, Underway, TypeOK, work
    <2>6. ASSUME StoreMetadata(k) \/ StoreField(k) PROVE Copy(k)'
        <3>1. /\ pc[k] \in {"metadata", "field"} /\ UNCHANGED <<todo, entry, root, parcelRoot>>
              /\ \/ pc'[k] = "file"
                 \/ pc'[k] = "validate"
                 \/ pc'[k] = "ok" /\ todo[k] = {}
            BY <2>6 DEF StoreMetadata, StoreField, NextEntry, Goto, TypeOK, work
        <3>2. root[k] = source[entry[k].parcel] /\ root[k] \in Roots
            BY <2>2, <3>1 DEF Work, Copying, TypeOK, Entry
        <3>3. parcelRoot[entry[k].parcel] = root[k]
            BY <2>2, <3>1 DEF Copy, Copying
        <3>4. pc'[k] \in {"validate", "ok"} => Recorded(source[entry[k].parcel])'
            BY <2>2, <3>1, <3>2, ReplicationAssumption DEF Work, Recorded
        <3>5. CASE pc'[k] = "file"
            BY <2>2, <2>3, <3>1, <3>3, <3>5 DEF Copy, Copying, Underway
        <3>6. CASE \/ pc'[k] = "validate"
                   \/ pc'[k] = "ok" /\ todo[k] = {}
            <4>1. ASSUME NEW p \in Mapped(corners[k]) \ left[k], source[p] # NoRoot
                  PROVE  \/ pc'[k] = "validate" /\ [parcel |-> p, contents |-> source[p]] \in todo[k]
                         \/ parcelRoot[p] = source[p] /\ Recorded(source[p])'
                BY <2>2, <2>3, <3>1, <3>2, <3>3, <3>4, <3>6, <4>1 DEF Copy, Copying
            <4> QED  BY <2>2, <3>1, <3>6, <4>1 DEF Copy, Copying, Underway
        <3> QED  BY <3>1, <3>5, <3>6
    <2>7. ASSUME NEW e \in Element, SaveFile(k, e) PROVE Copy(k)'
        <3>1. /\ pc[k] = "file" /\ pc'[k] = "field"
              /\ UNCHANGED <<todo, entry, root, parcelRoot>>
            BY <2>7 DEF SaveFile, Goto, TypeOK
        <3> QED  BY <2>2, <2>3, <3>1 DEF Copy, Copying, Underway
    <2>8. ASSUME NEW i \in Runs, Fail(i) PROVE Copy(k)'
        <3>1. CASE i = k
            <4>1. pc'[k] = "failed"
                BY <2>8, <3>1 DEF Fail, Goto, TypeOK
            <4> QED  BY <4>1 DEF Copy, Copying
        <3>2. CASE i # k
            <4>1. pc'[k] = pc[k] /\ UNCHANGED <<replica, work>>
                BY <2>8, <3>2 DEF Fail, Goto, TypeOK
            <4> QED  BY <2>2, <4>1 DEF replica, work, Copy, Copying, Recorded, Underway
        <3> QED  BY <3>1, <3>2
    <2>9. CASE UNCHANGED vars
        BY <2>2, <2>9 DEF vars, replica, work, Copy, Recorded, Underway
    <2> QED  BY <2>1, <2>4, <2>5, <2>6, <2>7, <2>8, <2>9, CalmStep
<1> QED  BY <1>1, <1>2

(***************************************************************************)
(* Repeating the command mends the index: after a run that ended without   *)
(* an error, met no failure of /validate and had the source and the        *)
(* replica to itself, every parcel of the square over x1 and x2 that       *)
(* /mappings did not leave out has the root it has at the source, with     *)
(* metadata and the whole list of files, whatever earlier runs had left    *)
(* behind.  Nothing is said of the objects under the names of the files.   *)
(***************************************************************************)
THEOREM CopyCurrentHolds == Spec => []CopyCurrent
<1>1. TypeOK /\ CopyInv => CopyCurrent
    BY DEF CopyInv, Copy, CopyCurrent, Underway, Copying
<1> QED  BY <1>1, WorkInvariant, InitWork, CopyStep, PTL DEF Spec

\* The rectangle that was asked for.
Area(c) == {p \in Parcels : Between(p.x, c.x1, c.x2) /\ Between(p.y, c.y1, c.y2)}

Diagonal(c) == c.x1 = c.y1 /\ c.x2 = c.y2

(***************************************************************************)
(* The area that was asked for is copied in this sense if both corners are *)
(* on the diagonal and no read of /mappings failed.                        *)
(***************************************************************************)
THEOREM AreaCopied ==
    ASSUME CopyCurrent, NEW k \in Runs, pc[k] = "ok", calm[k], ~ outage,
           Diagonal(corners[k]), left[k] = {},
           NEW p \in Area(corners[k]), source[p] # NoRoot
    PROVE  parcelRoot[p] = source[p] /\ Recorded(source[p])
<1>1. p \in Mapped(corners[k]) \ left[k]
    BY DEF Area, Mapped, Diagonal
<1> QED  BY <1>1 DEF CopyCurrent
===============================================================================
