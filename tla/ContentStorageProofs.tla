------------------------- MODULE ContentStorageProofs -------------------------
(***************************************************************************)
(* Theorems about ContentStorage for any calls, objects and number of      *)
(* pieces: acknowledged objects are whole, and both storages implement     *)
(* ObjectStore.                                                            *)
(***************************************************************************)
EXTENDS ContentStorage, FiniteSetTheorems, TLAPS

\* Where calls can be, and that the file of a call under way is there.
CallInv ==
    /\ \A s \in Saves :
          /\ pc[s] \in {"idle", "copy", "ok", "error", "lost"}
          /\ pc[s] = "idle" => pos[s] = 1
          /\ pc[s] = "copy" => object[Name(s)] # Absent
    /\ \A r \in Readers :
          /\ pc[r] # "copy"
          /\ pc[r] = "read" => object[Name(r)] # Absent

\* Every object was begun by a call.
Origin(c) == object[c] # Absent => \E s \in Saves : Name(s) = c /\ pc[s] # "idle"

\* What is wrong with a file can only be that a part of it is missing.
Incomplete(c) ==
    object[c] # Absent =>
        \A i \in Positions :
            /\ object[c][i] \in {Content[c][i], Hole, Past}
            /\ Content[c][i] = Past => object[c][i] = Past

\* The call that truncated the file last has filled it up to its position.
Filled(c) ==
    last[c] # NoSave =>
        /\ object[c] # Absent /\ Name(last[c]) = c /\ pc[last[c]] # "idle"
        /\ pc[last[c]] = "copy" =>
              \A i \in Positions : i < pos[last[c]] => object[c][i] = Content[c][i]
        /\ pc[last[c]] = "ok" => object[c] = Content[c]

StoreInv ==
    \A c \in Cids : Origin(c) /\ (Faithful(c) => Incomplete(c) /\ Filled(c))

-------------------------------------------------------------------------------

LEMMA BodyFacts ==
    ASSUME NEW f \in Body
    PROVE  /\ f \in File /\ f # Absent
           /\ \A i \in Positions : f[i] # Hole
           /\ \A i, j \in Positions : i < j /\ f[j] # Past => f[i] # Past
BY StorageAssumption DEF Body, File

LEMMA CallFacts ==
    ASSUME TypeOK, NEW s \in Saves
    PROVE  Name(s) \in Cids /\ call[s].body \in Body /\ call[s] \in SaveCalls
           /\ s \in Saves \cup Readers /\ s \notin Readers
BY StorageAssumption DEF TypeOK, Name

LEMMA ReaderFacts ==
    ASSUME TypeOK, NEW r \in Readers
    PROVE  Name(r) \in Cids /\ r \in Saves \cup Readers /\ r \notin Saves
           /\ call[r].for \in {"upload", "client"}
BY StorageAssumption DEF TypeOK, Name

LEMMA WriteAtFacts ==
    ASSUME NEW f \in File, NEW k \in Positions, NEW b \in Bytes \cup {Hole, Past}
    PROVE  /\ WriteAt(f, k, b) \in File /\ WriteAt(f, k, b) # Absent
           /\ WriteAt(f, k, b)[k] = b
           /\ \A i \in Positions \ {k} :
                 WriteAt(f, k, b)[i] \in {f[i], Hole}
           /\ \A i \in Positions \ {k} :
                 ~ (i < k) \/ f[i] # Past => WriteAt(f, k, b)[i] = f[i]
BY StorageAssumption DEF WriteAt, File, Positions

LEMMA NothingFacts == Nothing \in File /\ Nothing # Absent /\ \A i \in Positions : Nothing[i] = Past
BY StorageAssumption DEF Nothing, File

-------------------------------------------------------------------------------
(***************************************************************************)
(* Types.                                                                  *)
(***************************************************************************)

LEMMA InitType == Init => TypeOK /\ CallInv
<1> SUFFICES ASSUME Init PROVE TypeOK /\ CallInv
    OBVIOUS
<1>1. 1 \in 1 .. Pieces + 1
    BY StorageAssumption
<1>2. Nothing \in File
    BY NothingFacts
<1>3. \A k \in Saves \cup Readers : pc[k] = "idle" /\ pos[k] = 1
    BY DEF Init
<1>4. TypeOK
    BY <1>1, <1>2 DEF Init, TypeOK
<1> QED  BY <1>3, <1>4 DEF CallInv

PcSet == {"idle", "copy", "read", "ok", "error", "lost", "notfound",
          "accepted", "rejected", "served", "short"}

LEMMA SaveType ==
    ASSUME TypeOK, CallInv, NEW s \in Saves, SaveStep(s)
    PROVE  TypeOK' /\ CallInv'
<1>0. /\ Name(s) \in Cids /\ call[s].body \in Body /\ s \in Saves \cup Readers
      /\ s \notin Readers /\ call[s].body \in File /\ call[s].body # Absent
    BY CallFacts, BodyFacts
<1>1. CASE Create(s)
    <2>1. object' \in [Cids -> File \cup {Absent}] /\ pc' \in [Saves \cup Readers -> PcSet]
          /\ last' \in [Cids -> Saves \cup {NoSave}] /\ steady' \in [Readers -> BOOLEAN]
          /\ lapped' \subseteq Cids
        BY <1>0, <1>1, NothingFacts DEF Create, TypeOK, Goto, PcSet
    <2>2. TypeOK'
        BY <1>1, <2>1 DEF Create, TypeOK, progress, PcSet
    <2>3. \A c \in Cids : object[c] # Absent => object'[c] # Absent
        BY <1>0, <1>1, NothingFacts DEF Create, TypeOK
    <2>4. object'[Name(s)] # Absent /\ call' = call
        BY <1>0, <1>1, NothingFacts DEF Create, TypeOK
    <2> QED  BY <1>0, <1>1, <2>2, <2>3, <2>4, CallFacts, ReaderFacts
             DEF Create, CallInv, TypeOK, Goto, progress, Name
<1>2. CASE Write(s)
    <2>1. pos[s] \in Positions /\ pc[s] = "copy" /\ pos[s] + 1 \in 1 .. Pieces + 1
          /\ object[Name(s)] \in File /\ call[s].body[pos[s]] \in Bytes \cup {Hole, Past}
        BY <1>0, <1>2, StorageAssumption DEF Write, Copied, CallInv, Positions, TypeOK, File
    <2>2. WriteAt(object[Name(s)], pos[s], call[s].body[pos[s]]) \in File
          /\ WriteAt(object[Name(s)], pos[s], call[s].body[pos[s]]) # Absent
        BY <2>1, WriteAtFacts
    <2>3. object' \in [Cids -> File \cup {Absent}]
          /\ pos' \in [Saves \cup Readers -> 1 .. Pieces + 1]
        BY <1>0, <1>2, <2>1, <2>2 DEF Write, TypeOK
    <2>4. TypeOK'
        BY <1>2, <2>3 DEF Write, TypeOK, history
    <2>5. \A c \in Cids : object[c] # Absent => object'[c] # Absent
        BY <1>0, <1>2, <2>2 DEF Write, TypeOK
    <2> QED  BY <1>0, <1>2, <2>1, <2>4, <2>5, CallFacts, ReaderFacts
             DEF Write, CallInv, TypeOK, Name
<1>3. CASE Return(s)
    BY <1>0, <1>3 DEF Return, TypeOK, CallInv, Goto, store, progress, history, Name
<1>4. CASE Upload(s)
    <2>1. object' \in [Cids -> File \cup {Absent}] /\ pc' \in [Saves \cup Readers -> PcSet]
          /\ last' \in [Cids -> Saves \cup {NoSave}]
        BY <1>0, <1>4 DEF Upload, TypeOK, Goto, PcSet
    <2>2. TypeOK'
        BY <1>4, <2>1 DEF Upload, TypeOK, progress, PcSet
    <2>3. \A c \in Cids : object[c] # Absent => object'[c] # Absent
        BY <1>0, <1>4 DEF Upload, TypeOK
    <2> QED  BY <1>0, <1>4, <2>2, <2>3, CallFacts, ReaderFacts
             DEF Upload, CallInv, TypeOK, Goto, progress, Name
<1>5. CASE SaveError(s)
    <2>1. object' \in [Cids -> File \cup {Absent}] /\ pc' \in [Saves \cup Readers -> PcSet]
          /\ last' \in [Cids -> Saves \cup {NoSave}]
        BY <1>0, <1>5 DEF SaveError, TypeOK, Goto, PcSet
    <2>2. TypeOK'
        BY <1>5, <2>1 DEF SaveError, TypeOK, progress, PcSet
    <2>3. \A c \in Cids : object[c] # Absent => object'[c] # Absent
        BY <1>0, <1>5 DEF SaveError, TypeOK
    <2> QED  BY <1>0, <1>5, <2>2, <2>3, CallFacts, ReaderFacts
             DEF SaveError, CallInv, TypeOK, Goto, progress, Name
<1> QED  BY <1>1, <1>2, <1>3, <1>4, <1>5 DEF SaveStep

LEMMA ReadType ==
    ASSUME TypeOK, CallInv, NEW r \in Readers, ReadStep(r)
    PROVE  TypeOK' /\ CallInv'
<1>0. /\ Name(r) \in Cids /\ r \in Saves \cup Readers /\ r \notin Saves
      /\ \A f : Verdict(r, f) \in PcSet \ {"copy", "read"}
    BY ReaderFacts DEF Verdict, PcSet
<1>1. CASE NotFound(r)
    BY <1>0, <1>1 DEF NotFound, TypeOK, CallInv, Goto, store, progress, history, Name
<1>2. CASE Open(r)
    <2>1. length' \in [Readers -> SUBSET Positions] /\ steady' \in [Readers -> BOOLEAN]
          /\ pc' \in [Saves \cup Readers -> PcSet]
        BY <1>0, <1>2 DEF Open, TypeOK, Goto, PcSet, Settled
    <2>2. TypeOK'
        BY <1>2, <2>1 DEF Open, TypeOK, store, PcSet
    <2> QED  BY <1>0, <1>2, <2>2 DEF Open, CallInv, TypeOK, Goto, store, Name
<1>3. CASE Read(r)
    <2>1. pos[r] \in Positions /\ pc[r] = "read" /\ pos[r] + 1 \in 1 .. Pieces + 1
          /\ object[Name(r)] \in File /\ object[Name(r)][pos[r]] \in Bytes \cup {Hole, Past}
        BY <1>0, <1>3, StorageAssumption DEF Read, AtEnd, CallInv, Positions, TypeOK, File
    <2>2. [copy[r] EXCEPT ![pos[r]] = object[Name(r)][pos[r]]] \in File
        BY <2>1 DEF TypeOK, File
    <2>3. copy' \in [Readers -> File] /\ pos' \in [Saves \cup Readers -> 1 .. Pieces + 1]
        BY <1>0, <1>3, <2>1, <2>2 DEF Read, TypeOK
    <2>4. TypeOK'
        BY <1>3, <2>3 DEF Read, TypeOK, store, history
    <2> QED  BY <1>0, <1>3, <2>1, <2>4 DEF Read, CallInv, TypeOK, store, Name
<1>4. CASE Finish(r)
    BY <1>0, <1>4 DEF Finish, TypeOK, CallInv, Goto, store, progress, history, Name, PcSet
<1>5. CASE Download(r)
    <2>1. copy' \in [Readers -> File] /\ steady' \in [Readers -> BOOLEAN]
          /\ pc' \in [Saves \cup Readers -> PcSet]
        BY <1>0, <1>5 DEF Download, TypeOK, Goto, PcSet, Settled
    <2>2. TypeOK'
        BY <1>5, <2>1 DEF Download, TypeOK, store, PcSet
    <2> QED  BY <1>0, <1>5, <2>2 DEF Download, CallInv, TypeOK, Goto, store, Name
<1>6. CASE ReadError(r)
    BY <1>0, <1>6 DEF ReadError, TypeOK, CallInv, Goto, store, progress, history, Name
<1> QED  BY <1>1, <1>2, <1>3, <1>4, <1>5, <1>6 DEF ReadStep

LEMMA CrashType == ASSUME TypeOK, CallInv, Crash PROVE TypeOK' /\ CallInv'
BY DEF Crash, TypeOK, CallInv, Ended, Busy, store, progress, history, Name

LEMMA StepType == TypeOK /\ CallInv /\ [Next]_vars => TypeOK' /\ CallInv'
<1> SUFFICES ASSUME TypeOK, CallInv, [Next]_vars PROVE TypeOK' /\ CallInv'
    OBVIOUS
<1>1. CASE UNCHANGED vars
    BY <1>1 DEF vars, TypeOK, CallInv, store, progress, history, Name
<1> QED  BY <1>1, SaveType, ReadType, CrashType DEF Next

(***************************************************************************)
(* Every reachable state has the types TypeOK states: no call is ever past *)
(* the end of its body or its file, and nobody reads a file that is not    *)
(* there.                                                                  *)
(***************************************************************************)
THEOREM TypeCorrect == Spec => [](TypeOK /\ CallInv)
BY InitType, StepType, PTL DEF Spec

-------------------------------------------------------------------------------
(***************************************************************************)
(* Objects.                                                                *)
(***************************************************************************)

LEMMA InitStore == Init => StoreInv
BY DEF Init, StoreInv, Origin, Incomplete, Filled

\* What the store looks like for calls that do not touch it.
LEMMA Frame ==
    ASSUME TypeOK, StoreInv, UNCHANGED <<object, call, last>>,
           \A s \in Saves : /\ pos'[s] = pos[s]
                            /\ pc[s] # "idle" => pc'[s] # "idle"
                            /\ pc'[s] \in {"copy", "ok"} => pc'[s] = pc[s]
    PROVE  StoreInv'
<1> SUFFICES ASSUME NEW c \in Cids
             PROVE  Origin(c)' /\ (Faithful(c)' => Incomplete(c)' /\ Filled(c)')
    BY DEF StoreInv
<1>1. Origin(c)'
    BY DEF StoreInv, Origin, Name
<1>2. ASSUME Faithful(c)' PROVE Faithful(c)
    BY <1>2 DEF Faithful, Name
<1>3. ASSUME Faithful(c)' PROVE Incomplete(c)'
    BY <1>2, <1>3 DEF StoreInv, Incomplete
<1>4. ASSUME Faithful(c)' PROVE Filled(c)'
    <2>1. Filled(c) /\ last[c] \in Saves \cup {NoSave}
        BY <1>2, <1>4 DEF StoreInv, TypeOK
    <2> QED  BY <2>1 DEF Filled, Name
<1> QED  BY <1>1, <1>3, <1>4

LEMMA ReadStore ==
    ASSUME TypeOK, StoreInv, NEW r \in Readers, ReadStep(r)
    PROVE  StoreInv'
<1>1. r \in Saves \cup Readers /\ r \notin Saves
    BY ReaderFacts
<1>2. UNCHANGED <<object, call, last>>
    BY DEF ReadStep, NotFound, Open, Read, Finish, Download, ReadError, store, history
<1>3. \A s \in Saves : pos'[s] = pos[s] /\ pc'[s] = pc[s]
    BY <1>1 DEF ReadStep, NotFound, Open, Read, Finish, Download, ReadError, store,
                progress, history, Goto, TypeOK
<1> QED  BY <1>2, <1>3, Frame

LEMMA CrashStore == ASSUME TypeOK, StoreInv, Crash PROVE StoreInv'
<1>1. UNCHANGED <<object, call, last, pos>>
    BY DEF Crash, store, progress, history
<1>2. \A s \in Saves : pc'[s] = IF pc[s] \in {"copy", "read"} THEN "lost" ELSE pc[s]
    BY DEF Crash, Ended, Busy, TypeOK
<1> QED  BY <1>1, <1>2, Frame

\* Objects with another name than that of the call.
LEMMA OtherObject ==
    ASSUME TypeOK, StoreInv, NEW s \in Saves, NEW c \in Cids, c # Name(s),
           call' = call, object'[c] = object[c], last'[c] = last[c],
           \A t \in Saves \ {s} : pc'[t] = pc[t] /\ pos'[t] = pos[t]
    PROVE  Origin(c)' /\ (Faithful(c)' => Incomplete(c)' /\ Filled(c)')
<1>1. Origin(c)'
    <2>1. Origin(c)
        BY DEF StoreInv
    <2> QED  BY <2>1 DEF Origin, Name
<1>2. ASSUME Faithful(c)' PROVE Incomplete(c)' /\ Filled(c)'
    <2>1. Incomplete(c) /\ Filled(c) /\ last[c] \in Saves \cup {NoSave}
        BY <1>2 DEF StoreInv, TypeOK, Faithful, Name
    <2>2. Incomplete(c)'
        BY <2>1 DEF Incomplete
    <2>3. last[c] # NoSave => last[c] \in Saves \ {s}
        BY <2>1 DEF Filled
    <2>4. Filled(c)'
        BY <2>1, <2>3 DEF Filled, Name
    <2> QED  BY <2>2, <2>4
<1> QED  BY <1>1, <1>2

\* A step of a call leaves other objects and other calls alone.
LEMMA SaveFrame ==
    ASSUME TypeOK, NEW s \in Saves, SaveStep(s)
    PROVE  /\ call' = call
           /\ \A c \in Cids \ {Name(s)} : object'[c] = object[c] /\ last'[c] = last[c]
           /\ \A t \in Saves \ {s} : pc'[t] = pc[t] /\ pos'[t] = pos[t]
           /\ pc'[s] # "idle"
<1>0. Name(s) \in Cids /\ s \in Saves \cup Readers
    BY CallFacts
<1>1. CASE Create(s)
    BY <1>0, <1>1 DEF Create, TypeOK, Goto, progress
<1>2. CASE Write(s)
    BY <1>0, <1>2 DEF Write, TypeOK, history
<1>3. CASE Return(s)
    BY <1>0, <1>3 DEF Return, TypeOK, Goto, progress, store, history
<1>4. CASE Upload(s)
    BY <1>0, <1>4 DEF Upload, TypeOK, Goto, progress
<1>5. CASE SaveError(s)
    BY <1>0, <1>5 DEF SaveError, TypeOK, Goto, progress
<1> QED  BY <1>1, <1>2, <1>3, <1>4, <1>5 DEF SaveStep

LEMMA ContentFacts ==
    ASSUME TypeOK, NEW s \in Saves, NEW c \in Cids, c = Name(s), Faithful(c)
    PROVE  /\ call[s].body = Content[c] /\ Content[c] \in Body
           /\ Content[c] \in File /\ Content[c] # Absent
BY StorageAssumption, BodyFacts DEF Faithful

\* The object of the call, if all that is saved under its name is faithful.
LEMMA CreateFills ==
    ASSUME TypeOK, CallInv, NEW s \in Saves, Create(s), NEW c \in Cids, c = Name(s)
    PROVE  Incomplete(c)' /\ Filled(c)'
<1>1. /\ object'[c] = Nothing /\ last'[c] = s /\ call' = call
      /\ pc'[s] = "copy" /\ pos'[s] = 1
    BY CallFacts DEF Create, TypeOK, Goto, progress, CallInv
<1>2. \A i \in Positions : ~ (i < 1)
    BY StorageAssumption DEF Positions
<1>3. Incomplete(c)'
    BY <1>1, NothingFacts DEF Incomplete
<1>4. Filled(c)'
    BY <1>1, <1>2, NothingFacts DEF Filled, Name
<1> QED  BY <1>3, <1>4

LEMMA WriteFills ==
    ASSUME TypeOK, CallInv, NEW s \in Saves, Write(s), NEW c \in Cids, c = Name(s),
           Faithful(c), Incomplete(c), Filled(c)
    PROVE  Incomplete(c)' /\ Filled(c)'
<1>1. /\ pc[s] = "copy" /\ pos[s] \in Positions /\ Content[c][pos[s]] # Past
      /\ object[c] \in File /\ call[s].body = Content[c] /\ Content[c] \in Body
      /\ pos' = [pos EXCEPT ![s] = pos[s] + 1] /\ s \in Saves \cup Readers
      /\ UNCHANGED <<pc, call, last>> /\ pos \in [Saves \cup Readers -> 1 .. Pieces + 1]
    BY ContentFacts, CallFacts DEF Write, Copied, CallInv, TypeOK, history
<1> DEFINE k == pos[s]
           f == object[c]
<1>2. Content[c][k] \in Bytes \cup {Hole, Past} /\ Content[c] \in File
    BY <1>1, StorageAssumption, BodyFacts DEF Body, File
<1>3. object'[c] = WriteAt(f, k, Content[c][k])
    BY <1>1 DEF Write, TypeOK
<1>4. /\ object'[c] # Absent /\ object'[c] \in File
      /\ object'[c][k] = Content[c][k]
      /\ \A i \in Positions \ {k} : object'[c][i] \in {f[i], Hole}
      /\ \A i \in Positions \ {k} : ~ (i < k) \/ f[i] # Past => object'[c][i] = f[i]
    BY <1>1, <1>2, <1>3, WriteAtFacts
<1>5. \A i \in Positions : i < k => Content[c][i] # Past
    BY <1>1, BodyFacts
<1>6. f # Absent
    BY <1>1, StorageAssumption
\* What was right stays so.
<1>7. \A i \in Positions : f[i] = Content[c][i] => object'[c][i] = Content[c][i]
    BY <1>4, <1>5
<1>8. Incomplete(c)'
    <2> SUFFICES ASSUME NEW i \in Positions
                 PROVE  /\ object'[c][i] \in {Content[c][i], Hole, Past}
                        /\ Content[c][i] = Past => object'[c][i] = Past
        BY DEF Incomplete
    <2>1. f[i] \in {Content[c][i], Hole, Past} /\ (Content[c][i] = Past => f[i] = Past)
        BY <1>6 DEF Incomplete
    <2>2. CASE i = k
        BY <1>1, <1>4, <2>2
    <2>3. CASE i # k
        BY <1>4, <1>5, <2>1, <2>3
    <2> QED  BY <2>2, <2>3
<1>9. Filled(c)'
    <2> SUFFICES ASSUME last[c] # NoSave
                 PROVE  /\ Name(last[c]) = c /\ pc[last[c]] # "idle"
                        /\ pc[last[c]] = "copy" =>
                              \A i \in Positions :
                                  i < pos'[last[c]] => object'[c][i] = Content[c][i]
                        /\ pc[last[c]] = "ok" => object'[c] = Content[c]
        BY <1>1, <1>4 DEF Filled, Name
    <2>1. last[c] \in Saves \cup Readers
        BY DEF TypeOK
    <2>2. ASSUME pc[last[c]] = "copy", NEW i \in Positions, i < pos'[last[c]]
          PROVE  object'[c][i] = Content[c][i]
        <3>1. CASE i < pos[last[c]]
            BY <1>7, <2>2, <3>1 DEF Filled
        <3>2. CASE ~ (i < pos[last[c]])
            <4>1. last[c] = s
                BY <1>1, <2>1, <2>2, <3>2
            <4>2. i = k
                BY <1>1, <2>2, <3>2, <4>1, StorageAssumption DEF Positions
            <4> QED  BY <1>4, <4>2
        <3> QED  BY <3>1, <3>2
    <2>3. ASSUME pc[last[c]] = "ok" PROVE object'[c] = Content[c]
        <3>1. \A i \in Positions : object'[c][i] = Content[c][i]
            BY <1>7, <2>3 DEF Filled
        <3> QED  BY <1>2, <1>4, <3>1 DEF File
    <2> QED  BY <2>2, <2>3 DEF Filled
<1> QED  BY <1>8, <1>9

LEMMA ReturnFills ==
    ASSUME TypeOK, CallInv, NEW s \in Saves, Return(s), NEW c \in Cids, c = Name(s),
           Faithful(c), Incomplete(c), Filled(c)
    PROVE  Incomplete(c)' /\ Filled(c)'
<1>1. /\ pc[s] = "copy" /\ Copied(s) /\ call[s].body = Content[c] /\ Content[c] \in Body
      /\ pc' = [pc EXCEPT ![s] = "ok"] /\ s \in Saves \cup Readers
      /\ UNCHANGED <<object, pos, call, last>> /\ object[c] \in File /\ Content[c] \in File
      /\ pos[s] \in 1 .. Pieces + 1
    BY ContentFacts, CallFacts DEF Return, Goto, store, progress, history, CallInv, TypeOK
<1>2. Incomplete(c)'
    BY <1>1 DEF Incomplete
<1>3. ASSUME last[c] = s PROVE object[c] = Content[c]
    <2> SUFFICES ASSUME NEW i \in Positions PROVE object[c][i] = Content[c][i]
        BY <1>1 DEF File
    <2>1. s # NoSave /\ object[c] # Absent
        BY StorageAssumption, <1>1
    <2>2. CASE i < pos[s]
        BY <1>1, <1>3, <2>1, <2>2 DEF Filled
    <2>3. CASE ~ (i < pos[s])
        <3>1. pos[s] \in Positions /\ Content[c][pos[s]] = Past /\ (i = pos[s] \/ pos[s] < i)
            BY <1>1, <2>3, StorageAssumption DEF Positions, Copied
        <3>2. Content[c][i] = Past
            BY <1>1, <3>1, BodyFacts
        <3> QED  BY <2>1, <3>2 DEF Incomplete
    <2> QED  BY <2>2, <2>3
<1>4. Filled(c)'
    <2>1. last[c] \in Saves \cup {NoSave}
        BY DEF TypeOK
    <2>2. CASE last[c] = s
        BY <1>1, <1>3, <2>2, StorageAssumption DEF Filled, Name
    <2>3. CASE last[c] # s
        BY <1>1, <2>1, <2>3 DEF Filled, Name, TypeOK
    <2> QED  BY <2>2, <2>3
<1> QED  BY <1>2, <1>4

\* A bucket takes the object whole.
LEMMA UploadFills ==
    ASSUME TypeOK, CallInv, NEW s \in Saves, NEW c \in Cids, c = Name(s), Faithful(c),
           NEW step \in {"ok", "error"}, Goto(s, step), call' = call,
           object' = [object EXCEPT ![c] = call[s].body],
           last' = [last EXCEPT ![c] = s]
    PROVE  Incomplete(c)' /\ Filled(c)'
<1>1. /\ object'[c] = Content[c] /\ last'[c] = s /\ pc'[s] = step
      /\ Content[c] \in File /\ Content[c] # Absent
    BY ContentFacts, CallFacts DEF TypeOK, Goto
<1> QED  BY <1>1 DEF Incomplete, Filled, Name

LEMMA ErrorFills ==
    ASSUME TypeOK, CallInv, NEW s \in Saves, NEW c \in Cids, c = Name(s),
           Incomplete(c), Filled(c), Goto(s, "error"),
           UNCHANGED <<object, last, call, pos>>
    PROVE  Incomplete(c)' /\ Filled(c)'
<1>1. Incomplete(c)'
    BY DEF Incomplete
<1>2. last[c] \in Saves \cup {NoSave} /\ s \in Saves \cup Readers
    BY DEF TypeOK
<1>3. Filled(c)'
    BY <1>2 DEF Filled, Name, Goto, TypeOK
<1> QED  BY <1>1, <1>3

LEMMA SaveStore ==
    ASSUME TypeOK, CallInv, StoreInv, NEW s \in Saves, SaveStep(s)
    PROVE  StoreInv'
<1> SUFFICES ASSUME NEW c \in Cids
             PROVE  Origin(c)' /\ (Faithful(c)' => Incomplete(c)' /\ Filled(c)')
    BY DEF StoreInv
<1>0. call' = call /\ Name(s)' = Name(s) /\ Name(s) \in Cids
    BY SaveFrame, CallFacts DEF Name
<1>1. CASE c # Name(s)
    BY <1>1, SaveFrame, OtherObject
<1>2. CASE c = Name(s)
    <2>1. Origin(c)'
        BY <1>0, <1>2, SaveFrame DEF Origin
    <2>2. ASSUME Faithful(c)' PROVE Incomplete(c)' /\ Filled(c)'
        <3>1. Faithful(c) /\ Incomplete(c) /\ Filled(c)
            BY <1>0, <2>2 DEF StoreInv, Faithful, Name
        <3>2. CASE Create(s)
            BY <1>2, <3>2, CreateFills
        <3>3. CASE Write(s)
            BY <1>2, <3>1, <3>3, WriteFills
        <3>4. CASE Return(s)
            BY <1>2, <3>1, <3>4, ReturnFills
        <3>5. CASE Upload(s)
            BY <1>0, <1>2, <3>1, <3>5, UploadFills DEF Upload
        <3>6. CASE SaveError(s)
            BY <1>0, <1>2, <3>1, <3>6, UploadFills, ErrorFills DEF SaveError, progress
        <3> QED  BY <3>2, <3>3, <3>4, <3>5, <3>6 DEF SaveStep
    <2> QED  BY <2>1, <2>2
<1> QED  BY <1>1, <1>2

LEMMA StepStore == TypeOK /\ CallInv /\ StoreInv /\ [Next]_vars => StoreInv'
<1> SUFFICES ASSUME TypeOK, CallInv, StoreInv, [Next]_vars PROVE StoreInv'
    OBVIOUS
<1>1. CASE UNCHANGED vars
    BY <1>1, Frame DEF vars, store, progress, history
<1> QED  BY <1>1, SaveStore, ReadStore, CrashStore DEF Next

(***************************************************************************)
(* What an acknowledged SaveFile promises: once the last call to truncate  *)
(* an object has returned without an error, the object is whole, whatever  *)
(* other calls are writing into it or have failed on it.                   *)
(***************************************************************************)
THEOREM SettledWholeHolds == Spec => []SettledWhole
<1>1. TypeOK /\ StoreInv => SettledWhole
    BY DEF StoreInv, SettledWhole, Settled, Filled
<1> QED  BY <1>1, InitType, StepType, InitStore, StepStore, PTL DEF Spec

-------------------------------------------------------------------------------
(***************************************************************************)
(* Either storage implements ObjectStore.                                  *)
(***************************************************************************)

\* The objects that are whole, and those that were saved more than once.
Whole == {c \in Cids : Faithful(c) /\ object[c] = Content[c]}
Rewritten == {c \in Cids : Cardinality(Begun(c)) > 1}

LEMMA InitRefines == Init => Objects!OSInit
<1> SUFFICES ASSUME Init PROVE Whole = {} /\ Rewritten = {}
    BY DEF Objects!OSInit, Whole, Rewritten
<1>1. \A c \in Cids : Content[c] # Absent
    BY StorageAssumption, BodyFacts
<1>2. \A c \in Cids : Begun(c) = {}
    BY DEF Init, Begun
<1>3. \A c \in Cids : Cardinality(Begun(c)) = 0
    BY <1>2, FS_EmptySet
<1>4. Whole = {}
    BY <1>1 DEF Init, Whole
<1> QED  BY <1>3, <1>4 DEF Rewritten

LEMMA BegunFinite ==
    \A c : IsFiniteSet(Begun(c)) /\ Cardinality(Begun(c)) \in Nat
BY StorageAssumption, FS_Subset, FS_CardinalityType DEF Begun

\* Nothing is asked for anew, and a call that has begun never has not.
LEMMA CallsGoOn ==
    ASSUME TypeOK, [Next]_vars
    PROVE  call' = call /\ \A s \in Saves : pc[s] # "idle" => pc'[s] # "idle"
<1>1. CASE UNCHANGED vars
    BY <1>1 DEF vars
<1>2. ASSUME NEW s \in Saves, SaveStep(s)
      PROVE  call' = call /\ \A t \in Saves : pc[t] # "idle" => pc'[t] # "idle"
    BY <1>2, SaveFrame
<1>3. ASSUME NEW r \in Readers, ReadStep(r)
      PROVE  call' = call /\ \A t \in Saves : pc[t] # "idle" => pc'[t] # "idle"
    BY <1>3, ReaderFacts DEF ReadStep, NotFound, Open, Read, Finish, Download, ReadError,
                             store, Goto, TypeOK
<1>4. CASE Crash
    BY <1>4 DEF Crash, Ended, TypeOK
<1> QED  BY <1>1, <1>2, <1>3, <1>4 DEF Next

LEMMA RewrittenGrows ==
    ASSUME TypeOK, [Next]_vars
    PROVE  Rewritten \subseteq Rewritten'
<1> SUFFICES ASSUME NEW c \in Rewritten PROVE c \in Rewritten'
    OBVIOUS
<1>1. Begun(c) \in SUBSET Begun(c)'
    BY CallsGoOn DEF Begun, Name
<1>2. IsFiniteSet(Begun(c)') /\ Cardinality(Begun(c)') \in Nat
    BY StorageAssumption, FS_Subset, FS_CardinalityType DEF Begun
<1>3. Cardinality(Begun(c)) <= Cardinality(Begun(c)')
    BY <1>1, <1>2, FS_Subset
<1>4. Cardinality(Begun(c)) \in Nat
    BY BegunFinite
<1> QED  BY <1>2, <1>3, <1>4 DEF Rewritten

\* An object is only lost to a call that truncates it to write it again.
LEMMA LostRewritten ==
    ASSUME TypeOK, CallInv, StoreInv, NEW s \in Saves, SaveStep(s),
           NEW c \in Whole, c \notin Whole'
    PROVE  c \in Rewritten'
<1>1. /\ c \in Cids /\ Faithful(c) /\ object[c] = Content[c]
      /\ object[c] \in File /\ object[c] # Absent /\ Content[c] \in Body
    BY StorageAssumption, BodyFacts DEF Whole
<1>2. call' = call /\ Faithful(c)' /\ object'[c] # Content[c] /\ c = Name(s)
    BY <1>1, SaveFrame DEF Whole, Faithful, Name
<1>3. call[s].body = Content[c] /\ s \in Saves \cup Readers
    BY <1>1, <1>2, ContentFacts
<1>4. ~ Write(s)
    <2> SUFFICES ASSUME Write(s) PROVE FALSE
        OBVIOUS
    <2> DEFINE k == pos[s]
    <2>1. /\ k \in Positions /\ Content[c][k] # Past
          /\ object'[c] = WriteAt(object[c], k, Content[c][k])
        BY <1>1, <1>2, <1>3 DEF Write, Copied, TypeOK
    <2>2. Content[c][k] \in Bytes \cup {Hole, Past}
        BY <1>1, <2>1 DEF File
    <2>3. \A i \in Positions : i < k => Content[c][i] # Past
        BY <1>1, <2>1, BodyFacts
    <2>4. /\ object'[c] \in File /\ object'[c][k] = Content[c][k]
          /\ \A i \in Positions \ {k} : object'[c][i] = Content[c][i]
        BY <1>1, <2>1, <2>2, <2>3, WriteAtFacts
    <2>5. \A i \in Positions : object'[c][i] = Content[c][i]
        BY <2>4
    <2> QED  BY <1>1, <1>2, <2>4, <2>5 DEF File
<1>5. Create(s)
    BY <1>1, <1>2, <1>3, <1>4 DEF SaveStep, Return, Upload, SaveError, store, TypeOK
<1>6. PICK t \in Saves : Name(t) = c /\ pc[t] # "idle"
    BY <1>1 DEF StoreInv, Origin
<1>7. t # s /\ {s, t} \in SUBSET Begun(c)'
    BY <1>2, <1>5, <1>6, CallsGoOn, SaveFrame DEF Begun, Name, Create, Next
<1>8. Cardinality({s} \cup {t}) = 2
    <2>1. IsFiniteSet({s}) /\ Cardinality({s}) = 1 /\ t \notin {s}
        BY <1>7, FS_Singleton
    <2>2. Cardinality({s} \cup {t}) = Cardinality({s}) + 1
        BY <2>1, FS_AddElement
    <2> QED  BY <2>1, <2>2
<1>9. IsFiniteSet(Begun(c)') /\ Cardinality(Begun(c)') \in Nat
    BY StorageAssumption, FS_Subset, FS_CardinalityType DEF Begun
<1>10. Cardinality({s} \cup {t}) <= Cardinality(Begun(c)')
    BY <1>7, <1>9, FS_Subset
<1> QED  BY <1>1, <1>8, <1>9, <1>10 DEF Rewritten

LEMMA StepRefines ==
    ASSUME TypeOK, CallInv, StoreInv, [Next]_vars
    PROVE  /\ Rewritten \subseteq Rewritten'
           /\ \/ \E c \in Cids : \/ Whole' = Whole \cup {c}
                                 \/ c \in Rewritten' /\ Whole' = Whole \ {c}
              \/ Whole' = Whole
<1>1. Rewritten \subseteq Rewritten'
    BY RewrittenGrows
<1>2. call' = call
    BY CallsGoOn
<1>3. CASE object' = object
    BY <1>1, <1>2, <1>3 DEF Whole, Faithful, Name
<1>4. ASSUME NEW s \in Saves, SaveStep(s)
      PROVE  \/ Whole' = Whole \cup {Name(s)}
             \/ Name(s) \in Rewritten' /\ Whole' = Whole \ {Name(s)}
             \/ Whole' = Whole
    <2>1. Name(s) \in Cids
        BY CallFacts
    <2>2. \A c \in Cids \ {Name(s)} : c \in Whole' <=> c \in Whole
        BY <1>2, <1>4, SaveFrame DEF Whole, Faithful, Name
    <2>3. Whole \subseteq Cids /\ Whole' \subseteq Cids
        BY DEF Whole
    <2>4. Name(s) \in Whole /\ Name(s) \notin Whole' => Name(s) \in Rewritten'
        BY <1>4, LostRewritten
    <2> QED  BY <2>1, <2>2, <2>3, <2>4
<1>5. object' = object \/ \E s \in Saves : SaveStep(s)
    BY DEF Next, vars, store, ReadStep, NotFound, Open, Read, Finish, Download,
           ReadError, Crash
<1>6. CASE \E s \in Saves : SaveStep(s)
    <2>1. PICK s \in Saves : SaveStep(s)
        BY <1>6
    <2>2. Name(s) \in Cids
        BY CallFacts
    <2>3. \/ Whole' = Whole \cup {Name(s)}
          \/ Name(s) \in Rewritten' /\ Whole' = Whole \ {Name(s)}
          \/ Whole' = Whole
        BY <1>4, <2>1
    <2> QED  BY <1>1, <2>2, <2>3, Zenon
<1> QED  BY <1>1, <1>3, <1>5, <1>6

(***************************************************************************)
(* Whatever calls save and read, with whatever errors and crashes, the     *)
(* whole objects are a set that grows, but for objects saved twice.        *)
(***************************************************************************)
THEOREM RefinesObjectStore == Spec => ImplementsObjectStore
<1>1. TypeOK /\ CallInv /\ StoreInv /\ [Next]_vars =>
          [Objects!OSNext]_<<Whole, Rewritten>>
    BY StepRefines DEF Objects!OSNext, Objects!Add, Objects!Lose, Whole, Rewritten
<1>2. TypeOK /\ CallInv /\ StoreInv /\ [Next]_vars =>
          [Objects!OSNext]_<<{c \in Cids : Faithful(c) /\ object[c] = Content[c]},
                             {c \in Cids : Cardinality(Begun(c)) > 1}>>
    BY <1>1 DEF Whole, Rewritten
<1> QED  BY <1>2, InitRefines, InitType, StepType, InitStore, StepStore, PTL
         DEF Spec, ImplementsObjectStore, Objects!OSSpec

-------------------------------------------------------------------------------
(***************************************************************************)
(* Readers.  Of an object that no two calls have saved at once, the only   *)
(* call under way is the last one, and it leaves no holes.                 *)
(***************************************************************************)
OneAtATime(c) ==
    /\ \A s \in Saves : Name(s) = c /\ pc[s] = "copy" => s = last[c]
    /\ object[c] # Absent => \A i \in Positions : object[c][i] # Hole

CopiedSoFar(r) ==
    \A i \in Positions : copy[r][i] = IF i < pos[r] THEN Content[Name(r)][i] ELSE Past

\* How far a reader is, and what it has read of a file that was settled when
\* it came, or that is saved by one call at a time.
ReadInv(r) ==
    /\ pc[r] = "idle" =>
          copy[r] = Nothing /\ pos[r] = 1 /\ length[r] = {} /\ ~ steady[r]
    /\ pc[r] = "read" => backend = "local"
    /\ Faithful(Name(r)) /\ steady[r] =>
          /\ pc[r] = "read" => Settled(Name(r)) /\ OpenedWhole(r) /\ CopiedSoFar(r)
          /\ pc[r] \notin {"rejected", "short"}
          /\ pc[r] = "served" => copy[r] = Content[Name(r)]
    /\ Faithful(Name(r)) /\ Name(r) \notin lapped /\ backend = "local" =>
          /\ pc[r] \in {"read", "served"} => CopiedSoFar(r)
          /\ pc[r] = "served" => pos[r] \notin length[r]

AloneInv ==
    /\ \A s \in Saves : pc[s] = "copy" => backend = "local"
    /\ \A c \in Cids : Faithful(c) /\ c \notin lapped => OneAtATime(c)
ReadersInv == \A r \in Readers : ReadInv(r)

\* Nothing of what a call was asked to do changes.
LEMMA CallsFixed ==
    ASSUME [Next]_vars
    PROVE  /\ call' = call /\ backend' = backend /\ lapped \subseteq lapped'
           /\ \A c \in Cids : Faithful(c)' = Faithful(c)
<1>1. call' = call /\ backend' = backend /\ lapped \subseteq lapped'
    BY DEF Next, SaveStep, ReadStep, Create, Write, Return, Upload, SaveError, NotFound, Open, Read,
           Finish, Download, ReadError, Crash, vars, store, history
<1> QED  BY <1>1 DEF Faithful, Name

\* Steps that neither begin a call nor write.
LEMMA AloneFrame ==
    ASSUME TypeOK, AloneInv, [Next]_vars, UNCHANGED <<object, last>>,
           \A s \in Saves : pc'[s] = "copy" => pc[s] = "copy"
    PROVE  AloneInv'
<1>1. \A s \in Saves : (pc[s] = "copy" => backend = "local")'
    BY CallsFixed DEF AloneInv
<1>2. ASSUME NEW c \in Cids, Faithful(c)', c \notin lapped' PROVE OneAtATime(c)'
    BY <1>2, CallsFixed DEF AloneInv, OneAtATime, Name
<1> QED  BY <1>1, <1>2 DEF AloneInv

LEMMA AloneCreate ==
    ASSUME TypeOK, AloneInv, NEW s \in Saves, Create(s), [Next]_vars
    PROVE  AloneInv'
<1>1. /\ Name(s) \in Cids /\ backend = "local" /\ object'[Name(s)] = Nothing /\ last'[Name(s)] = s
      /\ lapped' = lapped \cup {c \in {Name(s)} :
                        \E t \in Saves \ {s} : Name(t) = c /\ pc[t] = "copy"}
      /\ \A t \in Saves \ {s} : pc'[t] = pc[t]
      /\ \A c \in Cids \ {Name(s)} : object'[c] = object[c] /\ last'[c] = last[c]
    BY CallFacts, SaveFrame DEF Create, TypeOK, SaveStep
<1>2. \A t \in Saves : (pc[t] = "copy" => backend = "local")'
    BY <1>1, CallsFixed DEF AloneInv
<1>3. ASSUME NEW c \in Cids, Faithful(c)', c \notin lapped' PROVE OneAtATime(c)'
    <2>1. CASE c = Name(s)
        <3>1. \A t \in Saves \ {s} : Name(t) = c => pc'[t] # "copy"
            BY <1>1, <1>3, <2>1
        <3> QED  BY <1>1, <2>1, <3>1, CallsFixed, NothingFacts, StorageAssumption DEF OneAtATime, Name
    <2>2. CASE c # Name(s)
        <3>1. OneAtATime(c)
            BY <1>3, CallsFixed DEF AloneInv
        <3> QED  BY <1>1, <2>2, <3>1, CallsFixed DEF OneAtATime, Name
    <2> QED  BY <2>1, <2>2
<1> QED  BY <1>2, <1>3 DEF AloneInv

LEMMA AloneWrite ==
    ASSUME TypeOK, CallInv, StoreInv, AloneInv, NEW s \in Saves, Write(s), [Next]_vars
    PROVE  AloneInv'
<1>1. pc' = pc /\ last' = last /\ pc[s] = "copy" /\ ~ Copied(s)
    BY DEF Write, history
<1>2. ASSUME NEW c \in Cids, Faithful(c)', c \notin lapped' PROVE OneAtATime(c)'
    <2>0. Faithful(c) /\ OneAtATime(c) /\ Filled(c)
        BY <1>2, CallsFixed DEF AloneInv, StoreInv
    <2>1. \A t \in Saves : (Name(t) = c /\ pc[t] = "copy" => t = last[c])'
        BY <1>1, <2>0, CallsFixed DEF OneAtATime, Name
    <2>2. CASE c # Name(s)
        <3>1. object'[c] = object[c]
            BY <2>2, SaveFrame DEF SaveStep
        <3> QED  BY <2>0, <2>1, <3>1 DEF OneAtATime
    <2>3. CASE c = Name(s)
        <3> DEFINE k == pos[s]
                   b == call[s].body[k]
        <3>1. /\ k \in Positions /\ call[s].body = Content[c] /\ Content[c] \in Body
              /\ b # Past /\ b \in Bytes \cup {Hole, Past} /\ b # Hole /\ object[c] \in File
            BY <1>1, <2>0, <2>3, ContentFacts, BodyFacts DEF Copied, File, CallInv, TypeOK
        <3>2. object'[c] = WriteAt(object[c], k, b)
            BY <2>3 DEF Write, TypeOK
        <3>3. s = last[c] /\ \A i \in Positions : i < k => object[c][i] = Content[c][i]
            BY <1>1, <2>0, <2>3, StorageAssumption DEF OneAtATime, Filled
        <3>4. \A i \in Positions : i < k => object[c][i] # Past
            BY <3>1, <3>3, BodyFacts
        <3>5. \A i \in Positions \ {k} : object'[c][i] = object[c][i]
            BY <3>1, <3>2, <3>4, WriteAtFacts
        <3>6. object'[c][k] = b
            BY <3>1, <3>2, WriteAtFacts
        <3>7. object[c] # Absent
            BY <3>1, StorageAssumption
        <3> QED  BY <2>0, <2>1, <3>1, <3>5, <3>6, <3>7 DEF OneAtATime
    <2> QED  BY <2>2, <2>3
<1>3. \A t \in Saves : (pc[t] = "copy" => backend = "local")'
    BY <1>1, CallsFixed DEF AloneInv
<1> QED  BY <1>2, <1>3 DEF AloneInv

\* A bucket object is replaced as a whole.
LEMMA AloneUpload ==
    ASSUME TypeOK, AloneInv, NEW s \in Saves, Upload(s) \/ SaveError(s), [Next]_vars,
           ~ UNCHANGED <<object, last>>
    PROVE  AloneInv'
<1>1. /\ Name(s) \in Cids /\ backend = "s3" /\ object'[Name(s)] = call[s].body
      /\ \A c \in Cids \ {Name(s)} : object'[c] = object[c]
      /\ call[s].body \in Body /\ pc'[s] # "copy"
    BY CallFacts, SaveFrame DEF Upload, SaveError, TypeOK, SaveStep, Goto
<1>2. \A t \in Saves : pc'[t] # "copy"
    BY <1>1, SaveFrame DEF AloneInv, SaveStep
<1>3. ASSUME NEW c \in Cids, Faithful(c)', c \notin lapped' PROVE OneAtATime(c)'
    <2>1. CASE c = Name(s)
        BY <1>1, <1>2, <2>1, BodyFacts DEF OneAtATime
    <2>2. CASE c # Name(s)
        BY <1>1, <1>2, <1>3, <2>2, CallsFixed DEF AloneInv, OneAtATime
    <2> QED  BY <2>1, <2>2
<1> QED  BY <1>2, <1>3 DEF AloneInv

LEMMA AloneStep == TypeOK /\ CallInv /\ StoreInv /\ AloneInv /\ [Next]_vars => AloneInv'
<1> SUFFICES ASSUME TypeOK, CallInv, StoreInv, AloneInv, [Next]_vars PROVE AloneInv'
    OBVIOUS
<1>1. ASSUME NEW s \in Saves, SaveStep(s) PROVE AloneInv'
    <2>1. CASE Create(s)
        BY <2>1, AloneCreate
    <2>2. CASE Write(s)
        BY <2>2, AloneWrite
    <2>3. CASE Return(s)
        BY <2>3, AloneFrame DEF Return, TypeOK, Goto, store, history
    <2>4. CASE (Upload(s) \/ SaveError(s)) /\ ~ UNCHANGED <<object, last>>
        BY <2>4, AloneUpload
    <2>5. CASE (Upload(s) \/ SaveError(s)) /\ UNCHANGED <<object, last>>
        BY <2>5, AloneFrame DEF Upload, SaveError, TypeOK, Goto
    <2> QED  BY <1>1, <2>1, <2>2, <2>3, <2>4, <2>5 DEF SaveStep
<1>2. ASSUME NEW r \in Readers, ReadStep(r) PROVE AloneInv'
    <2>1. r \notin Saves
        BY ReaderFacts
    <2>2. UNCHANGED <<object, last>> /\ \A s \in Saves : pc'[s] = pc[s]
        BY <1>2, <2>1 DEF ReadStep, NotFound, Open, Read, Finish, Download, ReadError, store, history, Goto,
                     TypeOK
    <2> QED  BY <2>2, AloneFrame
<1>3. CASE Crash
    BY <1>3, AloneFrame DEF Crash, Ended, Busy, TypeOK, store, history
<1>4. CASE UNCHANGED vars
    BY <1>4, AloneFrame DEF vars, store, history
<1> QED  BY <1>1, <1>2, <1>3, <1>4 DEF Next

\* What a settled file is, and what a file saved by one call at a time is.
LEMMA FileFacts ==
    ASSUME TypeOK, StoreInv, AloneInv, NEW c \in Cids, Faithful(c)
    PROVE  /\ Settled(c) => object[c] = Content[c]
           /\ c \notin lapped /\ object[c] # Absent =>
                 \A i \in Positions : object[c][i] \in {Content[c][i], Past}
BY DEF StoreInv, AloneInv, OneAtATime, Filled, Incomplete, Settled, TypeOK

\* A reader that reaches the end has read all of a file.
LEMMA AllRead ==
    ASSUME TypeOK, NEW r \in Readers, CopiedSoFar(r),
           pos[r] \in Positions => Content[Name(r)][pos[r]] = Past
    PROVE  copy[r] = Content[Name(r)]
<1> DEFINE f == Content[Name(r)]
<1>1. f \in Body /\ f \in File /\ copy[r] \in File /\ pos[r] \in 1 .. Pieces + 1
    BY ReaderFacts, BodyFacts, StorageAssumption DEF TypeOK
<1>2. ASSUME NEW i \in Positions, ~ (i < pos[r]) PROVE f[i] = Past
    <2>1. pos[r] \in Positions
        BY <1>1, <1>2, StorageAssumption DEF Positions
    <2>2. pos[r] = i \/ pos[r] < i
        BY <1>2, <2>1 DEF Positions
    <2> QED  BY <1>1, <2>1, <2>2 DEF Body
<1>3. \A i \in Positions : copy[r][i] = f[i]
    BY <1>2 DEF CopiedSoFar
<1> QED  BY <1>1, <1>3 DEF File

\* Steps of the others.
LEMMA ReaderFrame ==
    ASSUME TypeOK, CallInv, ReadersInv, [Next]_vars, NEW r \in Readers,
           pc'[r] = pc[r] \/ pc'[r] = "lost", copy'[r] = copy[r], pos'[r] = pos[r], length'[r] = length[r],
           steady'[r] => steady[r],
           pc[r] = "read" /\ steady'[r] /\ Settled(Name(r)) => Settled(Name(r))'
    PROVE  ReadInv(r)'
<1>1. Name(r)' = Name(r) /\ Name(r) \in Cids /\ backend' = backend /\ lapped \subseteq lapped'
      /\ Faithful(Name(r))' = Faithful(Name(r))
    <2>1. call' = call /\ backend' = backend /\ lapped \subseteq lapped'
        BY CallsFixed
    <2> QED  BY <2>1, ReaderFacts DEF Name, Faithful
<1>2. ReadInv(r)
    BY DEF ReadersInv
<1>3. CopiedSoFar(r)' = CopiedSoFar(r) /\ OpenedWhole(r)' = OpenedWhole(r)
    BY <1>1 DEF CopiedSoFar, OpenedWhole
<1>4. (pc[r] = "idle" => copy[r] = Nothing /\ pos[r] = 1 /\ length[r] = {} /\ ~ steady[r])'
    BY <1>2 DEF ReadInv
<1>5. (pc[r] = "read" => backend = "local")'
    BY <1>1, <1>2 DEF ReadInv
<1>6. (Faithful(Name(r)) /\ steady[r] =>
          /\ pc[r] = "read" => Settled(Name(r)) /\ OpenedWhole(r) /\ CopiedSoFar(r)
          /\ pc[r] \notin {"rejected", "short"}
          /\ pc[r] = "served" => copy[r] = Content[Name(r)])'
    BY <1>1, <1>2, <1>3 DEF ReadInv
<1>7. (Faithful(Name(r)) /\ Name(r) \notin lapped /\ backend = "local" =>
          /\ pc[r] \in {"read", "served"} => CopiedSoFar(r)
          /\ pc[r] = "served" => pos[r] \notin length[r])'
    BY <1>1, <1>2, <1>3 DEF ReadInv
<1> QED  BY <1>4, <1>5, <1>6, <1>7 DEF ReadInv

LEMMA OthersRead ==
    ASSUME TypeOK, CallInv, ReadersInv, NEW r \in Readers, [Next]_vars,
           \/ \E s \in Saves : SaveStep(s)
           \/ \E q \in Readers \ {r} : ReadStep(q)
           \/ Crash \/ UNCHANGED vars
    PROVE  ReadInv(r)'
<1>0. r \in Saves \cup Readers /\ r \notin Saves /\ Name(r) \in Cids /\ Name(r)' = Name(r)
    BY ReaderFacts, CallsFixed DEF Name
<1>1. ASSUME NEW s \in Saves, SaveStep(s) PROVE ReadInv(r)'
    <2>0. s \in Saves \cup Readers /\ s # r
        BY <1>0
    <2>1. pc'[r] = pc[r] /\ copy'[r] = copy[r] /\ pos'[r] = pos[r] /\ length'[r] = length[r]
        BY <1>0, <1>1, <2>0 DEF SaveStep, Create, Write, Return, Upload, SaveError, progress, Goto, TypeOK
    <2>2. steady'[r] => steady[r]
        BY <1>1 DEF SaveStep, Create, Write, Return, Upload, SaveError, history
    <2>3. ASSUME pc[r] = "read", steady'[r], Settled(Name(r)) PROVE Settled(Name(r))'
        <3> DEFINE c == Name(r)
        <3>1. last[c] \in Saves /\ pc[last[c]] = "ok" /\ backend = "local"
            BY <1>0, <2>3 DEF Settled, TypeOK, ReadersInv, ReadInv
        <3>2. last[c] # s
            BY <1>1, <3>1 DEF SaveStep, Create, Write, Return, Upload, SaveError
        <3>3. pc'[last[c]] = pc[last[c]]
            BY <1>1, <3>1, <3>2, SaveFrame
        <3>4. last'[c] = last[c]
            <4>1. CASE Create(s)
                <5>1. c # Name(s)
                    BY <2>3, <4>1 DEF Create
                <5> QED  BY <1>0, <1>1, <5>1, SaveFrame
            <4>2. CASE ~ Create(s)
                BY <1>1, <3>1, <4>2 DEF SaveStep, Write, Return, Upload, SaveError, history
            <4> QED  BY <4>1, <4>2
        <3> QED  BY <1>0, <2>3, <3>3, <3>4 DEF Settled
    <2> QED  BY <2>1, <2>2, <2>3, ReaderFrame
<1>2. ASSUME NEW q \in Readers \ {r}, ReadStep(q) PROVE ReadInv(r)'
    <2>1. q \in Saves \cup Readers /\ q \notin Saves
        BY ReaderFacts
    <2>2. /\ pc'[r] = pc[r] /\ copy'[r] = copy[r] /\ pos'[r] = pos[r] /\ length'[r] = length[r]
          /\ steady'[r] = steady[r]
        BY <1>0, <1>2, <2>1 DEF ReadStep, NotFound, Open, Read, Finish, Download, ReadError, progress, history,
                     Goto, TypeOK
    <2>3. last' = last /\ \A s \in Saves : pc'[s] = pc[s]
        BY <1>2, <2>1 DEF ReadStep, NotFound, Open, Read, Finish, Download, ReadError, progress, history,
                     Goto, TypeOK
    <2>4. Settled(Name(r)) => Settled(Name(r))'
        BY <1>0, <2>3 DEF Settled, TypeOK
    <2> QED  BY <2>2, <2>4, ReaderFrame
<1>3. CASE Crash
    <2>1. UNCHANGED <<copy, pos, length, steady, last>>
          /\ \A k \in Saves \cup Readers : pc'[k] = IF pc[k] \in {"copy", "read"} THEN "lost" ELSE pc[k]
        BY <1>3 DEF Crash, Ended, Busy, TypeOK, progress, history
    <2>2. Settled(Name(r)) => Settled(Name(r))'
        BY <1>0, <2>1 DEF Settled, TypeOK
    <2> QED  BY <1>0, <2>1, <2>2, ReaderFrame
<1>4. CASE UNCHANGED vars
    BY <1>0, <1>4, ReaderFrame DEF vars, progress, history, Settled
<1> QED  BY <1>1, <1>2, <1>3, <1>4

LEMMA OpenInv ==
    ASSUME TypeOK, StoreInv, AloneInv, ReadersInv, NEW r \in Readers, Open(r), [Next]_vars
    PROVE  ReadInv(r)'
<1>0. /\ r \in Saves \cup Readers /\ Name(r) \in Cids /\ Name(r)' = Name(r)
      /\ Faithful(Name(r))' = Faithful(Name(r)) /\ backend = "local" /\ backend' = backend
    BY ReaderFacts, CallsFixed DEF Name, Open
<1>1. /\ pc'[r] = "read" /\ copy'[r] = Nothing /\ pos'[r] = 1
      /\ length'[r] = {i \in Positions : object[Name(r)][i] # Past}
      /\ steady'[r] = Settled(Name(r))
    BY <1>0 DEF Open, ReadersInv, ReadInv, TypeOK, Goto
<1>2. Settled(Name(r))' = Settled(Name(r))
    <2>1. last' = last /\ \A s \in Saves : pc'[s] = pc[s]
        BY ReaderFacts DEF Open, Goto, TypeOK
    <2> QED  BY <1>0, <2>1 DEF Settled, TypeOK
<1>3. CopiedSoFar(r)'
    <2>1. \A i \in Positions : ~ (i < 1) /\ Nothing[i] = Past
        BY NothingFacts DEF Positions
    <2> QED  BY <1>1, <2>1 DEF CopiedSoFar
<1>4. Faithful(Name(r)) /\ Settled(Name(r)) => OpenedWhole(r)'
    BY <1>0, <1>1, FileFacts DEF OpenedWhole
<1> QED  BY <1>0, <1>1, <1>2, <1>3, <1>4 DEF ReadInv

LEMMA ReadPieceInv ==
    ASSUME TypeOK, StoreInv, AloneInv, CallInv, ReadersInv, NEW r \in Readers, Read(r), [Next]_vars
    PROVE  ReadInv(r)'
<1>0. /\ r \in Saves \cup Readers /\ Name(r) \in Cids /\ Name(r)' = Name(r)
      /\ Faithful(Name(r))' = Faithful(Name(r)) /\ backend' = backend /\ lapped' = lapped
    BY ReaderFacts, CallsFixed DEF Name, Read, history
<1>1. /\ pc[r] = "read" /\ pc' = pc /\ pos[r] \in Positions /\ object[Name(r)][pos[r]] # Past
      /\ steady' = steady /\ last' = last /\ length' = length
    BY DEF Read, AtEnd, history
<1>2. pos'[r] = pos[r] + 1 /\ pos[r] \in Nat /\ copy' = [copy EXCEPT ![r][pos[r]] = object[Name(r)][pos[r]]]
      /\ copy[r] \in File /\ object[Name(r)] # Absent
    BY <1>0, <1>1 DEF Read, TypeOK, Positions, CallInv
<1>3. ASSUME CopiedSoFar(r), object[Name(r)][pos[r]] = Content[Name(r)][pos[r]]
      PROVE  CopiedSoFar(r)'
    <2> SUFFICES ASSUME NEW i \in Positions
                 PROVE  copy'[r][i] = IF i < pos[r] + 1 THEN Content[Name(r)][i] ELSE Past
        BY <1>0, <1>2 DEF CopiedSoFar
    <2>1. i \in Nat
        BY DEF Positions
    <2>2. CASE i = pos[r]
        BY <1>1, <1>2, <1>3, <2>1, <2>2 DEF TypeOK, File
    <2>3. CASE i # pos[r]
        <3>1. copy'[r][i] = copy[r][i]
            BY <1>1, <1>2, <2>3 DEF TypeOK, File
        <3>2. (i < pos[r] + 1) <=> (i < pos[r])
            BY <1>2, <2>1, <2>3
        <3> QED  BY <1>3, <3>1, <3>2 DEF CopiedSoFar
    <2> QED  BY <2>2, <2>3
<1>4. Faithful(Name(r)) /\ (Settled(Name(r)) \/ Name(r) \notin lapped) =>
          object[Name(r)][pos[r]] = Content[Name(r)][pos[r]]
    BY <1>0, <1>1, <1>2, FileFacts
<1>5. Settled(Name(r))' = Settled(Name(r)) /\ OpenedWhole(r)' = OpenedWhole(r)
    BY <1>0, <1>1 DEF Settled, OpenedWhole
<1> QED  BY <1>0, <1>1, <1>3, <1>4, <1>5 DEF ReadersInv, ReadInv

LEMMA FinishInv ==
    ASSUME TypeOK, StoreInv, AloneInv, ReadersInv, NEW r \in Readers, Finish(r), [Next]_vars
    PROVE  ReadInv(r)'
<1>0. /\ r \in Saves \cup Readers /\ Name(r) \in Cids /\ Name(r)' = Name(r)
      /\ Faithful(Name(r))' = Faithful(Name(r)) /\ backend' = backend /\ lapped' = lapped
      /\ call[r].for \in {"upload", "client"}
    BY ReaderFacts, CallsFixed DEF Name, Finish, history
<1>1. /\ pc[r] = "read" /\ pc'[r] = Verdict(r, copy[r]) /\ AtEnd(r)
      /\ UNCHANGED <<pos, copy, length, steady>>
    BY <1>0 DEF Finish, Goto, TypeOK, progress, history
<1>2. Verdict(r, copy[r]) \in {"accepted", "rejected", "served", "short"}
    BY DEF Verdict
<1>3. CopiedSoFar(r)' = CopiedSoFar(r)
    BY <1>0, <1>1 DEF CopiedSoFar
<1>4. ASSUME Faithful(Name(r)), steady[r]
      PROVE  copy[r] = Content[Name(r)] /\ Verdict(r, copy[r]) \notin {"rejected", "short"}
    <2>1. Settled(Name(r)) /\ OpenedWhole(r) /\ CopiedSoFar(r) /\ object[Name(r)] = Content[Name(r)]
        BY <1>0, <1>1, <1>4, FileFacts DEF ReadersInv, ReadInv
    <2>2. pos[r] \in Positions => Content[Name(r)][pos[r]] = Past
        BY <1>1, <2>1 DEF AtEnd, OpenedWhole
    <2>3. pos[r] \notin length[r]
        BY <2>1, <2>2 DEF OpenedWhole
    <2> QED  BY <2>1, <2>2, <2>3, AllRead DEF Verdict
<1>5. ASSUME Verdict(r, copy[r]) = "served" PROVE pos[r] \notin length[r]
    BY <1>0, <1>5 DEF Verdict
<1> QED  BY <1>0, <1>1, <1>2, <1>3, <1>4, <1>5 DEF ReadersInv, ReadInv

LEMMA DownloadInv ==
    ASSUME TypeOK, StoreInv, AloneInv, ReadersInv, NEW r \in Readers, Download(r), [Next]_vars
    PROVE  ReadInv(r)'
<1>0. /\ r \in Saves \cup Readers /\ Name(r) \in Cids /\ Name(r)' = Name(r)
      /\ Faithful(Name(r))' = Faithful(Name(r)) /\ backend' = backend /\ backend = "s3"
      /\ call[r].for \in {"upload", "client"}
    BY ReaderFacts, CallsFixed DEF Name, Download
<1>1. /\ pc'[r] = Verdict(r, object[Name(r)]) /\ copy'[r] = object[Name(r)]
      /\ length[r] = {} /\ steady'[r] = Settled(Name(r))
    BY <1>0 DEF Download, Goto, TypeOK, ReadersInv, ReadInv
<1>2. Verdict(r, object[Name(r)]) \in {"accepted", "rejected", "served", "short"}
    BY DEF Verdict
<1>3. ASSUME Faithful(Name(r)), Settled(Name(r))
      PROVE  /\ Verdict(r, object[Name(r)]) \notin {"rejected", "short"}
             /\ object[Name(r)] = Content[Name(r)]
    BY <1>0, <1>1, <1>3, FileFacts DEF Verdict
<1> QED  BY <1>0, <1>1, <1>2, <1>3 DEF ReadInv

LEMMA ReadersStep ==
    TypeOK /\ CallInv /\ StoreInv /\ AloneInv /\ ReadersInv /\ [Next]_vars => ReadersInv'
<1> SUFFICES ASSUME TypeOK, CallInv, StoreInv, AloneInv, ReadersInv, [Next]_vars, NEW r \in Readers
             PROVE  ReadInv(r)'
    BY DEF ReadersInv
<1>1. CASE NotFound(r) \/ ReadError(r)
    <2>1. r \in Saves \cup Readers
        OBVIOUS
    <2>2. pc'[r] \in {"notfound", "error"}
        BY <1>1, <2>1 DEF NotFound, ReadError, Goto, TypeOK
    <2> QED  BY <2>2 DEF ReadInv
<1> QED  BY <1>1, OpenInv, ReadPieceInv, FinishInv, DownloadInv, OthersRead DEF Next, ReadStep

LEMMA InitReaders == Init => AloneInv /\ ReadersInv
BY DEF Init, AloneInv, OneAtATime, ReadersInv, ReadInv

LEMMA ReadersInvariant == Spec => [](TypeOK /\ StoreInv /\ ReadersInv)
<1>1. Init => TypeOK /\ CallInv /\ StoreInv /\ AloneInv /\ ReadersInv
    BY InitType, InitStore, InitReaders
<1>2. /\ TypeOK /\ CallInv /\ StoreInv /\ AloneInv /\ ReadersInv
      /\ [Next]_vars
      => (TypeOK /\ CallInv /\ StoreInv /\ AloneInv /\ ReadersInv)'
    BY StepType, StepStore, AloneStep, ReadersStep
<1> QED  BY <1>1, <1>2, PTL DEF Spec

(***************************************************************************)
(* An upload that relies on a stored file, and a client that fetches it,   *)
(* get the file if it was settled and is not saved again meanwhile,        *)
(* whatever calls that truncated it earlier are still writing.             *)
(***************************************************************************)
THEOREM SteadyReadHolds == Spec => []SteadyRead
<1>1. ReadersInv => SteadyRead
    BY DEF ReadersInv, ReadInv, SteadyRead
<1> QED  BY <1>1, ReadersInvariant, PTL

(***************************************************************************)
(* A client that began to fetch a whole file from the local directory gets *)
(* all of it or less than was announced, never other bytes, as long as no  *)
(* two calls save the file at once, even if it is truncated meanwhile.     *)
(***************************************************************************)
THEOREM ServedExactHolds == Spec => []ServedExact
<1>1. ASSUME TypeOK, ReadersInv, backend = "local", NEW r \in Readers, Faithful(Name(r)),
             Name(r) \notin lapped, OpenedWhole(r), pc[r] = "served"
      PROVE  copy[r] = Content[Name(r)]
    <2>1. CopiedSoFar(r) /\ pos[r] \notin length[r]
        BY <1>1 DEF ReadersInv, ReadInv
    <2> QED  BY <1>1, <2>1, AllRead DEF OpenedWhole
<1>2. TypeOK /\ ReadersInv => ServedExact
    BY <1>1 DEF ServedExact
<1> QED  BY <1>2, ReadersInvariant, PTL
===============================================================================
