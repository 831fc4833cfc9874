------------------------ MODULE ContentValidationProofs ------------------------
(***************************************************************************)
(* Theorems about ContentValidation: type correctness, the removal of the  *)
(* directories, and the exactness of the check for a request that has its  *)
(* directory to itself.                                                    *)
(***************************************************************************)
EXTENDS ContentValidation, SequenceTheorems, TLAPS

(***************************************************************************)
(* How the directory of an undisturbed request is assembled.  Each path    *)
(* holds the last of the first k manifest entries for it, or nothing; and  *)
(* each of them has been found to be what its CID says.                    *)
(***************************************************************************)
PathHolds(q, d, k, n) ==
    LET At == {i \in Files(q) : i <= k /\ q.manifest[i].name = n} IN
    \/ At = {} /\ d[n] = NoFile
    \/ \E i \in At : /\ \A j \in At : j <= i
                     /\ d[n] = q.manifest[i].cid

Assembled(q, d, k) == \A n \in Names : PathHolds(q, d, k, n)

Examined(q, k) == \A i \in Files(q) : i <= k => Genuine(q, q.manifest[i])

\* The file being written, and what the directory holds apart from it.
Writing(u, d, x) ==
    /\ pos[u] \in Files(req[u]) /\ File(u).cid \in Contents
    /\ d[File(u).name] = x
    /\ \A n \in Names \ {File(u).name} : PathHolds(req[u], d, pos[u] - 1, n)

AloneHolds(u) ==
    LET q == req[u]
        d == tmp[q.root]
    IN  /\ pc[u] # "idle" /\ q.root \in Roots
        /\ \A v \in SameRoot(u) : pc[v] \notin Working
        /\ pc[u] \in Working \ {"clean"} => Fits(q)
        /\ pc[u] \in {"create", "copy", "check"} => Examined(q, pos[u] - 1)
        /\ pc[u] = "create" => Assembled(q, d, pos[u] - 1)
        /\ pc[u] = "copy" => open[u] /\ Writing(u, d, Partial)
        /\ pc[u] = "check" => Writing(u, d, Source(q, File(u)))
        /\ pc[u] = "hash" => /\ Examined(q, Len(q.manifest))
                             /\ Assembled(q, d, Len(q.manifest))
        /\ pc[u] \in Finished \cup {"clean"} =>
              LET outcome == IF pc[u] = "clean" THEN verdict[u] ELSE pc[u] IN
              /\ outcome = "accepted" => Honest(q)
              /\ outcome = "rejected" => ~ Honest(q)

\* Where a request is in its manifest.
EntryInv ==
    \A u \in Uploads :
        /\ pc[u] = "idle" => pos[u] = 1
        /\ pc[u] \in {"copy", "check"} => File(u).name \notin Dirs
        /\ pc[u] = "copy" => File(u).cid \in Contents

AloneInv == \A u \in Uploads : undisturbed[u] => AloneHolds(u)

-------------------------------------------------------------------------------
(***************************************************************************)
(* Requests and their files.                                               *)
(***************************************************************************)
LEMMA RequestFacts ==
    ASSUME NEW q \in Requests
    PROVE  /\ q.root \notin Malformed => q.root \in Roots
           /\ Len(q.manifest) \in Nat /\ DOMAIN q.manifest = 1 .. Len(q.manifest)
           /\ q.manifest # <<>> => Len(q.manifest) >= 1
           /\ \A i \in 1 .. Len(q.manifest) :
                 /\ q.manifest[i].name \in Names
                 /\ q.manifest[i].cid \in Contents \cup Malformed
<1>1. q \in UploadRequest
    BY ValidationAssumption
<1>2. q.manifest \in Seq([name : Names, cid : Contents \cup Malformed])
    BY <1>1 DEF UploadRequest
<1>3. q.root \notin Malformed => q.root \in Roots
    BY DEF Roots
<1>4. /\ Len(q.manifest) \in Nat /\ DOMAIN q.manifest = 1 .. Len(q.manifest)
      /\ q.manifest # <<>> => Len(q.manifest) >= 1
    BY <1>2
<1>5. \A i \in 1 .. Len(q.manifest) :
          q.manifest[i] \in [name : Names, cid : Contents \cup Malformed]
    BY <1>2, ElementOfSeq
<1> QED  BY <1>2, <1>3, <1>4, <1>5

LEMMA SourceType ==
    ASSUME NEW q \in Requests, NEW e, e.cid \in Contents
    PROVE  Source(q, e) \in Contents
<1>1. q.parts \in UNION {[S -> Contents] : S \in SUBSET (Contents \cup Malformed)}
    BY ValidationAssumption DEF UploadRequest
<1>2. PICK S \in SUBSET (Contents \cup Malformed) : q.parts \in [S -> Contents]
    BY <1>1
<1> QED  BY <1>2 DEF Source

(***************************************************************************)
(* Type correctness.                                                       *)
(***************************************************************************)
LEMMA InitType == Init => TypeOK /\ EntryInv
<1> SUFFICES ASSUME Init PROVE TypeOK /\ EntryInv
    OBVIOUS
<1>1. tmp \in [Roots -> [Names -> Contents \cup {NoFile, Partial}]]
    BY DEF Init, Empty
<1> QED  BY <1>1 DEF Init, TypeOK, EntryInv, Working

\* Moving on stays inside the manifest.
LEMMA NextEntryType ==
    ASSUME TypeOK, NEW u \in Uploads, pc[u] \in {"create", "check"}, NextEntry(u)
    PROVE  /\ pc' \in [Uploads -> {"idle"} \cup Working \cup Finished]
           /\ \A w \in Uploads : /\ w # u => pc'[w] = pc[w] /\ pos'[w] = pos[w]
                                 /\ pc'[w] \in {"create", "copy", "check"} =>
                                       pos'[w] \in 1 .. Len(req[w].manifest)
           /\ pc'[u] = IF IsLast(u) THEN "hash" ELSE "create"
           /\ pos'[u] = IF IsLast(u) THEN 1 ELSE pos[u] + 1
<1>1. \A w \in Uploads : w # u => pc'[w] = pc[w]
    BY DEF NextEntry, Goto, TypeOK
<1>2. pc'[u] = IF IsLast(u) THEN "hash" ELSE "create"
    BY DEF NextEntry, Goto, TypeOK
<1>3. pc' \in [Uploads -> {"idle"} \cup Working \cup Finished]
    BY DEF NextEntry, Goto, TypeOK, Working
<1>4. /\ pos' = [pos EXCEPT ![u] = IF IsLast(u) THEN 1 ELSE pos[u] + 1]
      /\ pos \in [Uploads -> Nat]
    BY DEF NextEntry, TypeOK
<1>5. IsLast(u) \/ pos'[u] \in 1 .. Len(req[u].manifest)
    <2>1. pos[u] \in 1 .. Len(req[u].manifest) /\ Len(req[u].manifest) \in Nat
        BY RequestFacts DEF TypeOK
    <2> QED  BY <1>4, <2>1 DEF IsLast
<1> QED  BY <1>1, <1>2, <1>3, <1>4, <1>5 DEF TypeOK

LEMMA TypeStep == TypeOK /\ EntryInv /\ [Next]_vars => TypeOK' /\ EntryInv'
<1> SUFFICES ASSUME TypeOK, EntryInv, [Next]_vars PROVE TypeOK' /\ EntryInv'
    OBVIOUS
<1>1. ASSUME NEW u \in Uploads, Begin(u) \/ RejectSize(u) \/ RejectRoot(u) \/ SizeError(u)
      PROVE  TypeOK' /\ EntryInv'
    <2>1. /\ pc[u] = "idle" /\ pos[u] = 1 /\ pc'[u] \in {"hash", "create", "rejected", "error"}
          /\ pc'[u] = "create" => req[u].manifest # <<>>
          /\ pc'[u] \in Working => req[u].root \notin Malformed
          /\ UNCHANGED <<tmp, req, pos, open, verdict, littered, debris>>
          /\ pc' \in [Uploads -> {"idle"} \cup Working \cup Finished]
          /\ \A w \in Uploads \ {u} : pc'[w] = pc[w]
        BY <1>1 DEF Begin, RejectSize, RejectRoot, SizeError, Goto, TypeOK, EntryInv, history,
           Working, Finished
    <2>2. undisturbed' \in [Uploads -> BOOLEAN]
        BY <1>1 DEF Begin, RejectSize, RejectRoot, SizeError, TypeOK, history
    <2>3. pc'[u] = "create" => pos[u] \in 1 .. Len(req[u].manifest)
        BY <2>1, RequestFacts DEF TypeOK
    <2>4. pc'[u] \in Working => req[u].root \in Roots
        BY <2>1, RequestFacts DEF TypeOK
    <2> QED  BY <2>1, <2>2, <2>3, <2>4 DEF TypeOK, EntryInv, File
<1>2. ASSUME NEW u \in Uploads,
             \/ SkipDirectory(u)
             \/ CheckFile(u) /\ tmp[req[u].root][File(u).name] = File(u).cid
      PROVE  TypeOK' /\ EntryInv'
    <2>1. /\ pc[u] \in {"create", "check"} /\ NextEntry(u)
          /\ UNCHANGED <<tmp, req, open, verdict, history>>
        BY <1>2 DEF SkipDirectory, CheckFile
    <2>2. pos' \in [Uploads -> Nat]
        BY <2>1 DEF NextEntry, TypeOK
    <2>3. \A w \in Uploads : pc'[w] \in Working => req'[w].root \in Roots
        <3>1. pc[u] \in Working
            BY <2>1 DEF Working
        <3> QED  BY <2>1, <3>1, NextEntryType DEF TypeOK
    <2> QED  BY <2>1, <2>2, <2>3, NextEntryType DEF TypeOK, EntryInv, File, history
<1>3. ASSUME NEW u \in Uploads, CreateFile(u) PROVE TypeOK' /\ EntryInv'
    <2>1. /\ pc[u] = "create" /\ pc'[u] = "copy" /\ File(u).cid \in Contents /\ File(u).name \notin Dirs
          /\ UNCHANGED <<req, pos, verdict, debris>>
          /\ pc' \in [Uploads -> {"idle"} \cup Working \cup Finished]
          /\ \A w \in Uploads \ {u} : pc'[w] = pc[w]
          /\ open' \in [Uploads -> BOOLEAN]
        BY <1>3 DEF CreateFile, Goto, TypeOK, Working, history
    <2>2. tmp' \in [Roots -> [Names -> Contents \cup {NoFile, Partial}]]
        BY <1>3, RequestFacts DEF CreateFile, TypeOK
    <2>3. TypeOK'
        <3>1. \A w \in Uploads : pc'[w] \in {"create", "copy", "check"} =>
                  pos'[w] \in 1 .. Len(req'[w].manifest)
            BY <2>1 DEF TypeOK
        <3>2. littered' \in BOOLEAN /\ undisturbed' \in [Uploads -> BOOLEAN]
            BY <1>3 DEF CreateFile, history, TypeOK
        <3>3. \A w \in Uploads : pc'[w] \in Working => req'[w].root \in Roots
            BY <2>1 DEF TypeOK, Working
        <3> QED  BY <2>1, <2>2, <3>1, <3>2, <3>3 DEF TypeOK
    <2>4. EntryInv'
        BY <2>1 DEF TypeOK, EntryInv, File
    <2> QED  BY <2>3, <2>4
<1>4. ASSUME NEW u \in Uploads, CopyFile(u) PROVE TypeOK' /\ EntryInv'
    <2>1. /\ pc[u] = "copy" /\ pc'[u] = "check"
          /\ UNCHANGED <<req, pos, verdict, debris>>
          /\ pc' \in [Uploads -> {"idle"} \cup Working \cup Finished]
          /\ \A w \in Uploads \ {u} : pc'[w] = pc[w]
          /\ open' \in [Uploads -> BOOLEAN]
        BY <1>4 DEF CopyFile, Goto, TypeOK, Working, history
    <2>2. Source(req[u], File(u)) \in Contents
        BY <2>1, SourceType DEF TypeOK, EntryInv
    <2>3. tmp' \in [Roots -> [Names -> Contents \cup {NoFile, Partial}]]
        BY <1>4, <2>2, RequestFacts DEF CopyFile, TypeOK
    <2>4. TypeOK'
        <3>1. \A w \in Uploads : pc'[w] \in {"create", "copy", "check"} =>
                  pos'[w] \in 1 .. Len(req'[w].manifest)
            BY <2>1 DEF TypeOK
        <3>2. littered' \in BOOLEAN /\ undisturbed' \in [Uploads -> BOOLEAN]
            BY <1>4 DEF CopyFile, history, TypeOK
        <3>3. \A w \in Uploads : pc'[w] \in Working => req'[w].root \in Roots
            BY <2>1 DEF TypeOK, Working
        <3> QED  BY <2>1, <2>3, <3>1, <3>2, <3>3 DEF TypeOK
    <2>5. EntryInv'
        BY <2>1 DEF TypeOK, EntryInv, File
    <2> QED  BY <2>4, <2>5
<1>5. ASSUME NEW u \in Uploads,
             \/ RejectFormat(u) \/ RetrieveError(u) \/ OpenError(u) \/ HashRoot(u) \/ Fail(u)
             \/ CheckFile(u) /\ tmp[req[u].root][File(u).name] # File(u).cid
      PROVE  TypeOK' /\ EntryInv'
    <2>1. /\ pc[u] \in Working /\ pc'[u] = "clean"
          /\ UNCHANGED <<tmp, req, pos, open, littered, debris>>
          /\ pc' \in [Uploads -> {"idle"} \cup Working \cup Finished]
          /\ \A w \in Uploads \ {u} : pc'[w] = pc[w]
          /\ verdict' \in [Uploads -> {"accepted", "rejected", "error"}]
        BY <1>5 DEF RejectFormat, RetrieveError, OpenError, HashRoot, Fail, CheckFile,
           Leave, Goto, TypeOK,
           Working, history
    <2>2. undisturbed' \in [Uploads -> BOOLEAN]
        BY <1>5 DEF RejectFormat, RetrieveError, OpenError, HashRoot, Fail, CheckFile, TypeOK,
           history
    <2> QED  BY <2>1, <2>2 DEF TypeOK, EntryInv, File
<1>6. ASSUME NEW u \in Uploads, CleanUp(u) \/ CleanUpError(u) PROVE TypeOK' /\ EntryInv'
    <2>1. /\ pc'[u] = verdict[u] /\ UNCHANGED <<req, pos, verdict, undisturbed>>
          /\ verdict[u] \in Finished
          /\ pc' \in [Uploads -> {"idle"} \cup Working \cup Finished]
          /\ \A w \in Uploads \ {u} : pc'[w] = pc[w]
        BY <1>6 DEF CleanUp, CleanUpError, Goto, TypeOK, Finished
    <2>2. req[u].root \in Roots
        BY <1>6 DEF CleanUp, CleanUpError, TypeOK, Working
    <2>3. tmp' \in [Roots -> [Names -> Contents \cup {NoFile, Partial}]]
        <3>1. CASE CleanUp(u)
            BY <2>2, <3>1 DEF CleanUp, TypeOK, Empty
        <3>2. CASE CleanUpError(u)
            <4>1. PICK kept \in SUBSET Names :
                      tmp' = [tmp EXCEPT ![req[u].root] =
                         [n \in Names |-> IF n \in kept THEN tmp[req[u].root][n] ELSE NoFile]]
                BY <3>2 DEF CleanUpError
            <4>2. [n \in Names |-> IF n \in kept THEN tmp[req[u].root][n] ELSE NoFile]
                      \in [Names -> Contents \cup {NoFile, Partial}]
                BY <2>2 DEF TypeOK
            <4> QED  BY <4>1, <4>2 DEF TypeOK
        <3> QED  BY <1>6, <3>1, <3>2
    <2>4. open' \in [Uploads -> BOOLEAN] /\ littered' \in BOOLEAN
        BY <1>6 DEF CleanUp, CleanUpError, TypeOK
    <2>5. debris' \subseteq Roots
        BY <1>6, <2>2 DEF CleanUp, CleanUpError, TypeOK
    <2> QED  BY <2>1, <2>3, <2>4, <2>5 DEF TypeOK, EntryInv, File, Finished, Working
<1>7. CASE Crash
    <2>1. pc' \in [Uploads -> {"idle"} \cup Working \cup Finished]
        BY <1>7 DEF Crash, TypeOK, Finished
    <2>2. \A w \in Uploads : pc'[w] \in {pc[w], "lost"}
        BY <1>7 DEF Crash
    <2>3. debris' \subseteq Roots
        BY <1>7 DEF Crash, TypeOK
    <2> QED  BY <1>7, <2>1, <2>2, <2>3 DEF Crash, TypeOK, EntryInv, File
<1>8. CASE UNCHANGED vars
    BY <1>8 DEF vars, history, TypeOK, EntryInv, File
<1> QED  BY <1>1, <1>2, <1>3, <1>4, <1>5, <1>6, <1>7, <1>8 DEF Next, Validate

(***************************************************************************)
(* Every variable stays in its range, and a request that works on its      *)
(* manifest is at one of its entries, whatever crashes or fails.           *)
(***************************************************************************)
THEOREM TypeCorrect == Spec => []TypeOK
<1>1. Spec => [](TypeOK /\ EntryInv)
    BY InitType, TypeStep, PTL DEF Spec
<1> QED  BY <1>1, PTL

(***************************************************************************)
(* Removal of the directories.                                             *)
(***************************************************************************)

\* The steps of a request other than its clean-up.
Inside(u) ==
    \/ Begin(u) \/ RejectSize(u) \/ RejectRoot(u) \/ SizeError(u) \/ SkipDirectory(u)
    \/ CreateFile(u) \/ RejectFormat(u) \/ RetrieveError(u) \/ CopyFile(u) \/ CheckFile(u)
    \/ OpenError(u) \/ HashRoot(u) \/ Fail(u)

LEMMA StepCases ==
    ASSUME [Next]_vars
    PROVE  \/ \E u \in Uploads : Inside(u) \/ CleanUp(u) \/ CleanUpError(u)
           \/ Crash
           \/ UNCHANGED vars
BY DEF Next, Validate, Inside

\* Such a step touches the request and its directory only.
LEMMA InsideIsLocal ==
    ASSUME TypeOK, NEW u \in Uploads, Inside(u)
    PROVE  /\ req' = req /\ debris' = debris
           /\ \A w \in Uploads \ {u} : /\ pc'[w] = pc[w] /\ pos'[w] = pos[w]
                                       /\ verdict'[w] = verdict[w] /\ open'[w] = open[w]
           /\ pc[u] \in Working => pc'[u] \in Working
           /\ \A r \in Roots : tmp'[r] # tmp[r] => r = req[u].root /\ pc[u] \in Working
<1>1. req' = req /\ debris' = debris
    BY DEF Inside, Begin, RejectSize, RejectRoot, SizeError, SkipDirectory, CreateFile,
       RejectFormat, RetrieveError, CopyFile, CheckFile, OpenError, HashRoot, Fail, history
<1>2. pc[u] \in Working => pc'[u] \in Working
    BY DEF Inside, Begin, RejectSize, RejectRoot, SizeError, SkipDirectory, CreateFile,
       RejectFormat, RetrieveError, CopyFile, CheckFile, OpenError, HashRoot, Fail,
       NextEntry, Leave, Goto, TypeOK, Working
<1>3. \A w \in Uploads \ {u} : pc'[w] = pc[w]
    BY DEF Inside, Begin, RejectSize, RejectRoot, SizeError, SkipDirectory, CreateFile,
       RejectFormat, RetrieveError, CopyFile, CheckFile, OpenError, HashRoot, Fail,
       NextEntry, Leave, Goto, TypeOK
<1>4. \A w \in Uploads \ {u} : pos'[w] = pos[w] /\ verdict'[w] = verdict[w]
    BY DEF Inside, Begin, RejectSize, RejectRoot, SizeError, SkipDirectory, CreateFile,
       RejectFormat, RetrieveError, CopyFile, CheckFile, OpenError, HashRoot, Fail,
       NextEntry, Leave, TypeOK
<1>5. \A w \in Uploads \ {u} : open'[w] = open[w]
    BY DEF Inside, Begin, RejectSize, RejectRoot, SizeError, SkipDirectory, CreateFile,
       RejectFormat, RetrieveError, CopyFile, CheckFile, OpenError, HashRoot, Fail, TypeOK
<1>6. \A r \in Roots : tmp'[r] # tmp[r] => r = req[u].root /\ pc[u] \in Working
    <2>1. CASE CreateFile(u) \/ CopyFile(u)
        BY <2>1 DEF CreateFile, CopyFile, TypeOK, Working
    <2>2. CASE ~ (CreateFile(u) \/ CopyFile(u))
        BY <2>2 DEF Inside, Begin, RejectSize, RejectRoot, SizeError, SkipDirectory, RejectFormat,
           RetrieveError, CheckFile, OpenError, HashRoot, Fail
    <2> QED  BY <2>1, <2>2
<1> QED  BY <1>1, <1>2, <1>3, <1>4, <1>5, <1>6

LEMMA CleanStep == TypeOK /\ WorkdirClean /\ [Next]_vars => WorkdirClean'
<1> SUFFICES ASSUME TypeOK, WorkdirClean, [Next]_vars, NEW r \in Roots, tmp'[r] # Empty
             PROVE  r \in debris' \/ \E u \in Uploads : pc'[u] \in Working /\ req'[u].root = r
    BY DEF WorkdirClean
<1>1. ASSUME NEW u \in Uploads, Inside(u)
      PROVE  r \in debris' \/ \E w \in Uploads : pc'[w] \in Working /\ req'[w].root = r
    BY <1>1, InsideIsLocal DEF WorkdirClean
<1>2. ASSUME NEW u \in Uploads, CleanUp(u) \/ CleanUpError(u)
      PROVE  r \in debris' \/ \E w \in Uploads : pc'[w] \in Working /\ req'[w].root = r
    <2>1. req' = req /\ \A w \in Uploads \ {u} : pc'[w] = pc[w]
        BY <1>2 DEF CleanUp, CleanUpError, Goto, TypeOK
    <2>2. CASE r = req[u].root
        BY <1>2, <2>2 DEF CleanUp, CleanUpError, TypeOK
    <2>3. CASE r # req[u].root
        <3>1. tmp'[r] = tmp[r] /\ (r \in debris => r \in debris')
            BY <1>2, <2>3 DEF CleanUp, CleanUpError, TypeOK
        <3> QED  BY <2>1, <2>3, <3>1 DEF WorkdirClean
    <2> QED  BY <2>2, <2>3
<1>3. CASE Crash
    BY <1>3 DEF Crash, WorkdirClean
<1>4. CASE UNCHANGED vars
    BY <1>4 DEF vars, history, WorkdirClean
<1> QED  BY <1>1, <1>2, <1>3, <1>4, StepCases

(***************************************************************************)
(* A directory with files in it belongs to a root somebody works on, or    *)
(* has been left by a crash or a failed removal.                           *)
(***************************************************************************)
THEOREM WorkdirCleanHolds == Spec => []WorkdirClean
<1>1. Init => WorkdirClean
    BY DEF Init, WorkdirClean
<1>2. TypeOK /\ WorkdirClean /\ [Next]_vars => WorkdirClean'
    BY CleanStep
<1> QED  BY <1>1, <1>2, TypeCorrect, PTL DEF Spec

(***************************************************************************)
(* The directory, entry by entry.                                          *)
(***************************************************************************)
LEMMA MaxFacts ==
    ASSUME NEW S \in SUBSET Int, NEW m \in S, \A j \in S : j <= m
    PROVE  Max(S) = m
<1>1. \E x \in S : \A y \in S : x >= y
    OBVIOUS
<1>2. Max(S) \in S /\ \A y \in S : Max(S) >= y
    BY <1>1 DEF Max
<1>3. Max(S) \in Int /\ m \in Int /\ Max(S) <= m /\ Max(S) >= m
    BY <1>2
<1> QED  BY <1>3

\* Once all entries are in, the directory is the one the request describes.
LEMMA AllAssembled ==
    ASSUME NEW q \in Requests, NEW d \in [Names -> Contents \cup {NoFile, Partial}],
           Assembled(q, d, Len(q.manifest))
    PROVE  Described(q) = d
<1> DEFINE At(n) == {i \in Files(q) : q.manifest[i].name = n}
<1>1. \A i \in Files(q) : i \in Int /\ i <= Len(q.manifest)
    BY RequestFacts DEF Files
<1>2. Described(q) = [n \in Names |-> IF At(n) = {} THEN NoFile ELSE q.manifest[Max(At(n))].cid]
    BY DEF Described
<1>3. ASSUME NEW n \in Names
      PROVE  d[n] = IF At(n) = {} THEN NoFile ELSE q.manifest[Max(At(n))].cid
    <2>1. At(n) = {i \in Files(q) : i <= Len(q.manifest) /\ q.manifest[i].name = n}
        BY <1>1
    <2>2. \/ At(n) = {} /\ d[n] = NoFile
          \/ \E i \in At(n) : (\A j \in At(n) : j <= i) /\ d[n] = q.manifest[i].cid
        BY <2>1 DEF Assembled, PathHolds
    <2>3. ASSUME NEW i \in At(n), \A j \in At(n) : j <= i, d[n] = q.manifest[i].cid
          PROVE  d[n] = IF At(n) = {} THEN NoFile ELSE q.manifest[Max(At(n))].cid
        <3>1. At(n) \in SUBSET Int
            BY <1>1
        <3>2. Max(At(n)) = i
            BY <2>3, <3>1, MaxFacts
        <3> QED  BY <2>3, <3>2
    <2> QED  BY <2>2, <2>3
<1> QED  BY <1>2, <1>3

\* An entry that is a directory leaves everything as it is.
LEMMA DirectorySkipped ==
    ASSUME NEW q \in Requests, NEW k \in 1 .. Len(q.manifest), k \notin Files(q), NEW d
    PROVE  /\ Assembled(q, d, k - 1) => Assembled(q, d, k)
           /\ Examined(q, k - 1) => Examined(q, k)
<1>1. \A i \in Files(q) : i \in Int
    BY RequestFacts DEF Files
<1>2. \A i \in Files(q) : i <= k <=> i <= k - 1
    BY <1>1
<1>3. \A n \in Names : {i \in Files(q) : i <= k /\ q.manifest[i].name = n}
                     = {i \in Files(q) : i <= k - 1 /\ q.manifest[i].name = n}
    BY <1>2
<1> QED  BY <1>2, <1>3 DEF Assembled, PathHolds, Examined

\* A file replaces what earlier entries have put at its path.
LEMMA FileAdded ==
    ASSUME NEW q \in Requests, NEW k \in Files(q), NEW d,
           d[q.manifest[k].name] = q.manifest[k].cid,
           \A n \in Names \ {q.manifest[k].name} : PathHolds(q, d, k - 1, n)
    PROVE  Assembled(q, d, k)
<1>1. \A i \in Files(q) : i \in Int
    BY RequestFacts DEF Files
<1> SUFFICES ASSUME NEW n \in Names PROVE PathHolds(q, d, k, n)
    BY DEF Assembled
<1>2. CASE n = q.manifest[k].name
    BY <1>1, <1>2 DEF PathHolds
<1>3. CASE n # q.manifest[k].name
    <2>1. {i \in Files(q) : i <= k /\ q.manifest[i].name = n}
            = {i \in Files(q) : i <= k - 1 /\ q.manifest[i].name = n}
        BY <1>1, <1>3
    <2>2. PathHolds(q, d, k - 1, n)
        BY <1>3
    <2> QED  BY <2>1, <2>2 DEF PathHolds
<1> QED  BY <1>2, <1>3

LEMMA FileExamined ==
    ASSUME NEW q \in Requests, NEW k \in Files(q), Examined(q, k - 1), Genuine(q, q.manifest[k])
    PROVE  Examined(q, k)
<1>1. \A i \in Files(q) : i \in Int
    BY RequestFacts DEF Files
<1> QED  BY <1>1 DEF Examined

(***************************************************************************)
(* The steps of a request that is undisturbed.                             *)
(***************************************************************************)

\* Nothing that AloneHolds speaks of has changed.
LEMMA AloneKept ==
    ASSUME NEW u \in Uploads, AloneHolds(u), req' = req,
           pc'[u] = pc[u], pos'[u] = pos[u], verdict'[u] = verdict[u], open'[u] = open[u],
           tmp'[req[u].root] = tmp[req[u].root],
           \A v \in SameRoot(u) : pc'[v] \notin Working
    PROVE  AloneHolds(u)'
<1>1. File(u)' = File(u) /\ Source(req[u], File(u))' = Source(req[u], File(u))
    BY DEF File, Source
<1>2. /\ Examined(req[u], pos[u] - 1)' <=> Examined(req[u], pos[u] - 1)
      /\ Examined(req[u], Len(req[u].manifest))' <=> Examined(req[u], Len(req[u].manifest))
    BY DEF Examined
<1>3. /\ Assembled(req[u], tmp[req[u].root], pos[u] - 1)'
            <=> Assembled(req[u], tmp[req[u].root], pos[u] - 1)
      /\ Assembled(req[u], tmp[req[u].root], Len(req[u].manifest))'
            <=> Assembled(req[u], tmp[req[u].root], Len(req[u].manifest))
    BY DEF Assembled, PathHolds
<1>4. /\ Writing(u, tmp[req[u].root], Partial)' <=> Writing(u, tmp[req[u].root], Partial)
      /\ Writing(u, tmp[req[u].root], Source(req[u], File(u)))'
            <=> Writing(u, tmp[req[u].root], Source(req[u], File(u)))
    BY <1>1 DEF Writing, PathHolds
<1> QED  BY <1>1, <1>2, <1>3, <1>4 DEF AloneHolds, SameRoot

\* Steps of others.
LEMMA AloneDespite ==
    ASSUME TypeOK, AloneInv, NEW u \in Uploads, undisturbed'[u], NEW v \in Uploads \ {u},
           Inside(v) \/ CleanUp(v) \/ CleanUpError(v)
    PROVE  AloneHolds(u)'
<1>1. undisturbed[u] /\ (Begin(v) => u \notin SameRoot(v))
    BY DEF Inside, Begin, RejectSize, RejectRoot, SizeError, SkipDirectory, CreateFile,
       RejectFormat, RetrieveError, CopyFile, CheckFile, OpenError, HashRoot, Fail,
       CleanUp, CleanUpError, TypeOK, history
<1>2. AloneHolds(u)
    BY <1>1 DEF AloneInv
<1>3. \A w \in SameRoot(u) : pc[w] \notin Working
    BY <1>2 DEF AloneHolds
<1>4. /\ req[u].root \in Roots
      /\ v \in SameRoot(u) <=> u \in SameRoot(v)
      /\ v \in SameRoot(u) <=> req[u].root = req[v].root
    BY <1>2 DEF AloneHolds, SameRoot
<1>5. CASE Inside(v)
    <2>1. \A w \in SameRoot(u) : pc'[w] \notin Working
        <3>1. v \in SameRoot(u) => pc'[v] \notin Working
            BY <1>1, <1>3, <1>4, <1>5 DEF Inside, RejectSize, RejectRoot, SizeError, SkipDirectory,
               CreateFile, RejectFormat, RetrieveError, CopyFile, CheckFile, OpenError,
               HashRoot, Fail, Goto, TypeOK, Working
        <3>2. \A w \in Uploads \ {v} : pc'[w] = pc[w]
            BY <1>5, InsideIsLocal
        <3> QED  BY <1>3, <3>1, <3>2 DEF SameRoot
    <2>2. tmp'[req[u].root] = tmp[req[u].root]
        BY <1>3, <1>4, <1>5, InsideIsLocal
    <2>3. /\ req' = req /\ pc'[u] = pc[u] /\ pos'[u] = pos[u]
          /\ verdict'[u] = verdict[u] /\ open'[u] = open[u]
        BY <1>5, InsideIsLocal
    <2> QED  BY <1>2, <2>1, <2>2, <2>3, AloneKept
<1>6. CASE CleanUp(v) \/ CleanUpError(v)
    <2>1. pc[v] \in Working /\ req[v].root \in Roots
        BY <1>6 DEF CleanUp, CleanUpError, TypeOK, Working
    <2>2. v \notin SameRoot(u)
        BY <1>3, <2>1
    <2>3. \A w \in Uploads \ {v} : pc'[w] = pc[w]
        BY <1>6 DEF CleanUp, CleanUpError, Goto, TypeOK
    <2>4. tmp'[req[u].root] = tmp[req[u].root]
        BY <1>4, <1>6, <2>2 DEF CleanUp, CleanUpError, TypeOK
    <2>5. open'[u] = open[u]
        <3>1. u \notin SameRoot(v) /\ open[u] \in BOOLEAN
            BY <1>4, <2>2 DEF TypeOK
        <3>2. CASE CleanUp(v)
            BY <3>1, <3>2 DEF CleanUp
        <3>3. CASE CleanUpError(v)
            <4>1. PICK kept \in SUBSET Names :
                      open' = [w \in Uploads |-> /\ open[w] /\ w # v
                                                 /\ w \in SameRoot(v) => File(w).name \in kept]
                BY <3>3 DEF CleanUpError
            <4>2. open'[u] = (open[u] /\ u # v /\ (u \in SameRoot(v) => File(u).name \in kept))
                BY <4>1
            <4> QED  BY <3>1, <4>2
        <3> QED  BY <1>6, <3>2, <3>3
    <2>6. req' = req /\ pos' = pos /\ verdict' = verdict
        BY <1>6 DEF CleanUp, CleanUpError
    <2>7. \A w \in SameRoot(u) : pc'[w] \notin Working
        BY <1>3, <2>2, <2>3 DEF SameRoot
    <2> QED  BY <1>2, <2>3, <2>4, <2>5, <2>6, <2>7, AloneKept
<1> QED  BY <1>5, <1>6

\* Its own steps, in the order in which it takes them.
LEMMA AloneBegin ==
    ASSUME TypeOK, EntryInv, NEW u \in Uploads, undisturbed'[u], Begin(u)
    PROVE  AloneHolds(u)'
<1>1. /\ pc[u] = "idle" /\ Fits(req[u]) /\ pos[u] = 1
      /\ UNCHANGED <<tmp, req, pos, open, verdict>>
      /\ pc'[u] = IF req[u].manifest = <<>> THEN "hash" ELSE "create"
      /\ tmp[req[u].root] = Empty
      /\ \A v \in SameRoot(u) : pc[v] \notin Working /\ pc'[v] = pc[v]
    BY DEF Begin, Goto, EntryInv, TypeOK, SameRoot
<1>2. \A i \in Files(req[u]) : i >= 1 /\ i <= Len(req[u].manifest) /\ i \in Int
    BY RequestFacts DEF Files, TypeOK
<1>3. Assembled(req[u], Empty, 0) /\ Examined(req[u], 0)
    BY <1>2 DEF Assembled, PathHolds, Examined, Empty
<1>4. req[u].root \in Roots
    BY RequestFacts DEF Begin, TypeOK
<1>5. CASE req[u].manifest = <<>>
    <2>1. Len(req[u].manifest) = 0
        BY <1>5
    <2> QED  BY <1>1, <1>3, <1>5, <1>4, <2>1
             DEF AloneHolds, SameRoot, Assembled, PathHolds, Examined, Finished
<1>6. CASE req[u].manifest # <<>>
    BY <1>1, <1>3, <1>6, <1>4 DEF AloneHolds, SameRoot, Assembled, PathHolds, Examined, Finished
<1> QED  BY <1>5, <1>6

\* What every step inside keeps.
LEMMA AloneInside ==
    ASSUME TypeOK, AloneInv, NEW u \in Uploads, undisturbed'[u], Inside(u), pc[u] # "idle"
    PROVE  /\ undisturbed[u] /\ AloneHolds(u) /\ req' = req
           /\ pc[u] \in Working \ {"clean"} => Fits(req[u])
           /\ pc'[u] \in Working
           /\ \A v \in SameRoot(u) : pc'[v] \notin Working
           /\ req[u].root \in Roots
<1>1. pc[u] \in Working
    BY DEF Inside, Begin, RejectSize, RejectRoot, SizeError, SkipDirectory, CreateFile,
       RejectFormat, RetrieveError, CopyFile, CheckFile, OpenError, HashRoot, Fail, Working
<1>2. undisturbed[u]
    BY DEF Inside, Begin, RejectSize, RejectRoot, SizeError, SkipDirectory, CreateFile,
       RejectFormat, RetrieveError, CopyFile, CheckFile, OpenError, HashRoot, Fail, TypeOK, history
<1>3. AloneHolds(u)
    BY <1>2 DEF AloneInv
<1> QED  BY <1>1, <1>2, <1>3, InsideIsLocal DEF AloneHolds, SameRoot

\* Entry k is done: the loop goes on, or the directory is complete.
LEMMA AloneNext ==
    ASSUME TypeOK, NEW u \in Uploads, NextEntry(u), pc[u] \in {"create", "check"},
           req' = req, tmp' = tmp, Fits(req[u]),
           Assembled(req[u], tmp[req[u].root], pos[u]), Examined(req[u], pos[u]),
           \A v \in SameRoot(u) : pc'[v] \notin Working
    PROVE  AloneHolds(u)'
<1>1. req[u].root \in Roots
    BY DEF TypeOK, Working
<1>2. pos[u] \in Nat /\ Len(req[u].manifest) \in Nat
    BY RequestFacts DEF TypeOK
<1>3. /\ pc'[u] = IF IsLast(u) THEN "hash" ELSE "create"
      /\ pos'[u] = IF IsLast(u) THEN 1 ELSE pos[u] + 1
    BY NextEntryType
<1>4. CASE IsLast(u)
    <2>1. pc'[u] = "hash" /\ pos[u] = Len(req[u].manifest)
        BY <1>3, <1>4 DEF IsLast
    <2> QED  BY <1>1, <2>1 DEF AloneHolds, SameRoot, Assembled, PathHolds, Examined, Finished
<1>5. CASE ~ IsLast(u)
    <2>1. pc'[u] = "create" /\ pos'[u] - 1 = pos[u]
        BY <1>2, <1>3, <1>5
    <2> QED  BY <1>1, <2>1 DEF AloneHolds, SameRoot, Assembled, PathHolds, Examined, Finished
<1> QED  BY <1>4, <1>5

LEMMA AloneSkip ==
    ASSUME TypeOK, AloneInv, NEW u \in Uploads, undisturbed'[u], SkipDirectory(u)
    PROVE  AloneHolds(u)'
<1>1. /\ pc[u] = "create" /\ File(u).name \in Dirs /\ NextEntry(u)
      /\ req' = req /\ tmp' = tmp
    BY DEF SkipDirectory
<1>2. AloneHolds(u) /\ Fits(req[u]) /\ \A v \in SameRoot(u) : pc'[v] \notin Working
    BY <1>1, AloneInside DEF Inside, Working
<1>3. pos[u] \in 1 .. Len(req[u].manifest) /\ pos[u] \notin Files(req[u])
    BY <1>1 DEF TypeOK, Files, File
<1>4. /\ Assembled(req[u], tmp[req[u].root], pos[u] - 1)
      /\ Examined(req[u], pos[u] - 1)
    BY <1>1, <1>2 DEF AloneHolds
<1>5. /\ Assembled(req[u], tmp[req[u].root], pos[u])
      /\ Examined(req[u], pos[u])
    BY <1>3, <1>4, DirectorySkipped DEF TypeOK
<1> QED  BY <1>1, <1>2, <1>5, AloneNext

LEMMA AloneCreate ==
    ASSUME TypeOK, AloneInv, NEW u \in Uploads, undisturbed'[u], CreateFile(u)
    PROVE  AloneHolds(u)'
<1>1. /\ pc[u] = "create" /\ File(u).name \notin Dirs /\ File(u).cid \in Contents
      /\ req' = req /\ pos' = pos /\ pc'[u] = "copy" /\ open'[u] = TRUE
      /\ tmp' = [tmp EXCEPT ![req[u].root][File(u).name] = Partial]
    BY DEF CreateFile, Goto, TypeOK
<1>2. AloneHolds(u) /\ Fits(req[u]) /\ \A v \in SameRoot(u) : pc'[v] \notin Working
    BY <1>1, AloneInside DEF Inside, Working
<1>3. /\ pos[u] \in Files(req[u]) /\ File(u).name \in Names
      /\ req[u].root \in Roots /\ tmp[req[u].root] \in [Names -> Contents \cup {NoFile, Partial}]
    BY <1>1, <1>2, RequestFacts DEF AloneHolds, TypeOK, Files, File
<1>4. /\ tmp'[req[u].root][File(u).name] = Partial
      /\ \A n \in Names \ {File(u).name} : tmp'[req[u].root][n] = tmp[req[u].root][n]
    BY <1>1, <1>3 DEF TypeOK
<1>5. Examined(req[u], pos[u] - 1) /\ Assembled(req[u], tmp[req[u].root], pos[u] - 1)
    BY <1>1, <1>2 DEF AloneHolds
<1>6. \A n \in Names \ {File(u).name} : PathHolds(req[u], tmp'[req[u].root], pos[u] - 1, n)
    BY <1>4, <1>5 DEF Assembled, PathHolds
<1>7. Writing(u, tmp[req[u].root], Partial)'
    <2>1. File(u)' = File(u)
        BY <1>1 DEF File
    <2>2. (\A n \in Names \ {File(u).name} : PathHolds(req[u], tmp[req[u].root], pos[u] - 1, n))'
        BY <1>1, <1>6, <2>1 DEF PathHolds
    <2> QED  BY <1>1, <1>3, <1>4, <2>1, <2>2 DEF Writing
<1>8. Examined(req[u], pos[u] - 1)'
    BY <1>1, <1>5 DEF Examined
<1> QED  BY <1>1, <1>2, <1>3, <1>7, <1>8 DEF AloneHolds, SameRoot, Finished

LEMMA AloneCopy ==
    ASSUME TypeOK, AloneInv, NEW u \in Uploads, undisturbed'[u], CopyFile(u)
    PROVE  AloneHolds(u)'
<1> DEFINE x == Source(req[u], File(u))
<1>1. AloneHolds(u) /\ Fits(req[u]) /\ \A v \in SameRoot(u) : pc'[v] \notin Working
    BY AloneInside DEF Inside, Working, CopyFile
<1>2. /\ pc[u] = "copy" /\ open[u] /\ Writing(u, tmp[req[u].root], Partial)
      /\ Examined(req[u], pos[u] - 1)
    BY <1>1 DEF CopyFile, AloneHolds
<1>3. /\ req' = req /\ pos' = pos /\ pc'[u] = "check"
      /\ tmp' = [tmp EXCEPT ![req[u].root][File(u).name] = x]
    BY <1>2 DEF CopyFile, Goto, TypeOK
<1>4. /\ pos[u] \in Files(req[u]) /\ File(u).name \in Names /\ File(u).cid \in Contents
      /\ req[u].root \in Roots /\ tmp[req[u].root] \in [Names -> Contents \cup {NoFile, Partial}]
    BY <1>1, <1>2, RequestFacts DEF AloneHolds, TypeOK, Files, File, Writing
<1>5. /\ tmp'[req[u].root][File(u).name] = x
      /\ \A n \in Names \ {File(u).name} : tmp'[req[u].root][n] = tmp[req[u].root][n]
    BY <1>3, <1>4 DEF TypeOK
<1>6. \A n \in Names \ {File(u).name} : PathHolds(req[u], tmp'[req[u].root], pos[u] - 1, n)
    BY <1>2, <1>5 DEF Writing, PathHolds
<1>7. Source(req[u], File(u))' = x
    BY <1>3 DEF Source, File
<1>8. Writing(u, tmp[req[u].root], Source(req[u], File(u)))'
    <2>1. File(u)' = File(u)
        BY <1>3 DEF File
    <2>2. (pos[u] \in Files(req[u]) /\ File(u).cid \in Contents)'
        BY <1>3, <1>4, <2>1
    <2>3. (tmp[req[u].root][File(u).name] = Source(req[u], File(u)))'
        BY <1>3, <1>5, <1>7, <2>1
    <2>4. (\A n \in Names \ {File(u).name} : PathHolds(req[u], tmp[req[u].root], pos[u] - 1, n))'
        BY <1>3, <1>6, <2>1 DEF PathHolds
    <2> QED  BY <2>2, <2>3, <2>4 DEF Writing
<1>9. Examined(req[u], pos[u] - 1)'
    BY <1>2, <1>3 DEF Examined
<1> QED  BY <1>1, <1>3, <1>8, <1>9 DEF AloneHolds, SameRoot, Finished

\* A clean-up is next, and the outcome is known.
LEMMA AloneLeave ==
    ASSUME NEW u \in Uploads, req' = req, req[u].root \in Roots, pc'[u] = "clean",
           \A v \in SameRoot(u) : pc'[v] \notin Working,
           verdict'[u] = "accepted" => Honest(req[u]),
           verdict'[u] = "rejected" => ~ Honest(req[u])
    PROVE  AloneHolds(u)'
BY DEF AloneHolds, SameRoot

LEMMA AloneCheck ==
    ASSUME TypeOK, AloneInv, NEW u \in Uploads, undisturbed'[u], CheckFile(u)
    PROVE  AloneHolds(u)'
<1> DEFINE q == req[u]
           d == tmp[q.root]
<1>1. /\ AloneHolds(u) /\ Fits(q) /\ q.root \in Roots
      /\ \A v \in SameRoot(u) : pc'[v] \notin Working
    BY AloneInside DEF Inside, Working, CheckFile
<1>2. /\ pc[u] = "check" /\ Writing(u, d, Source(q, File(u))) /\ Examined(q, pos[u] - 1)
      /\ req' = req /\ tmp' = tmp
    BY <1>1 DEF CheckFile, AloneHolds
<1>3. /\ pos[u] \in Files(q) /\ File(u).cid \in Contents
      /\ d[File(u).name] = Source(q, File(u))
      /\ \A n \in Names \ {File(u).name} : PathHolds(q, d, pos[u] - 1, n)
    BY <1>2 DEF Writing
<1>4. CASE d[File(u).name] = File(u).cid
    <2>1. NextEntry(u)
        BY <1>4 DEF CheckFile
    <2>2. Genuine(q, q.manifest[pos[u]])
        BY <1>3, <1>4 DEF Genuine, File
    <2>3. Examined(q, pos[u]) /\ Assembled(q, d, pos[u])
        BY <1>2, <1>3, <1>4, <2>2, FileExamined, FileAdded DEF File, TypeOK
    <2> QED  BY <1>1, <1>2, <2>1, <2>3, AloneNext
<1>5. CASE d[File(u).name] # File(u).cid
    <2>1. pc'[u] = "clean" /\ verdict'[u] = "rejected"
        BY <1>5 DEF CheckFile, Leave, Goto, TypeOK
    <2>2. ~ Honest(q)
        BY <1>3, <1>5 DEF Honest, Genuine, File
    <2> QED  BY <1>1, <1>2, <2>1, <2>2, AloneLeave
<1> QED  BY <1>4, <1>5

LEMMA AloneHash ==
    ASSUME TypeOK, AloneInv, NEW u \in Uploads, undisturbed'[u], HashRoot(u)
    PROVE  AloneHolds(u)'
<1> DEFINE q == req[u]
           d == tmp[q.root]
<1>1. /\ AloneHolds(u) /\ Fits(q) /\ q.root \in Roots
      /\ \A v \in SameRoot(u) : pc'[v] \notin Working
    BY AloneInside DEF Inside, Working, HashRoot
<1>2. /\ pc[u] = "hash" /\ req' = req /\ pc'[u] = "clean"
      /\ verdict'[u] = IF d = Empty THEN "error"
                       ELSE IF d = q.root THEN "accepted" ELSE "rejected"
    BY DEF HashRoot, Leave, Goto, TypeOK
<1>3. Examined(q, Len(q.manifest)) /\ Assembled(q, d, Len(q.manifest))
    BY <1>1, <1>2 DEF AloneHolds
<1>4. Described(q) = d
    BY <1>1, <1>3, AllAssembled DEF TypeOK
<1>5. \A i \in Files(q) : Genuine(q, q.manifest[i])
    <2>1. \A i \in Files(q) : i <= Len(q.manifest)
        BY RequestFacts DEF Files, TypeOK
    <2> QED  BY <1>3, <2>1 DEF Examined
<1>6. verdict'[u] = "accepted" => Honest(q)
    BY <1>1, <1>2, <1>4, <1>5 DEF Honest
<1>7. verdict'[u] = "rejected" => ~ Honest(q)
    BY <1>2, <1>4 DEF Honest
<1> QED  BY <1>1, <1>2, <1>6, <1>7, AloneLeave

LEMMA AloneRefuse ==
    ASSUME TypeOK, EntryInv, AloneInv, NEW u \in Uploads, undisturbed'[u],
           RejectFormat(u) \/ RetrieveError(u) \/ OpenError(u) \/ Fail(u)
    PROVE  AloneHolds(u)'
<1>1. Inside(u) /\ pc[u] # "idle" /\ ~ OpenError(u) /\ ~ RetrieveError(u)
    BY DEF Inside, RejectFormat, RetrieveError, OpenError, Fail, TypeOK, Working
<1>2. /\ req' = req /\ req[u].root \in Roots
      /\ \A v \in SameRoot(u) : pc'[v] \notin Working
    BY <1>1, AloneInside
<1>3. CASE RejectFormat(u)
    <2>1. pc'[u] = "clean" /\ verdict'[u] = "rejected"
        BY <1>3 DEF RejectFormat, Leave, Goto, TypeOK
    <2>2. pos[u] \in Files(req[u]) /\ req[u].manifest[pos[u]].cid \notin Contents
        BY <1>3, RequestFacts, ValidationAssumption DEF RejectFormat, TypeOK, Files, File
    <2> QED  BY <1>2, <2>1, <2>2, AloneLeave DEF Honest, Genuine
<1>4. CASE Fail(u)
    <2>1. pc'[u] = "clean" /\ verdict'[u] = "error"
        BY <1>4 DEF Fail, Leave, Goto, TypeOK
    <2> QED  BY <1>2, <2>1, AloneLeave
<1> QED  BY <1>1, <1>3, <1>4

LEMMA AloneClean ==
    ASSUME TypeOK, AloneInv, NEW u \in Uploads, undisturbed'[u], CleanUp(u) \/ CleanUpError(u)
    PROVE  AloneHolds(u)'
<1>1. /\ pc[u] = "clean" /\ req' = req /\ verdict' = verdict /\ undisturbed' = undisturbed
      /\ \A w \in Uploads \ {u} : pc'[w] = pc[w]
      /\ pc'[u] = verdict[u] /\ verdict[u] \in {"accepted", "rejected", "error"}
    BY DEF CleanUp, CleanUpError, Goto, TypeOK
<1>2. AloneHolds(u)
    BY <1>1 DEF AloneInv
<1>3. \A v \in SameRoot(u) : pc'[v] \notin Working
    BY <1>1, <1>2 DEF AloneHolds, SameRoot
<1>4. /\ verdict[u] = "accepted" => Honest(req[u])
      /\ verdict[u] = "rejected" => ~ Honest(req[u])
      /\ req[u].root \in Roots
    BY <1>1, <1>2 DEF AloneHolds
<1> QED  BY <1>1, <1>3, <1>4 DEF AloneHolds, SameRoot, Working

LEMMA AloneStep == TypeOK /\ EntryInv /\ AloneInv /\ [Next]_vars => AloneInv'
<1> SUFFICES ASSUME TypeOK, EntryInv, AloneInv, [Next]_vars, NEW u \in Uploads, undisturbed'[u]
             PROVE  AloneHolds(u)'
    BY DEF AloneInv
<1>1. CASE \E v \in Uploads \ {u} : Inside(v) \/ CleanUp(v) \/ CleanUpError(v)
    BY <1>1, AloneDespite
<1>2. CASE Inside(u)
    <2>1. CASE RejectSize(u) \/ RejectRoot(u) \/ SizeError(u)
        <3>1. pc[u] = "idle" /\ undisturbed[u]
            BY <2>1 DEF RejectSize, RejectRoot, SizeError, history
        <3> QED  BY <3>1 DEF AloneInv, AloneHolds
    <2> QED  BY <1>2, <2>1, AloneBegin, AloneSkip, AloneCreate, AloneCopy, AloneCheck, AloneHash,
                AloneRefuse DEF Inside
<1>3. CASE CleanUp(u) \/ CleanUpError(u)
    BY <1>3, AloneClean
<1>4. CASE Crash
    <2>1. /\ req' = req /\ tmp' = tmp /\ pos' = pos /\ verdict' = verdict
          /\ undisturbed' = undisturbed
          /\ \A w \in Uploads : pc'[w] = IF pc[w] \in Working THEN "lost" ELSE pc[w]
        BY <1>4 DEF Crash
    <2>2. AloneHolds(u)
        BY <2>1 DEF AloneInv
    <2>3. /\ req[u].root \in Roots
          /\ \A v \in SameRoot(u) : pc'[v] \notin Working
        BY <2>1, <2>2 DEF AloneHolds, SameRoot, Working
    <2>4. CASE pc[u] \in Working
        <3>1. pc'[u] = "lost"
            BY <2>1, <2>4
        <3> QED  BY <2>1, <2>3, <3>1 DEF AloneHolds, SameRoot, Working
    <2>5. CASE pc[u] \notin Working
        <3>1. pc'[u] = pc[u]
            BY <2>1, <2>5
        <3> QED  BY <2>1, <2>2, <2>3, <2>5, <3>1 DEF AloneHolds, SameRoot, Working
    <2> QED  BY <2>4, <2>5
<1>5. CASE UNCHANGED vars
    <2>1. AloneHolds(u)
        BY <1>5 DEF AloneInv, vars, history
    <2> QED  BY <1>5, <2>1, AloneKept DEF vars, AloneHolds
<1> QED  BY <1>1, <1>2, <1>3, <1>4, <1>5, StepCases

(***************************************************************************)
(* The check is exact for a request that finds its directory empty, has it *)
(* to itself and can open its files: whatever the other requests do, what  *)
(* is accepted should pass, and what is rejected should not.               *)
(***************************************************************************)
THEOREM ExactAloneHolds == Spec => []ExactAlone
<1>1. Init => AloneInv
    BY DEF Init, AloneInv
<1>2. Spec => [](TypeOK /\ EntryInv /\ AloneInv)
    <2>1. TypeOK /\ EntryInv /\ AloneInv /\ [Next]_vars => TypeOK' /\ EntryInv' /\ AloneInv'
        BY TypeStep, AloneStep
    <2> QED  BY <1>1, <2>1, InitType, PTL DEF Spec
<1>3. AloneInv => ExactAlone
    BY DEF AloneInv, AloneHolds, ExactAlone, Finished
<1> QED  BY <1>2, <1>3, PTL
===============================================================================
