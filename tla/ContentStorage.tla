---------------------------- MODULE ContentStorage ----------------------------
(***************************************************************************)
(* The content storage: calls that save an object, and calls that read one *)
(* for an upload (DownloadFile and the CID check that follows) or for a    *)
(* client (GET /contents/:cid).                                            *)
(*                                                                         *)
(* storage/local.go saves in place: os.Create truncates the file that is   *)
(* there, io.Copy fills it from the front, and nothing is undone when it   *)
(* fails.  Every call has an offset of its own, so calls that save one     *)
(* object write into each other's file and leave holes, which read as      *)
(* zeros.  storage/s3.go hands the whole object to the bucket.             *)
(***************************************************************************)
EXTENDS Integers, FiniteSets

CONSTANTS
    Saves,          \* calls of SaveFile
    Readers,        \* calls of DownloadFile and of GetContents
    Cids,           \* names of objects
    Pieces,         \* the most pieces (calls of write) a body is copied in
    Bytes,          \* what a piece can be
    Hole,           \* the zeros in a part of a file that was never written
    Past,           \* the end of the file
    Absent,         \* no file
    NoSave,         \* no call has saved the object yet
    Content,        \* Content[c]: the bytes c is the CID of
    SaveCalls,      \* the name and the body a call may save
    ReadCalls       \* the name a call may read, and for whom

Positions == 1 .. Pieces

\* A file, or a body: pieces from the front, then its end.
File == [Positions -> Bytes \cup {Hole, Past}]
Body == {f \in [Positions -> Bytes \cup {Past}] :
            \A i, j \in Positions : i < j /\ f[j] # Past => f[i] # Past}

ASSUME StorageAssumption ==
    /\ Pieces \in Nat \ {0}
    /\ Hole \notin Bytes /\ Past \notin Bytes \cup {Hole} /\ Absent \notin File
    /\ IsFiniteSet(Saves) /\ Saves \cap Readers = {} /\ NoSave \notin Saves
    /\ Content \in [Cids -> Body]
    /\ SaveCalls \subseteq [name : Cids, body : Body]
    /\ ReadCalls \subseteq [name : Cids, for : {"upload", "client"}]

VARIABLES
    backend,        \* "local" or "s3"
    object,         \* object[c]: the file or bucket object named c
    pc,             \* pc[k]: where the call k is
    call,           \* call[k]: the arguments of k
    pos,            \* pos[k]: the position of k in its body or its file
    copy,           \* copy[r]: what the reader r has read
    length,         \* length[r]: the positions the file had when r opened it
    last,           \* history: the last call to truncate or replace object c
    steady,         \* history: r opened a settled object that none truncated since
    lapped          \* history: CIDs that two calls were saving at once

store    == <<backend, object>>
progress == <<pos, copy, length>>
history  == <<last, steady, lapped>>
vars     == <<store, pc, call, progress, history>>

Nothing == [i \in Positions |-> Past]
Name(k) == call[k].name
Goto(k, step) == pc' = [pc EXCEPT ![k] = step]
Busy == {"copy", "read"}

\* All that is saved under c is what c says.  A part that the manifest does
\* not name is saved without ever being compared with its name
\* (processUploadedFiles), and so is what the replication command fetches.
Faithful(c) == \A s \in Saves : Name(s) = c => call[s].body = Content[c]

Settled(c) == last[c] # NoSave /\ pc[last[c]] = "ok"

-------------------------------------------------------------------------------

\* NewStorage, on an empty directory or bucket.
Init ==
    /\ backend \in {"local", "s3"}
    /\ object = [c \in Cids |-> Absent]
    /\ pc = [k \in Saves \cup Readers |-> "idle"]
    /\ call \in {f \in [Saves \cup Readers -> SaveCalls \cup ReadCalls] :
                    /\ \A s \in Saves : f[s] \in SaveCalls
                    /\ \A r \in Readers : f[r] \in ReadCalls}
    /\ pos = [k \in Saves \cup Readers |-> 1]
    /\ copy = [r \in Readers |-> Nothing]
    /\ length = [r \in Readers |-> {}]
    /\ last = [c \in Cids |-> NoSave]
    /\ steady = [r \in Readers |-> FALSE]
    /\ lapped = {}

\* Mutant: the call returns as soon as the file is there.
CreateReturns(s) ==
    /\ backend = "local" /\ pc[s] = "idle"
    /\ object' = [object EXCEPT ![Name(s)] = Nothing]
    /\ last' = [last EXCEPT ![Name(s)] = s]
    /\ steady' = [r \in Readers |-> steady[r] /\ Name(r) # Name(s)]
    /\ Goto(s, "ok")
    /\ UNCHANGED <<backend, call, progress, lapped>>

\* os.Create: the file is there, and empty.
Create(s) ==
    /\ backend = "local" /\ pc[s] = "idle"
    /\ object' = [object EXCEPT ![Name(s)] = Nothing]
    /\ last' = [last EXCEPT ![Name(s)] = s]
    /\ steady' = [r \in Readers |-> steady[r] /\ Name(r) # Name(s)]
    /\ lapped' = lapped \cup {c \in {Name(s)} :
                    \E t \in Saves \ {s} : Name(t) = c /\ pc[t] = "copy"}
    /\ Goto(s, "copy")
    /\ UNCHANGED <<backend, call, progress>>

WriteAt(f, k, b) ==
    [i \in Positions |-> IF i = k THEN b
                         ELSE IF i < k /\ f[i] = Past THEN Hole ELSE f[i]]

Copied(s) == pos[s] \in Positions => call[s].body[pos[s]] = Past

\* One write of io.Copy, at the offset of the call.
Write(s) ==
    /\ pc[s] = "copy" /\ ~ Copied(s)
    /\ object' = [object EXCEPT
                    ![Name(s)] = WriteAt(@, pos[s], call[s].body[pos[s]])]
    /\ pos' = [pos EXCEPT ![s] = @ + 1]
    /\ UNCHANGED <<backend, pc, call, copy, length, history>>

\* Mutant: one write more than the body has.
ReturnPastEnd(s) ==
    /\ pc[s] = "copy" /\ Copied(s)
    /\ pos' = [pos EXCEPT ![s] = @ + 1]
    /\ Goto(s, "ok")
    /\ UNCHANGED <<store, call, copy, length, history>>

\* The body is through, and SaveFile returns.
Return(s) ==
    /\ pc[s] = "copy" /\ Copied(s)
    /\ Goto(s, "ok")
    /\ UNCHANGED <<store, call, progress, history>>

\* Upload to the bucket, which replaces the object at once.
Upload(s) ==
    /\ backend = "s3" /\ pc[s] = "idle"
    /\ object' = [object EXCEPT ![Name(s)] = call[s].body]
    /\ last' = [last EXCEPT ![Name(s)] = s]
    /\ Goto(s, "ok")
    /\ UNCHANGED <<backend, call, progress, steady, lapped>>

\* A call fails and leaves what it has written; an upload to the bucket may
\* have been applied.
SaveError(s) ==
    /\ pc[s] \in {"idle", "copy"}
    /\ Goto(s, "error")
    /\ \/ UNCHANGED <<object, last>>
       \/ /\ backend = "s3"
          /\ object' = [object EXCEPT ![Name(s)] = call[s].body]
          /\ last' = [last EXCEPT ![Name(s)] = s]
    /\ UNCHANGED <<backend, call, progress, steady, lapped>>

(***************************************************************************)
(* Readers.  DownloadFile copies until the end of the file; GetContents    *)
(* announces the length the file has when it is opened and copies that     *)
(* much.  (Both look for the file first; a file never goes away.)          *)
(***************************************************************************)
NotFound(r) ==
    /\ pc[r] = "idle" /\ object[Name(r)] = Absent
    /\ Goto(r, "notfound")
    /\ UNCHANGED <<store, call, progress, history>>

Open(r) ==
    /\ backend = "local"
    /\ pc[r] = "idle" /\ object[Name(r)] # Absent
    /\ length' = [length EXCEPT
                    ![r] = {i \in Positions : object[Name(r)][i] # Past}]
    /\ steady' = [steady EXCEPT ![r] = Settled(Name(r))]
    /\ Goto(r, "read")
    /\ UNCHANGED <<store, call, pos, copy, last, lapped>>

AtEnd(r) ==
    pos[r] \in Positions =>
        \/ object[Name(r)][pos[r]] = Past
        \/ call[r].for = "client" /\ pos[r] \notin length[r]

Read(r) ==
    /\ pc[r] = "read" /\ ~ AtEnd(r)
    /\ copy' = [copy EXCEPT ![r][pos[r]] = object[Name(r)][pos[r]]]
    /\ pos' = [pos EXCEPT ![r] = @ + 1]
    /\ UNCHANGED <<store, pc, call, length, history>>

\* Mutant: the answer to the client announces no length.
VerdictUnsized(r, f) ==
    IF call[r].for = "upload"
    THEN IF f = Content[Name(r)] THEN "accepted" ELSE "rejected"
    ELSE "served"

\* validateCID for an upload; a client finds the connection closed if the
\* answer is shorter than announced.
Verdict(r, f) ==
    IF call[r].for = "upload"
    THEN IF f = Content[Name(r)] THEN "accepted" ELSE "rejected"
    ELSE IF pos[r] \in length[r] THEN "short" ELSE "served"

Finish(r) ==
    /\ pc[r] = "read" /\ AtEnd(r)
    /\ Goto(r, Verdict(r, copy[r]))
    /\ UNCHANGED <<store, call, progress, history>>

\* The bucket answers with one version of the object.
Download(r) ==
    /\ backend = "s3"
    /\ pc[r] = "idle" /\ object[Name(r)] # Absent
    /\ copy' = [copy EXCEPT ![r] = object[Name(r)]]
    /\ steady' = [steady EXCEPT ![r] = Settled(Name(r))]
    /\ Goto(r, Verdict(r, object[Name(r)]))
    /\ UNCHANGED <<store, call, pos, length, last, lapped>>

\* Any other storage error.
ReadError(r) ==
    /\ pc[r] \in {"idle", "read"}
    /\ Goto(r, "error")
    /\ UNCHANGED <<store, call, progress, history>>

Ended(k) == IF pc[k] \in Busy THEN "lost" ELSE pc[k]

\* Mutant: a restart begins with an empty directory.
CrashLoses ==
    /\ \E k \in DOMAIN pc : pc[k] \in Busy
    /\ pc' = [k \in DOMAIN pc |-> Ended(k)]
    /\ object' = [c \in Cids |-> Absent]
    /\ UNCHANGED <<backend, call, progress, history>>

\* The server dies; its successor finds the files as they are
\* (CreateLocalDir keeps a directory that exists).
Crash ==
    /\ \E k \in DOMAIN pc : pc[k] \in Busy
    /\ pc' = [k \in DOMAIN pc |-> Ended(k)]
    /\ UNCHANGED <<store, call, progress, history>>

SaveStep(s) ==
    Create(s) \/ Write(s) \/ Return(s) \/ Upload(s) \/ SaveError(s)
ReadStep(r) ==
    NotFound(r) \/ Open(r) \/ Read(r) \/ Finish(r) \/ Download(r) \/ ReadError(r)

Next ==
    \/ \E s \in Saves : SaveStep(s)
    \/ \E r \in Readers : ReadStep(r)
    \/ Crash

Spec == Init /\ [][Next]_vars

-------------------------------------------------------------------------------

TypeOK ==
    /\ backend \in {"local", "s3"}
    /\ object \in [Cids -> File \cup {Absent}]
    /\ pc \in [Saves \cup Readers ->
                 {"idle", "copy", "read", "ok", "error", "lost", "notfound",
                  "accepted", "rejected", "served", "short"}]
    /\ call \in [Saves \cup Readers -> SaveCalls \cup ReadCalls]
    /\ \A s \in Saves : call[s] \in SaveCalls
    /\ \A r \in Readers : call[r] \in ReadCalls
    /\ pos \in [Saves \cup Readers -> 1 .. Pieces + 1]
    /\ copy \in [Readers -> File]
    /\ length \in [Readers -> SUBSET Positions]
    /\ last \in [Cids -> Saves \cup {NoSave}]
    /\ steady \in [Readers -> BOOLEAN]
    /\ lapped \subseteq Cids

(***************************************************************************)
(* What an acknowledged SaveFile promises: once the last call to truncate  *)
(* an object has returned without an error, the object is whole, whatever  *)
(* other calls are still writing into it and wherever earlier ones failed. *)
(***************************************************************************)
SettledWhole ==
    \A c \in Cids : Faithful(c) /\ Settled(c) => object[c] = Content[c]

(***************************************************************************)
(* An upload that relies on a stored file, and a client that fetches it,   *)
(* get the file if it was settled and is not saved again meanwhile; calls  *)
(* that truncated it earlier may still be writing.                         *)
(***************************************************************************)
SteadyRead ==
    \A r \in Readers :
        steady[r] /\ Faithful(Name(r)) => pc[r] \notin {"rejected", "short"} /\
            (pc[r] = "served" => copy[r] = Content[Name(r)])

(***************************************************************************)
(* A client that began to fetch a settled file notices if it is truncated  *)
(* under its hands, as long as no two calls save the file at once: the     *)
(* answer of GetContents is the whole file, or shorter than announced.     *)
(***************************************************************************)
OpenedWhole(r) ==
    length[r] = {i \in Positions : Content[Name(r)][i] # Past}

ServedExact ==
    backend = "local" =>
    \A r \in Readers :
        Faithful(Name(r)) /\ Name(r) \notin lapped
            /\ OpenedWhole(r) /\ pc[r] = "served"
        => copy[r] = Content[Name(r)]

Begun(c) == {s \in Saves : Name(s) = c /\ pc[s] # "idle"}

Objects == INSTANCE ObjectStore WITH
    objects <- {c \in Cids : Faithful(c) /\ object[c] = Content[c]},
    rewritten <- {c \in Cids : Cardinality(Begun(c)) > 1}

(***************************************************************************)
(* Either storage is a set of objects that grows, except for objects that  *)
(* are saved more than once (which uploads do: processUploadedFiles saves  *)
(* the parts of a request whether or not they are stored).                 *)
(***************************************************************************)
ImplementsObjectStore == Objects!OSSpec
===============================================================================
