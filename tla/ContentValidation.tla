--------------------------- MODULE ContentValidation ---------------------------
(***************************************************************************)
(* validateRequestSize and validateContentCID of concurrent uploads.  To   *)
(* check a root CID the files of the request are assembled in the          *)
(* directory Workdir/<root CID>, each one is hashed, the directory is      *)
(* hashed, and the directory is removed on the way out.  The directory is  *)
(* named after the root the request claims: requests that claim the same   *)
(* root share it.                                                          *)
(*                                                                         *)
(* A CID is the content it is the hash of, and a root CID the directory it *)
(* is the hash of: equal hashes mean equal files.                          *)
(***************************************************************************)
EXTENDS Integers, FiniteSets, SequencesExt, FiniteSetsExt

CONSTANTS
    Uploads,            \* upload requests being processed
    Contents,           \* contents of files, and their CIDs
    Malformed,          \* strings that are not CIDs
    Names,              \* manifest paths
    Dirs,               \* the paths that end in "/"
    NoFile, Partial,    \* no file at a path; a file being written
    Stored,             \* the contents the storage has
    Size,               \* size of a content
    ParcelSizeLimit,    \* bytes allowed per parcel
    Requests            \* the requests that passed the access checks

Directory == [Names -> Contents \cup {NoFile}]
Empty == [n \in Names |-> NoFile]

\* parts maps the CID a part is named after to what the part holds.
UploadRequest ==
    [root : Directory \cup Malformed, parcels : Nat,
     manifest : Seq([name : Names, cid : Contents \cup Malformed]),
     parts : UNION {[S -> Contents] : S \in SUBSET (Contents \cup Malformed)}]

ASSUME ValidationAssumption ==
    /\ Requests \subseteq UploadRequest
    /\ NoFile \notin Contents /\ Partial \notin Contents \cup {NoFile}
    /\ Malformed \cap Contents = {} /\ Malformed \cap Directory = {}
    /\ Stored \subseteq Contents /\ Dirs \subseteq Names
    /\ Size \in [Contents -> Nat] /\ ParcelSizeLimit \in Nat

Roots == {q.root : q \in Requests} \ Malformed

VARIABLES
    tmp,            \* tmp[r][n]: the file at path n of Workdir/r
    pc,             \* pc[u]: what u does next
    req,            \* req[u]: the request of u
    pos,            \* pos[u]: number of the manifest entry u is at
    open,           \* open[u]: the file u is writing is still linked at its path
    verdict,        \* verdict[u]: the outcome u will report after the clean-up
    undisturbed,    \* history: u found its directory empty, had it to itself,
                    \* and could open its files
    littered,       \* history: a directory was ever left behind
    debris          \* history: roots whose directory a crash or an I/O error left behind

history == <<undisturbed, littered, debris>>
vars == <<tmp, pc, req, pos, open, verdict, history>>

Working  == {"create", "copy", "check", "hash", "clean"}
Finished == {"accepted", "rejected", "error", "lost"}

\* The manifest entries that are files, by their position.
Files(q) == {i \in DOMAIN q.manifest : q.manifest[i].name \notin Dirs}
File(u) == req[u].manifest[pos[u]]
IsLast(u) == pos[u] = Len(req[u].manifest)

\* What a manifest entry stands for: a part of the request, or a stored file.
Found(q, e) == e.cid \in DOMAIN q.parts \cup Stored
Source(q, e) == IF e.cid \in DOMAIN q.parts THEN q.parts[e.cid] ELSE e.cid

\* estimateRequestSize: the sum over the files of the manifest.
RequestSize(q) ==
    MapThenSumSet(LAMBDA i : Size[Source(q, q.manifest[i])], Files(q))

Fits(q) ==
    /\ \A i \in Files(q) : Found(q, q.manifest[i])
    /\ RequestSize(q) <= q.parcels * ParcelSizeLimit

\* The directory the request describes: the last entry for a path counts.
Described(q) ==
    LET At(n) == {i \in Files(q) : q.manifest[i].name = n}
    IN  [n \in Names |-> IF At(n) = {} THEN NoFile ELSE q.manifest[Max(At(n))].cid]

(***************************************************************************)
(* A request that should pass: its size is allowed, each file is what its  *)
(* CID says, and the files make up the root it claims.                     *)
(***************************************************************************)
Genuine(q, e) == e.cid \in Contents /\ Source(q, e) = e.cid

Honest(q) ==
    /\ Fits(q)
    /\ \A i \in Files(q) : Genuine(q, q.manifest[i])
    /\ Described(q) = q.root /\ q.root # Empty

-------------------------------------------------------------------------------

Init ==
    /\ tmp = [r \in Roots |-> Empty]
    /\ pc = [u \in Uploads |-> "idle"]
    /\ req \in [Uploads -> Requests]
    /\ pos = [u \in Uploads |-> 1]
    /\ open = [u \in Uploads |-> FALSE]
    /\ verdict = [u \in Uploads |-> "rejected"]
    /\ undisturbed = [u \in Uploads |-> FALSE]
    /\ littered = FALSE
    /\ debris = {}

Goto(u, step) == pc' = [pc EXCEPT ![u] = step]

\* Leave validateContentCID: the deferred clean-up comes first.
Leave(u, outcome) ==
    /\ verdict' = [verdict EXCEPT ![u] = outcome]
    /\ Goto(u, "clean")

SameRoot(u) == {w \in Uploads \ {u} : req[w].root = req[u].root}

Begin(u) ==
    /\ pc[u] = "idle"
    /\ Fits(req[u]) /\ req[u].root \notin Malformed
    /\ Goto(u, IF req[u].manifest = <<>> THEN "hash" ELSE "create")
    /\ undisturbed' = [w \in Uploads |->
          IF w = u THEN /\ tmp[req[u].root] = Empty
                        /\ \A v \in SameRoot(u) : pc[v] \notin Working
                   ELSE undisturbed[w] /\ w \notin SameRoot(u)]
    /\ UNCHANGED <<tmp, req, pos, open, verdict, littered, debris>>

RejectSize(u) ==
    /\ pc[u] = "idle"
    /\ ~ Fits(req[u])
    /\ Goto(u, "rejected")
    /\ UNCHANGED <<tmp, req, pos, open, verdict, history>>

\* The root CID is malformed; there is nothing to clean up yet.
RejectRoot(u) ==
    /\ pc[u] = "idle"
    /\ Fits(req[u]) /\ req[u].root \in Malformed
    /\ Goto(u, "rejected")
    /\ UNCHANGED <<tmp, req, pos, open, verdict, history>>

\* The storage fails to tell the size of a file it is asked for.
SizeError(u) ==
    /\ pc[u] = "idle"
    /\ \E i \in Files(req[u]) : req[u].manifest[i].cid \notin DOMAIN req[u].parts
    /\ Goto(u, "error")
    /\ UNCHANGED <<tmp, req, pos, open, verdict, history>>

\* Move to the next manifest entry, or to the directory as a whole.
NextEntry(u) ==
    /\ pos' = [pos EXCEPT ![u] = IF IsLast(u) THEN 1 ELSE @ + 1]
    /\ Goto(u, IF IsLast(u) THEN "hash" ELSE "create")

SkipDirectory(u) ==
    /\ pc[u] = "create"
    /\ File(u).name \in Dirs
    /\ NextEntry(u)
    /\ UNCHANGED <<tmp, req, open, verdict, history>>

\* os.Create of the next file, truncating what is at its path.
CreateFile(u) ==
    /\ pc[u] = "create"
    /\ File(u).name \notin Dirs
    /\ File(u).cid \in Contents
    /\ tmp' = [tmp EXCEPT ![req[u].root][File(u).name] = Partial]
    /\ open' = [open EXCEPT ![u] = TRUE]
    /\ Goto(u, "copy")
    /\ UNCHANGED <<req, pos, verdict, history>>

RejectFormat(u) ==
    /\ pc[u] = "create"
    /\ File(u).name \notin Dirs
    /\ File(u).cid \in Malformed
    /\ Leave(u, "rejected")
    /\ UNCHANGED <<tmp, req, pos, open, history>>

\* A stored file that cannot be opened, for whatever reason, counts as missing:
\* local storage, which opens it before it creates the copy.
RetrieveError(u) ==
    /\ pc[u] = "create"
    /\ File(u).name \notin Dirs
    /\ File(u).cid \in Contents \ DOMAIN req[u].parts
    /\ Leave(u, "rejected")
    /\ undisturbed' = [undisturbed EXCEPT ![u] = FALSE]
    /\ UNCHANGED <<tmp, req, pos, open, littered, debris>>

\* io.Copy into the file, which another request's clean-up may have unlinked.
CopyFile(u) ==
    /\ pc[u] = "copy"
    /\ tmp' = IF open[u]
              THEN [tmp EXCEPT ![req[u].root][File(u).name] = Source(req[u], File(u))]
              ELSE tmp
    /\ open' = [open EXCEPT ![u] = FALSE]
    /\ Goto(u, "check")
    /\ UNCHANGED <<req, pos, verdict, history>>

\* Mutant: a part of the request is not checked against its CID.
CheckStoredFile(u) ==
    /\ pc[u] = "check"
    /\ NextEntry(u)
    /\ UNCHANGED <<tmp, req, open, verdict, history>>

\* Mutant: one file too many.
CheckFilePastEnd(u) ==
    /\ pc[u] = "check"
    /\ pos' = [pos EXCEPT ![u] = @ + 1]
    /\ Goto(u, IF pos[u] > Len(req[u].manifest) THEN "hash" ELSE "create")
    /\ UNCHANGED <<tmp, req, open, verdict, history>>

\* validateCID: the file at the path, whoever wrote it, against the manifest.
CheckFile(u) ==
    /\ pc[u] = "check"
    /\ \/ /\ tmp[req[u].root][File(u).name] = File(u).cid
          /\ NextEntry(u)
          /\ UNCHANGED verdict
       \/ /\ tmp[req[u].root][File(u).name] # File(u).cid
          /\ Leave(u, "rejected")
          /\ UNCHANGED pos
    /\ UNCHANGED <<tmp, req, open, history>>

\* An assembled file that cannot be opened, for whatever reason, is an invalid argument.
OpenError(u) ==
    /\ pc[u] = "check"
    /\ Leave(u, "rejected")
    /\ undisturbed' = [undisturbed EXCEPT ![u] = FALSE]
    /\ UNCHANGED <<tmp, req, pos, open, littered, debris>>

\* Mutant: the clean-up is not deferred, it runs when the root matches.
HashRootNoDefer(u) ==
    /\ pc[u] = "hash"
    /\ \/ tmp[req[u].root] = req[u].root /\ Leave(u, "accepted")
       \/ tmp[req[u].root] # req[u].root /\ Goto(u, "rejected") /\ UNCHANGED verdict
    /\ UNCHANGED <<tmp, req, pos, open, history>>

\* calculateRootCid and the comparison with the claimed root.  There is no
\* directory to hash if nothing was written or a clean-up has removed it.
HashRoot(u) ==
    /\ pc[u] = "hash"
    /\ Leave(u, IF tmp[req[u].root] = Empty THEN "error"
                ELSE IF tmp[req[u].root] = req[u].root THEN "accepted"
                ELSE "rejected")
    /\ UNCHANGED <<tmp, req, pos, open, history>>

\* cleanUpTmpFile: the directory goes, with the files others are writing.
CleanUp(u) ==
    /\ pc[u] = "clean"
    /\ tmp' = [tmp EXCEPT ![req[u].root] = Empty]
    /\ open' = [w \in Uploads |-> open[w] /\ w \notin SameRoot(u) \cup {u}]
    /\ debris' = debris \ {req[u].root}
    /\ Goto(u, verdict[u])
    /\ UNCHANGED <<req, pos, verdict, undisturbed, littered>>

\* Removing the directory fails half-way: that is logged, the rest stays.
CleanUpError(u) ==
    /\ pc[u] = "clean"
    /\ \E kept \in SUBSET Names :
          /\ tmp' = [tmp EXCEPT ![req[u].root] =
                       [n \in Names |-> IF n \in kept THEN @[n] ELSE NoFile]]
          /\ open' = [w \in Uploads |-> open[w] /\ w # u
                         /\ (w \in SameRoot(u) => File(w).name \in kept)]
    /\ debris' = debris \cup {req[u].root}
    /\ Goto(u, verdict[u])
    /\ littered' = TRUE
    /\ UNCHANGED <<req, pos, verdict, undisturbed>>

\* A file cannot be created, copied or hashed, or a part cannot be opened.
Fail(u) ==
    /\ pc[u] \in Working \ {"clean"}
    /\ Leave(u, "error")
    /\ UNCHANGED <<tmp, req, pos, open, history>>

\* The server dies: the requests are lost, the directories stay.
Crash ==
    /\ \E u \in Uploads : pc[u] \in Working
    /\ debris' = debris \cup {req[u].root : u \in {w \in Uploads : pc[w] \in Working}}
    /\ pc' = [u \in Uploads |-> IF pc[u] \in Working THEN "lost" ELSE pc[u]]
    /\ open' = [u \in Uploads |-> FALSE]
    /\ littered' = TRUE
    /\ UNCHANGED <<tmp, req, pos, verdict, undisturbed>>

Validate(u) ==
    \/ SkipDirectory(u) \/ CreateFile(u) \/ RejectFormat(u) \/ RetrieveError(u)
    \/ CopyFile(u) \/ CheckFile(u) \/ OpenError(u) \/ HashRoot(u) \/ CleanUp(u) \/ CleanUpError(u)

Next ==
    \/ \E u \in Uploads : \/ Begin(u) \/ RejectSize(u) \/ RejectRoot(u) \/ SizeError(u)
                         \/ Validate(u) \/ Fail(u)
    \/ Crash

Spec == Init /\ [][Next]_vars

-------------------------------------------------------------------------------

TypeOK ==
    /\ tmp \in [Roots -> [Names -> Contents \cup {NoFile, Partial}]]
    /\ pc \in [Uploads -> {"idle"} \cup Working \cup Finished]
    /\ req \in [Uploads -> Requests]
    /\ pos \in [Uploads -> Nat]
    /\ \A u \in Uploads : pc[u] \in {"create", "copy", "check"} =>
           pos[u] \in 1 .. Len(req[u].manifest)
    /\ \A u \in Uploads : pc[u] \in Working => req[u].root \in Roots
    /\ open \in [Uploads -> BOOLEAN]
    /\ verdict \in [Uploads -> {"accepted", "rejected", "error"}]
    /\ undisturbed \in [Uploads -> BOOLEAN]
    /\ littered \in BOOLEAN
    /\ debris \subseteq Roots

(***************************************************************************)
(* What validateContentCID is for (comments at upload_service.go:145 and   *)
(* 260): a request that is accepted describes the root it claims.          *)
(***************************************************************************)
Sound(u) == pc[u] = "accepted" => Described(req[u]) = req[u].root

(***************************************************************************)
(* The check is exact for a request that starts with an empty directory,   *)
(* shares it with no other and can open its files, in the storage and in   *)
(* the directory: what is accepted describes the claimed root and consists *)
(* of files that are what their CIDs say, and nothing that should pass is  *)
(* rejected.                                                               *)
(***************************************************************************)
ExactAlone ==
    \A u \in Uploads : undisturbed[u] =>
        /\ pc[u] = "accepted" => Honest(req[u])
        /\ pc[u] = "rejected" => ~ Honest(req[u])

(***************************************************************************)
(* The directory of a root is gone once nobody works on the root, however  *)
(* the requests ended and interleaved, unless a crash or a failed removal  *)
(* left it behind; the next request that ends removes that as well.        *)
(***************************************************************************)
WorkdirClean ==
    \A r \in Roots : tmp[r] # Empty =>
        r \in debris \/ \E u \in Uploads : pc[u] \in Working /\ req[u].root = r

(***************************************************************************)
(* upload_service.go:145 when requests may share a directory, and none is  *)
(* left behind.                                                            *)
(***************************************************************************)
SoundDespiteSharing ==
    ~ littered => \A u \in Uploads : Sound(u)

===============================================================================
