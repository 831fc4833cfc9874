# A TLA+ model of the Decentraland content service

The content service stores the files of scenes and tells clients which scene
belongs to which parcel of land.  Clients upload scenes with `POST /mappings`
and read them with `GET /scenes`, `/parcel_info`, `/mappings`, `/validate` and
`/contents`.  All state is in Redis and in a content storage (a local directory
or S3); the servers keep nothing in memory and take no locks.  What can go wrong
is therefore in the order of the Redis commands and storage calls of concurrent
requests, and in what is left when one of them stops half-way.  That is what
these modules describe.

Paths below are relative to the repository.

## Inventory

| Component | State it keeps | Operations | What makes it correct |
|---|---|---|---|
| Upload handler (`internal/handlers/upload_handler.go`) | none | parse and validate the multipart request, map errors to statuses | a request that reaches the service has a manifest, metadata, a scene and no more parts than manifest entries; a faultless one is not refused |
| Upload service, validation (`upload_service.go:70-88`, `146-268`, `361-435`) | files under `Workdir/<root CID>` while a request is validated | size check, consolidation of parts and stored files, CID of each file, CID of the directory, removal | a request is accepted exactly if it describes the root it claims; directories do not accumulate |
| Upload service, publication (`upload_service.go:90-116`, `284-359`) | none of its own | save parts, record content, update the index, flag parcels, store metadata, tie root and scene CID | what is published is complete; publication order; an acknowledged upload is visible |
| Scene index (`data/redis.go`) | `<parcel>` -> root, `<root>` -> list of parcels, `processedSet`, `content_<root>`, `metadata_<root>`, `root-scene:<cid>`, `uploaded-content` | one or several Redis commands each | a parcel belongs to one scene |
| Scenes (`mappings_handler.go:152-217`) | none | `GET /scenes` | lists acknowledged scenes in full, and only scenes that can be fetched |
| Parcels (`mappings_handler.go:102-142`, `223-304`, `validate_handler.go`) | none | `GET /mappings`, `/parcel_info`, `/validate` | one answer shows one scene, with metadata |
| Areas (`utils/misc.go`, `mappings_handler.go:86-100`) | none | rectangle to parcels | exactly the rectangle, or a refusal |
| Content status (`contents_handler.go:59-103`) | adds to `uploaded-content` | `POST /content/status` | what is reported as uploaded can be left out of an upload |
| Storage (`storage/local.go`, `storage/s3.go`, `contents_handler.go:36-53`) | objects named by CID | save, download, size, link; `GET /contents` | an acknowledged object is what its name says, and is read whole |
| Authorization (`data/authorization.go`, `data/decentraland.go`, `utils/rpc`) | none | signature check, access query per parcel | an upload is admitted with access to all its parcels, and refused for access only without |
| Replication command (`cmd/replication`) | writes the same Redis keys and storage | copies an area from another server | an object and metadata for what it records; gaps of the index close when it is repeated |
| Metrics, configuration, routes, validation library set-up, `main.go` | none that is read back | - | - |

How they interact: the upload handler calls the upload service, which calls
authorization, storage, the IPFS node (to compute CIDs) and Redis, in that
order.  Readers share nothing with uploads but Redis and storage.  Every request
runs in a goroutine of its own, and several servers may share one Redis
(`docker-compose.yml`, the S3 storage), so any step of one request may come
between two steps of another.

Hard behaviours: concurrent uploads for common parcels or for one root; an
upload that stops after any of its writes (an error, or the death of the
server) and is repeated later; readers that follow two or three keys; the shared
working directory; arithmetic on coordinates from a query; random iteration
order of Go maps; files that are truncated and rewritten in place; access rights
that an external service changes between two questions; a copy made from several
answers of a server that goes on changing.

## Modules

| Module | Models | Checked by |
|---|---|---|
| `SceneMap` | abstract: roots list parcels, no parcel twice | theorem, refinement target |
| `SceneIndex` | an upload from the end of validation to its reply, one storage write or Redis command per step; `POST /content/status` | `MCSceneIndex`, 4 runs |
| `SceneIndexProofs` | theorems about the two | TLAPS |
| `ContentValidation` | size check and content check in the shared directory | `MCContentValidation`, 2 runs |
| `ContentValidationProofs` | theorems about it | TLAPS |
| `ScenesReader` | `GET /scenes`, read by read, composed with `SceneIndex` | `MCScenesReader`, 1 run |
| `ParcelReader` | `/mappings`, `/parcel_info`, `/validate`, read by read, composed with `SceneIndex` | `MCParcelReader`, 1 run |
| `ScenesReaderProofs`, `ParcelReaderProofs` | theorems about the readers, on top of `SceneIndexProofs` | TLAPS |
| `ParcelRect` | `RectToParcels` with wrapping integers, coordinate bounds and parsing | `MCParcelRect`, 1 run |
| `ParcelRectProofs` | theorems about it | TLAPS |
| `ObjectStore` | abstract: a set of objects that grows, but for rewritten ones | refinement target |
| `ContentStorage` | saves and reads of both storages, piece by piece | `MCContentStorage`, 1 run |
| `ContentStorageProofs` | theorems about the two | TLAPS |
| `UploadHandler` | request parsing, signature and access checks, statuses | `MCUploadHandler`, 1 run |
| `UploadHandlerProofs` | theorems about it | TLAPS |
| `Replication` | the replication command against a changing source | `MCReplication`, 1 run |
| `ReplicationProofs` | theorems about it | TLAPS |

### SceneIndex

State: `storage` (CIDs with an object), the seven kinds of Redis keys
(`content`, `uploaded`, `parcelRoot`, `sceneParcels`, `processed`, `metadata`,
`sceneOf` and `rootOf`, the two directions of `root-scene:`), and for every
upload `u` its request and position: `pc[u]` is the stage, `idx[u]` the position
in the loop over the parcels, `parts[u]`, `entries[u]`, `group[u]` and `old[u]`
what is left of the loops over Go maps, whose order is random.  `overlap`
(the parcels two uploads were inside `SetSceneParcels` for) and `alone` are history
variables; no guard reads them.

Actions are named after the functions: `AcceptUpload`/`RejectUpload` (the size
and content check as one step, which reads the storage), `SaveFile`,
`StoreContent` and `AddCID` (`processUploadedFiles`), `GetParcelCID`,
`DeleteOldScene`, `PushParcels`, `PushError`, `SetParcel` (`SetSceneParcels`),
`SetProcessedParcel`, `StoreMetadata`, `SaveSceneCid`, `SaveRootCid`.  `Fail`
lets an upload end before any of its writes, by an error or because the server
dies; a write that is applied and then reported as failed ends in the same state
one step later, with two exceptions that are modelled: an LPUSH error, which the
code returns only after it has set the parcel keys (`PushError`, with LPUSH
applied or not, then the SETs as `"setx"`), and the last write (`SaveRootCid`).
Uploads are not undone, as in the code.  A retry is another upload with the same
request.

Abstractions: CIDs, parcels, paths and roots are constants.  A parcel key that is
not set reads as `""` in the code; here `NoRoot`, which becomes one of the keys to
delete, without effect, as in the code.  Two requests may claim different
parcels for one root: the parcels come from the part whose file name is
`scene.json`, which need not be in the manifest.

### ContentValidation

`tmp[r]` is the directory `Workdir/<r>`.  A request goes through its manifest
entry by entry (`pos[u]`, the loop of `consolidateContent`), passes over
directories, creates, fills and checks the file of each other entry, hashes the
directory and removes it.  A request that is too large, or whose root is no CID
(`RejectRoot`), never gets to a directory.  A stored file that cannot be opened counts
as missing and makes the request invalid (`RetrieveError`, `local.go:46-48`); an
error while a file is created, copied or hashed is an error (`Fail`).  A file that
another request's clean-up unlinks while it is being written is lost (`open`).
A CID is identified with the content it is the hash of, a root with a directory.
`Crash` ends all requests and keeps the directories; `CleanUpError` keeps some
files.  The storage does not change while the module's requests are validated.

### ScenesReader and ParcelReader

They extend `SceneIndex` and follow one read request, which may start at any
moment and is interleaved with every step of the uploads.  One request is
enough: readers change nothing.  Each Redis read is a step and may fail; what a
failed read does (skipped, dropped, reported) is what the code does with it.
History variables: `misread` (a failed read was not reported), `calm` (no upload
was publishing while the request was served), `before` (the uploads that were
acknowledged, and not run into by a related upload, when the request began).
`root-scene:` is one key space in Redis and two functions in `SceneIndex`, and
`/parcel_info` looks a CID up as a root first and as a scene CID next;
`KeysAssumption` says that no parcel id, scene CID and root CID are the same string.

### ParcelRect

`Wrap` is the two's-complement wrap of an `int` whose largest value is `MaxInt`;
the loops stop at `Wrap(x2 + 1)`.  `RectAssumption` says that the largest rectangle
within the bound has a size that is an int (301 * 301 at the real bound of 150).  A list of parcels is kept as its columns and rows.

### ContentStorage and ObjectStore

`object[c]` is a file, or an object of the bucket, as a short sequence of pieces.
A local save is `Create` (truncates), any number of `Write`s and `Return`; calls
have offsets of their own, so two calls on one object write into each other's
file, and a write beyond the end leaves a `Hole`.  An S3 save replaces the object
at once (`Upload`).  A reader is `DownloadFile` with the CID check that follows it
in `consolidateContent` (`for = "upload"`) or `GET /contents` (`"client"`), which
announces the length the file had when it was opened; a client of a server with
S3 is redirected and reads from the bucket.  `SaveError`, `ReadError` and `Crash` may come
anywhere, and nothing is undone.  `last`, `steady` and `lapped` are history.

`ObjectStore` is what the other modules take a storage to be.  `SceneIndex` keeps
the CIDs that have an object, and saves them in one step.  `ImplementsObjectStore`
says when that is right: for every object that is saved once, and for the others
up to a period in which they are missing.  `SceneIndex.storage` only grows because
it counts a rewritten object as stored throughout, as `FileSize` does in the code
after a truncation; a part of a request that is stored already is saved again by
`processUploadedFiles`, so such periods exist, and what `SceneIndex` and the
readers say about stored files is about files that exist.

### UploadHandler

One request, from its arrival until the size check.  `Checks` is the sequence of
the checks of `parseRequest`; `ParseRequest` takes the first that fails.  Then
come the signature and one question to the access service per parcel.  `rights`
belongs to that service and may change at any moment, `now` is the clock that
`hasRequestExpired` compares the timestamp with.  `Status` is the switch of
`UploadContent` on the error's type; a panic is answered 500 by gin.  Fields that
are missing or malformed are one fault of the metadata, manifest or scene they
belong to; a form field has one file (`getScene` looks only at the first).  The last
check, `ValidateStruct` of the whole request (`upload_handler.go:202-207`), requires
what the others have established; it cannot fail and is left out.

### Replication

The replica's parcel keys, `metadata_` and `content_` hashes and its objects, and
for each run of the command the answer of `/mappings` it still works through, the
root it took from `/validate` and the files of the entry left to copy.  Each
request and each write is a step; `Fail` ends a run (log.Fatal) before any of them.
`Publish` is an upload at the source.  The source is reduced to what
`ParcelReader` checks of its answers in calm: one root per parcel with the
root's files.  `/mappings` takes both coordinates of a corner from its first token,
so a run with the corners `(x1, y1)` and `(x2, y2)` is answered for the square over
`x1` and `x2` (`Mapped`); and it leaves out a parcel whose read failed, with status
200 (`lost`, remembered in `left`).  A status is never looked at: an error of
`/validate` decodes into metadata with an empty root, and what `/contents?<cid>`
answers is stored as the file though no route serves it (`storage` is `"other"`
after every `SaveFile`).  So the properties of a copy are about the replica's index -
parcel keys, metadata and lists of files - and never about the files.

## What the runs show

Bounds.  The index and the validation are checked with three requests: two that
interleave, and a third that meets what they leave behind.  The readers are
checked with two uploads and one read request: it takes one upload to move a
parcel between two reads, and another to have put it there.  Scenes have one or
two of three parcels, so that two scenes share one parcel and each has one of its
own; roots are evicted, uploaded again, and uploaded for other parcels; manifests
have one to three entries, among them a directory and a file that only the
storage has.  The requests of each instance are described in the `MC` modules.
`SYMMETRY` is used among uploads in runs that check invariants and action
properties (and in `SceneIndexRefines`, whose property has no liveness part).
`CHECK_DEADLOCK` is off because every request ends and the instances have
finitely many.

| Run | Question | Answer |
|---|---|---|
| `SceneIndexSafety` | three uploads, all interleavings and failures: dangling parcels? unsound status? publication order? index unique for quiet parcels? acknowledged uploads visible? evictions justified? is the content invariant of the proofs invariant? | holds |
| `SceneIndexRefines` | do quiet executions implement `SceneMap`? | holds |
| `SceneIndexLive` | is every accepted upload answered, does metadata follow? | holds |
| `SceneIndexOverlap` | is it unique after two uploads overlapped? | no (finding) |
| `ValidationSafety` | is validation exact for a request alone in its directory, are directories removed, whatever crashes or fails? | holds |
| `ValidationShared` | is it sound with a shared directory? | no (finding) |
| `ScenesReader` | can everything `/scenes` lists be fetched, whatever uploads do; are acknowledged scenes listed whole; no quiet parcel twice in calm? | holds |
| `ParcelReader` | files stored and the whole manifest of an upload for the parcel, one scene in calm, acknowledged scenes answered, metadata missing only on the way or after a failure? | holds |
| `ParcelRect` | is the area of `/scenes` exact; is that of `/mappings`, where it parses the corners and nothing wraps? | holds |
| `ContentStorage` | are acknowledged objects whole, are they read whole or is the reader told, do both storages implement `ObjectStore`? | holds |
| `UploadHandler` | is a request admitted, refused and answered for the right reasons while rights, clock and services change? | holds |
| `Replication` | what does a replica's index record, what gaps can it have, for which parcels does repeating the command mend them? | holds |

The findings name what the code or its documentation says and what the run
shows; they are in `PROJECT.json`.  Some conditions occur in several properties.
Each stands for something the code does not guarantee:

* *Quiet* (the set `Quiet`): a parcel that no two uploads have been inside
  `SetSceneParcels` for at once, and that no upload has stopped for between its
  LPUSH and its last SET.  Failures everywhere else are allowed, and so is anything
  that happens to other parcels, those of the same scene included.
  `SceneIndexOverlap` shows that the first half cannot be dropped; the second is
  listed below.  `SceneIndexRefines` speaks of all parcels at once and restricts
  the executions to those in which all are quiet (`QuietSpec`).
* *Undisturbed* (`Undisturbed(u)`): no upload that shares a parcel, the root or
  the scene CID with `u` was publishing when `u` came to the index, and none has
  come since (earlier ones may have failed anywhere); and the root of `u` is
  uploaded for one set of parcels only.  The second half is needed: a parcel key
  outlives the list that had the parcel, and after the root has been uploaded for
  other parcels, an upload for the old parcel deletes the new list.
  `EvictionJustified` makes the same exception.
* *Misread*: a read failed and the request went on as if nothing had been there.
  `GetScenes` tests for the empty answer before the error (`mappings_handler.go:171`)
  and `GetParcelContent` drops the error (`redis.go:99`); such an answer has status
  200 and may lack an acknowledged scene.
* *undisturbed* of `ContentValidation`: the request found its directory empty, had
  it to itself, and could open its files (the server answers that the request is
  invalid when it fails to open a stored file or an assembled one).  `ValidationShared`
  shows the exception for a shared directory; what a crash leaves in the directory
  takes part in the next check likewise.
* *SameFiles*, *SameScene* (`ParcelReader`): all uploads of the root have the same
  manifest, or the same scene CID.  A root CID is the hash of the files, but the
  manifest may list directories besides, a path twice, or several paths with
  `scene.json` in another order; such an upload records or ties its own values
  under the root, over those of the earlier one.
* *Faithful* (`ContentStorage`): an object is only saved with the content its name
  is the CID of.  Parts that the manifest does not name are stored unchecked
  (`upload_service.go:286`), and the replication stores what it is sent.
* *lapped* (`ContentStorage`): two calls have saved the object at once; a client
  that opened it in between may be served holes.  *steady* is the stronger
  condition that nothing truncated the object since it was opened whole.
* *moved*, *outage* (`Replication`): the source has published while a run was under
  way, or has answered `/validate` without a root.  Either makes a run combine a
  root with files of another or of none; both answers look alike to it.
* *calm* (`Replication`): the run had the source and the replica to itself.
* *left* (`Replication`): the parcels the answer of `/mappings` to a run went without
  because a read failed; the run does not notice, so they are not copied.
* *calm* (the readers): no upload was publishing while the request was served.  The
  answer of `/parcel_info` and `/mappings` may otherwise have the root of one upload
  with the files of another.  `FilesServable` holds nevertheless: the files are those
  of an upload that claimed the parcel, and so is the root, only not of the same one.

Divergences met while modelling that no run carries:

* An upload that stops between its LPUSH and its last SET leaves a list no parcel
  key leads to; the next upload for the parcel does not find it and the parcel is
  in two scenes, against the comment at `redis.go:188`.  (`QuietIndex` fails
  this way if `Quiet` does not exclude the parcels of torn uploads.)
* `GetParcelInformation` follows the parcel key twice and may combine the files of
  one scene with the metadata of another, against "consolidated information",
  `mappings_handler.go:220`.  (`CalmAnswer` without `calm` fails.)
* `/mappings` parses both coordinates of a corner from the first token
  (`mappings_handler.go:95`), against `docs/APIDOC.md:124`; the size of an area can
  wrap around and pass the limit, and an area that ends at the largest int comes out
  empty (`misc.go:16`, `22`).  (`MappingsArea` without `Diagonal` or `Fits` fails.)
  The replication asks through it and copies another area than its corners say, unless
  they are on the diagonal (`CopyCurrent` with the area asked for in place of
  `Mapped` fails).
* A failed read of a parcel's files is dropped (`redis.go:99`); `/mappings` answers 200
  without the parcel, and the replication ends without an error though it has not
  copied it (`CopyCurrent` without `left` fails).
* A manifest with two entries for one path is accepted for the last one and recorded
  in random order (`upload_service.go:316`).
* `/validate` answers 200 with an empty object for a root without metadata
  (`validate_handler.go:52`, visible in `MetadataMissing`).
* The replication requests `contents?<cid>` (`replication.go:93`), which no route
  serves (`routes.go:58`), and does not look at the status: what it stores as a data
  file is an error page, against "It stores the data files", README.md:89
  (`storage` is `"other"` in `Replication` after every copy).  Nor does it write
  the lists, the processed set and the scene CIDs that `/scenes` and `/parcel_info`
  need.
* A part of the form that is missing is answered 500 (`RequiredValueError` has no case
  in `upload_handler.go:117`), a failure of the access service 400
  (`upload_service.go:276`); both are in `Status`.
* `Metadata.Value` is stored under the key `"value "` (`upload_handler.go:55`), which
  is how `/validate` answers it.

Fairness.  `SceneIndexLive` assumes weak fairness of `Progress(u)` for every
upload: a goroutine runs until its handler returns, and each call it makes
returns, if only with an error.  No fairness is assumed on accepting a request,
on `Fail`, on `POST /content/status` or among different uploads.

The storage has objects of one and two pieces (a file that is short, and one that
can be caught half-written), three saves (two that collide and one that settles or
breaks what they leave) and one reader, which changes nothing.  Requests of
`UploadHandler` have every fault alone and in pairs; scenes have up to two parcels,
so that rights can change between two questions.  Two runs of the replication
suffice for one that repeats or overlaps another; two scenes share a parcel, which
moves between them at the source.  Their corners are a square on the diagonal, which
is copied as asked for, or a column, of which only one parcel is; each answer of
`/mappings` may lack any of the parcels (2.1 million states).

Coordinates are checked at 9 bits (`MaxInt = 255`) with the bounds of `/scenes` and the
limit scaled down, so that all corners can be enumerated and wrapping is in
reach; the real values (150, 200, 64 bits) have the same proportions: the
largest rectangle `/scenes` allows is far from the end of the range.  Coordinates at
both ends of the integers are among them for `/mappings`, which has no bounds.

## What is proved

Every invariant and action property of the passing runs, and the two refinements,
for all values of the constants: any number of uploads, readers, saves and runs,
any requests, sizes and areas.

| Module | Theorems | Statement |
|---|---|---|
| `SceneIndexProofs` | `TypeCorrect`, `ContentInvariant`, `NoDanglingSceneHolds`, `StatusSoundHolds`, `PublishInvariant`, `PublishOrderHolds`, `QuietIndexHolds`, `AckVisibleHolds` | `Spec => []P` for `TypeOK`, `ContentInv`, `NoDanglingScene`, `StatusSound`, `PublishInv`, `PublishOrder`, `QuietIndex`, `AckVisible` |
| | `EvictionJustifiedHolds` | `Spec => EvictionJustified`, an action property |
| | `QuietRefinesSceneMap` | `QuietSpec => ImplementsSceneMap` |
| | `SceneMapDisjoint`, `QuietScenesDisjoint` | `SMSpec => [](SMTypeOK /\ Disjoint)`, and what the refinement makes of it: `QuietSpec => []DisjointScenes` |
| `ContentStorageProofs` | `TypeCorrect`, `SettledWholeHolds`, `SteadyReadHolds`, `ServedExactHolds` | `Spec => []P` |
| | `RefinesObjectStore` | `Spec => ImplementsObjectStore` |
| `ContentValidationProofs` | `TypeCorrect`, `WorkdirCleanHolds`, `ExactAloneHolds` | `Spec => []P` |
| `ScenesReaderProofs` | `RTypeCorrect`, `ScenesServableHolds`, `ScenesDisjointHolds`, `AcknowledgedListedHolds` | `RSpec => []P` |
| `ParcelReaderProofs` | `RTypeCorrect`, `FilesServableHolds`, `CalmAnswerHolds`, `AcknowledgedAnsweredHolds` | `RSpec => []P` |
| | `FilesExact` | if all uploads of a root have one manifest, the files `FilesServable` speaks of are exactly it |
| | `MissingMetadataJustifiedHolds` | `RSpec => MissingMetadataJustified`, an action property |
| `UploadHandlerProofs` | `TypeCorrect`, `AdmittedWithAccessHolds`, `RefusalJustifiedHolds`, `AskedWellFormedHolds`, `HonestAdmittedHolds` | `Spec => []P` |
| `ReplicationProofs` | `TypeCorrect`, `RecordedIsStoredHolds`, `NotMixedHolds`, `GapsExplainedHolds`, `CopyCurrentHolds` | `Spec => []P` |
| | `AreaCopied` | `CopyCurrent` for the area asked for: corners on the diagonal, nothing left out |
| `ParcelRectProofs` | `ScenesAreaHolds`, `MappingsAreaHolds` | `Spec => []P` |

### Assumptions

* `SceneIndex`: requests have parcels, a manifest and parts; directories and scene
  paths are paths; the values for "nothing" are not values.  The readers add that
  areas and queries are not empty (the code answers those without a read) and that
  `/validate` asks for one parcel; `ParcelReader` also that keys of different kinds
  do not collide (`KeysAssumption`).
* `ContentStorage`: finitely many saves, none of which is a reader; bodies are pieces
  up to an end; holes and ends are not bytes.
* `ContentValidation`: sizes are numbers; a malformed CID is the CID of no file and no
  directory, and
  a lost or half-written file is not the content of any CID.
* `UploadHandler`: a form has finitely many parts; the number of manifest entries,
  times and limits are natural numbers; a parcel has a coordinate or is not one.
* `Replication`: the sets are not empty; parcels and corners have integer coordinates;
  scenes and manifests are made of parcels, names and CIDs.
* `ParcelRect`: coordinates are ints; `(2 * Bound + 1)^2 <= MaxInt`.

### The index

The argument has four layers, each using the ones before it.

1. `ContentInv` says what is still in `parts[u]` and `entries[u]` is what the
   storage and the content hash lack.  Storage and recorded fields are never
   taken back (`NothingTakenBack`), so when an upload reaches the index its
   manifest is complete and stays so: each path has a CID that some upload of the root
   gave for it (`RecordedAsGiven`), and the CID is stored.  A parcel key is written
   only there (`ParcelKeyWriter`).  That gives `NoDanglingScene`, and `StatusSound` since a
   CID is marked as uploaded only for a recorded entry.
2. `PublishInv` says how far an upload has come: parcels before `idx[u]` are set
   or flagged, and every later stage has the earlier ones.  `PublishOrder` follows
   because each key has one writer.
3. `QuietIndex` is not inductive: between GET and SET an old list may still hold
   the parcel.  `Exact(p)` says where it may be: in a root the upload has read
   (`get`, `del`), nowhere (`push`), in the upload's own root (`set`: `Cleared`);
   and a listed parcel leads to its root or the upload of that root is about to
   set it (`LeadsBack`, `Pending`).  `OneAtATime` keeps other uploads out of the
   parcel meanwhile.  Nothing in it is about another parcel, and an upload that
   does not claim `p` can only take `p` off a list, by a DEL (`ExactElsewhere`), so
   it is invariant for every quiet parcel by itself (`QuietInv`).  The refinement,
   where all parcels are quiet, then needs only that the DEL retires a whole list
   and that the LPUSH finds none of its parcels listed (`StepRefines`).
4. `OriginInv` says where keys come from: a root that a parcel leads to, that an
   upload has read from a parcel of its own, or that has a list, is the root of an
   upload for these parcels.  So a DEL hits only a list with a parcel of the upload
   (`EvictionJustified`), and an upload that is not related to `u` never touches a
   key of `u`.  `LoneInv` says that while `u` is alone only such uploads publish;
   `VisibleInv`, what `u` has made visible at each of its stages, is then kept by
   everybody else, and at the end it is `AckVisible`.

### The storage

One invariant, `StoreInv`, since `SettledWhole` says nothing of a file that is still
being written.  A faithful file can only lack parts (`Incomplete`: every piece is the
content, a hole or past the end, and it is never longer), and the call that truncated
it last has filled it up to its position (`Filled`).  Another call that writes into
it cannot undo that, because it writes the same content and the pieces before its
position are not past the content's end; so when the last call returns the file is
whole, and only another `Create` makes it less (`LostRewritten`), which by `Origin` is
a second save.

`AloneInv` says that only the last call writes into an object that no two calls have
saved at once, and that it has no holes; `ReadersInv`, that what a reader has of such an
object is its content up to the reader's position, truncated or not.  A client is served
in full once its position has passed the length the file had, which for a file opened
whole is the content's (`ServedExact`).  A steady reader has besides found the file
settled at every step, so it is neither short nor rejected (`SteadyRead`).

### Validation

`EntryInv` places a request in its manifest; `TypeOK` has it that a request works in
a directory only if its root is a CID.  `AloneInv` describes the directory of
an undisturbed request after its first `k` entries: each path holds the last of them
for it, or nothing (`Assembled`), and each of them has been found to be what its CID
says (`Examined`); while a file is written, everything but that file (`Writing`).  At
the end of the loop the directory is the manifest, so the hash is the root exactly if
the request is `Honest`.  The manifest is a sequence of any length and nothing in the
argument is an induction over it: the loop's steps are.

### The readers

`RSpec => Spec` (`UploadsFollowSpec`), so the invariants of the index hold beneath a
reader.  Three kinds of facts are added.

* What a reader holds stays true when uploads go on: completeness is never taken back
  (`ListsServable`, `HeldServable`; `FilesInv` with `Whole`: the files held are the
  manifest of an upload that claimed the parcel), nor is the fact that an
  upload of a root has come as far as setting keys (`KeysInv`, `RootKeyed`).  The
  latter says which uploads can be blamed for missing metadata.
* While nobody publishes, the lists, the parcel keys and the files of the roots they
  lead to stand still (`CalmInv`, `InfoInv`), so the values read earlier are still the
  values there.
* `FoundInv` says for every scene that was visible at the beginning how far the
  request has come with it: behind the position, its root has been collected or its
  parcels answered; at the position, the keys lead to it, by `AckVisible`.  For
  `/parcel_info` the position moves over CIDs first and over pairs next
  (`InfoUnderway`); `SourceInv` says that what a scene CID leads to is a root with it.

### Requests, replication, areas

`HandlerInv`: what each stage has established (`Parsed`, `Signed`, the parcels before
`idx` were held when asked about).  `HonestAdmitted` needs besides that a faultless
request has been faultless at every earlier step (`FaultlessBefore`), since the rights
it lacked only grow.

`RunInv` is what a run relies on whatever the others do: the metadata is there before
the files, and an object before its field.  `WorkInv` is what it achieves as long as
its two answers belong together: it copies the root it was told, and what the replica
lacks of it is pending.  `KeyInv` keeps parcels from roots without a name.  `CopyInv`
says of a calm run that each parcel of its answer is waiting, being copied, or done; at
the end nothing waits, which is `CopyCurrent`.

For areas, `WrapIsExact`: an int is itself.  The sides of an area are at least 1, so
neither exceeds the product (`ProductBounds`) and all three are ints when the product
is; within the bound it is, by `ProductGrows`.  `RectToParcels` then lists exactly the
rectangle (`RectangleIsExact`), also at the smallest int.

### What TLC and the provers each do

`ContentInv` is an invariant of the run `SceneIndexSafety`; the other inductive
invariants are used in the proofs only.  Proving found conditions that the instances
had not shown: `SameFiles` and `SameScene` in `ParcelReader`, `KeysAssumption`, and
that `/validate` asks for one parcel.

Only model-checked: the liveness properties `UploadAnswered` and `MetadataFollows`,
because TLAPS does not reason about fairness and ENABLED; and the two runs that expect
a violation, which show a behaviour and not a property of all of them.

## Not modelled

The mathematics of signatures and CIDs (a signature is valid or not, a CID stands for
its content); field rules of request structs beyond well formed or not; transfers of
the S3 SDK in parts; metrics, logging, configuration and start-up, which keep no
state that is read back; the JSON of answers; metadata beyond its presence and root;
`ClearScene`, which nothing calls.

## Plan

1. Done: the index (`SceneMap`, `SceneIndex`), validation (`ContentValidation`),
   readers (`ScenesReader`, `ParcelReader`), areas (`ParcelRect`), storage
   (`ObjectStore`, `ContentStorage`), requests (`UploadHandler`), replication
   (`Replication`), and a theorem for every safety property of the passing runs.
2. Next: what the next upload of a parcel mends after an overlap or a stop among the
   SETs; that `ContentValidation` and `ContentStorage`
   together justify the steps `AcceptUpload` and `SaveFile` of `SceneIndex`;
   the safety half of `UploadAnswered` (an accepted upload can always step).
