----------------------------- MODULE UploadHandler -----------------------------
(***************************************************************************)
(* POST /mappings from the arrival of a request to the moment the upload   *)
(* service turns to its content: parseRequest, validateSignature and       *)
(* validateKeyAccess, and the status a request is refused with.  The       *)
(* access rights belong to an external service that is asked about one     *)
(* parcel at a time and may change its mind in between.                    *)
(*                                                                         *)
(* Up to here a request shares nothing with other requests, so one of them *)
(* is followed.                                                            *)
(***************************************************************************)
EXTENDS Integers, FiniteSets, SequencesExt

CONSTANTS
    Parcels,            \* parcel ids, as scene.json spells them
    Coordinates,        \* the parcels of the land
    NotACoordinate,     \* what an id that does not parse stands for
    Coord,              \* Coord[p]: the coordinates id p is parsed to
    ParcelAssetsLimit,  \* manifest entries allowed per parcel
    TTL,                \* seconds a request is accepted after its timestamp
    MaxTime,            \* bound: the clock stops here
    Forms               \* the requests tried

\* A part of the form with a file.  Only a part whose file name is
\* scene.json is parsed: "scene" with a list of parcels, or "broken".
Part == [name : STRING, allowed : BOOLEAN, kind : {"scene", "broken", "other"},
         parcels : Seq(Parcels)]

Form == [multipart : BOOLEAN,
         metadata : {"missing", "malformed", "ok"}, timestamp : Nat,
         manifest : {"missing", "null", "malformed", "ok"}, entries : Nat,
         parts : SUBSET Part,
         signature : {"valid", "invalid", "truncated", "contract", "refused-by-contract"}]

ASSUME HandlerAssumption ==
    /\ Coord \in [Parcels -> Coordinates \cup {NotACoordinate}]
    /\ NotACoordinate \notin Coordinates
    /\ ParcelAssetsLimit \in Nat /\ TTL \in Nat /\ MaxTime \in Nat
    /\ \A f \in Forms :
          /\ f.multipart \in BOOLEAN /\ f.timestamp \in Nat /\ f.entries \in Nat
          /\ IsFiniteSet(f.parts)
          /\ f.metadata \in {"missing", "malformed", "ok"}
          /\ f.manifest \in {"missing", "null", "malformed", "ok"}
          /\ \A part \in f.parts :
                /\ part.kind \in {"scene", "broken", "other"}
                /\ part.allowed \in BOOLEAN /\ part.parcels \in Seq(Parcels)

VARIABLES
    now,            \* the clock
    rights,         \* the coordinates the public key may modify at present
    form,           \* the request
    pc,             \* what the handler does next
    outcome,        \* the check that ended the request, "none" so far
    scene,          \* the parcels of the scene.json that was parsed
    idx,            \* the parcel the access service is asked about next
    arrived,        \* history: when the request arrived
    held, lacked,   \* history: what the key could and could not modify since
    outage          \* history: an external service failed

clock   == <<now, rights>>
history == <<arrived, held, lacked, outage>>
vars    == <<clock, form, pc, outcome, scene, idx, history>>

SceneParts(f) == {part \in f.parts : part.kind # "other"}

(***************************************************************************)
(* parseRequest: the checks in their order; the first one that fails ends  *)
(* the request.  part is the scene.json that getScene comes across first.  *)
(* ValidateStruct of the whole request comes last and cannot fail: what it *)
(* requires is what the checks before it have established.                 *)
(***************************************************************************)
Check(failed, name) == [failed |-> failed, name |-> name]

\* Mutant: the limit is exclusive.
HasRequestExpiredEarly(f) == now - f.timestamp >= TTL
HasRequestExpired(f) == now - f.timestamp > TTL

\* Mutant: one file with an allowed type is enough.
AnyContentType(f) == \E part \in f.parts : part.allowed
ValidateContentTypes(f) == \A part \in f.parts : part.allowed

Checks(f, part) ==
    << Check(~ f.multipart, "form"),
       Check(f.metadata = "missing", "no-metadata"),
       Check(f.metadata = "malformed", "metadata"),
       Check(HasRequestExpired(f), "expired"),
       Check(f.manifest = "missing", "no-manifest"),
       Check(f.manifest = "null", "panic"),
       Check(f.manifest = "malformed", "manifest"),
       Check(~ ValidateContentTypes(f), "content-type"),
       Check(Cardinality(f.parts) > f.entries, "too-many-files"),
       Check(SceneParts(f) = {}, "no-scene"),
       Check(part.kind = "broken", "scene"),
       Check(f.entries > Len(part.parcels) * ParcelAssetsLimit, "too-many-entries") >>

NoPart == [name |-> "", allowed |-> TRUE, kind |-> "other", parcels |-> <<>>]

\* The status UploadContent answers with.  A missing part of the form is a
\* RequiredValueError, which no case of the switch names.
Status(check) ==
    IF check = "no-access" THEN 401
    ELSE IF check \in {"metadata", "expired", "manifest", "content-type", "too-many-files",
                       "scene", "too-many-entries", "signature", "access-error"} THEN 400
    ELSE 500    \* "form", "no-metadata", "no-manifest", "no-scene", "contract", "panic"

-------------------------------------------------------------------------------

Init ==
    /\ now \in 0 .. MaxTime
    /\ rights \in SUBSET Coordinates
    /\ form \in Forms
    /\ pc = "parse"
    /\ outcome = "none"
    /\ scene = <<>>
    /\ idx = 1
    /\ arrived = now
    /\ held = rights
    /\ lacked = Coordinates \ rights
    /\ outage = FALSE

Refuse(check) == pc' = "refused" /\ outcome' = check

ParseRequest ==
    /\ pc = "parse"
    /\ \E part \in IF SceneParts(form) = {} THEN {NoPart} ELSE SceneParts(form) :
          LET checks == Checks(form, part)
              Failed == {i \in DOMAIN checks : checks[i].failed}
          IN  \/ /\ Failed # {}
                 /\ Refuse(checks[Min(Failed)].name)
                 /\ UNCHANGED scene
              \/ /\ Failed = {}
                 /\ pc' = "signature" /\ scene' = part.parcels
                 /\ UNCHANGED outcome
    /\ UNCHANGED <<clock, form, idx, history>>

\* A long signature is checked by a contract, whose refusal is an error
\* without a class; one that is too short to index makes the handler panic.
ValidateSignature ==
    /\ pc = "signature"
    /\ \/ /\ form.signature \in {"valid", "contract"}
          /\ pc' = "access" /\ UNCHANGED outcome
       \/ form.signature = "invalid" /\ Refuse("signature")
       \/ form.signature = "truncated" /\ Refuse("panic")
       \/ form.signature = "refused-by-contract" /\ Refuse("contract")
    /\ UNCHANGED <<clock, form, scene, idx, history>>

ContractError ==
    /\ pc = "signature"
    /\ form.signature \in {"contract", "refused-by-contract"}
    /\ outage' = TRUE
    /\ Refuse("contract")
    /\ UNCHANGED <<clock, form, scene, idx, arrived, held, lacked>>

Here == Coord[scene[idx]]

\* Mutant: the loop returns with the answer for the first parcel.
ParcelAccessReturns ==
    /\ pc = "access" /\ Here # NotACoordinate
    /\ \/ Here \notin rights /\ Refuse("no-access") /\ UNCHANGED idx
       \/ Here \in rights /\ pc' = "admitted" /\ UNCHANGED <<outcome, idx>>
    /\ UNCHANGED <<clock, form, scene, history>>

\* Mutant: one parcel past the end is counted.
ParcelAccessPastEnd ==
    /\ pc = "access" /\ Here # NotACoordinate
    /\ \/ Here \notin rights /\ Refuse("no-access") /\ UNCHANGED idx
       \/ /\ Here \in rights
          /\ idx' = idx + 1
          /\ pc' = IF idx = Len(scene) THEN "admitted" ELSE "access"
          /\ UNCHANGED outcome
    /\ UNCHANGED <<clock, form, scene, history>>

\* UserCanModifyParcels, one answer of the access service.
ParcelAccess ==
    /\ pc = "access" /\ Here # NotACoordinate
    /\ \/ /\ Here \notin rights
          /\ Refuse("no-access")
          /\ UNCHANGED idx
       \/ /\ Here \in rights /\ idx < Len(scene)
          /\ idx' = idx + 1
          /\ UNCHANGED <<pc, outcome>>
       \/ /\ Here \in rights /\ idx = Len(scene)
          /\ pc' = "admitted"
          /\ UNCHANGED <<outcome, idx>>
    /\ UNCHANGED <<clock, form, scene, history>>

InvalidCoordinate ==
    /\ pc = "access" /\ Here = NotACoordinate
    /\ Refuse("access-error")
    /\ UNCHANGED <<clock, form, scene, idx, history>>

\* Mutant: an error of the service counts as a refusal.
AccessErrorRefuses ==
    /\ pc = "access" /\ Here # NotACoordinate
    /\ outage' = TRUE
    /\ Refuse("no-access")
    /\ UNCHANGED <<clock, form, scene, idx, arrived, held, lacked>>

\* The service does not answer, or not with access data.
AccessError ==
    /\ pc = "access" /\ Here # NotACoordinate
    /\ outage' = TRUE
    /\ Refuse("access-error") \/ Refuse("panic")
    /\ UNCHANGED <<clock, form, scene, idx, arrived, held, lacked>>

Underway == pc \notin {"admitted", "refused"}

\* The land changes hands, or the owner appoints other operators.
ChangeRights(c) ==
    /\ Underway
    /\ rights' = IF c \in rights THEN rights \ {c} ELSE rights \cup {c}
    /\ held' = held \cup rights'
    /\ lacked' = lacked \cup (Coordinates \ rights')
    /\ UNCHANGED <<now, form, pc, outcome, scene, idx, arrived, outage>>

Tick ==
    /\ Underway /\ now < MaxTime
    /\ now' = now + 1
    /\ UNCHANGED <<rights, form, pc, outcome, scene, idx, history>>

Next ==
    \/ ParseRequest
    \/ ValidateSignature \/ ContractError
    \/ ParcelAccess \/ InvalidCoordinate \/ AccessError
    \/ \E c \in Coordinates : ChangeRights(c)
    \/ Tick

Spec == Init /\ [][Next]_vars

-------------------------------------------------------------------------------

TypeOK ==
    /\ now \in 0 .. MaxTime /\ arrived \in 0 .. now
    /\ rights \subseteq Coordinates
    /\ pc \in {"parse", "signature", "access", "admitted", "refused"}
    /\ pc = "refused" <=> outcome # "none"
    /\ scene \in Seq(Parcels)
    /\ IF pc = "access" THEN idx \in DOMAIN scene ELSE idx \in DOMAIN scene \cup {1}
    /\ held \subseteq Coordinates /\ lacked \subseteq Coordinates
    /\ outage \in BOOLEAN

Needed == {Coord[p] : p \in Range(scene)}

(***************************************************************************)
(* An admitted upload names only parcels that its key was seen to have     *)
(* access to while the request was being served - each of them, though not *)
(* necessarily all at one moment, and perhaps not any more (the access is  *)
(* asked for parcel by parcel, and not again before publication).          *)
(***************************************************************************)
AdmittedWithAccess == pc = "admitted" => scene # <<>> /\ Needed \subseteq held

(***************************************************************************)
(* A request is turned away as unauthorized only if its key lacked one of  *)
(* the parcels while the request was being served: a failure of the access *)
(* service is never reported as missing access (validateKeyAccess).        *)
(***************************************************************************)
RefusalJustified ==
    outcome # "none" /\ Status(outcome) = 401 => Needed \cap lacked # {}

\* A request without a fault of its own, as far as its form goes.
WellFormed(f) ==
    /\ f.multipart /\ f.metadata = "ok" /\ f.manifest = "ok"
    /\ \A part \in f.parts : part.allowed
    /\ Cardinality(f.parts) <= f.entries
Signed(f) == f.signature \in {"valid", "contract"}
Fits(f, parcels) == f.entries <= ParcelAssetsLimit * Len(parcels)

(***************************************************************************)
(* The access service is asked only on behalf of requests that are well    *)
(* formed and signed, that had not expired when they arrived, and whose    *)
(* scene is one of their parts and large enough for the manifest, so that  *)
(* none of this is left for the upload service to check (order of the      *)
(* checks in parseRequest and ProcessUpload).                              *)
(***************************************************************************)
AskedWellFormed ==
    pc \in {"access", "admitted"} =>
        /\ WellFormed(form) /\ Signed(form)
        /\ arrived <= form.timestamp + TTL
        /\ \E part \in form.parts : part.kind = "scene" /\ part.parcels = scene
        /\ Fits(form, scene)

(***************************************************************************)
(* A request that meets all the requirements, whose key has access to all  *)
(* its parcels throughout, and that meets no failure of a service, is not  *)
(* refused, whichever of its scene.json parts is found first; if it is     *)
(* refused then for its age.                                               *)
(***************************************************************************)
HonestAdmitted ==
    /\ WellFormed(form) /\ Signed(form) /\ SceneParts(form) # {}
    /\ \A part \in SceneParts(form) :
          /\ part.kind = "scene" /\ Fits(form, part.parcels)
          /\ \A p \in Range(part.parcels) : Coord[p] \in Coordinates \ lacked
    /\ ~ outage /\ pc = "refused"
    => outcome = "expired" /\ now > form.timestamp + TTL
===============================================================================
