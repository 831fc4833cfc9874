-------------------------- MODULE UploadHandlerProofs --------------------------
(***************************************************************************)
(* Theorems about UploadHandler for any requests, parcels, rights and      *)
(* limits: what a request that is admitted, and one that is refused, has   *)
(* been through.                                                           *)
(***************************************************************************)
EXTENDS UploadHandler, FiniteSetTheorems, SequenceTheorems, TLAPS

Outcomes ==
    {"form", "no-metadata", "metadata", "expired", "no-manifest", "panic", "manifest",
     "content-type", "too-many-files", "no-scene", "scene", "too-many-entries",
     "signature", "contract", "no-access", "access-error"}

\* The checks of parseRequest are behind the request, and scene is from it.
Parsed ==
    /\ WellFormed(form) /\ arrived <= form.timestamp + TTL
    /\ \E part \in form.parts : part.kind = "scene" /\ part.parcels = scene
    /\ Fits(form, scene) /\ scene # <<>>

(***************************************************************************)
(* The inductive invariant: what each stage has established.  held and     *)
(* lacked cover the present rights; the parcels before idx were held when  *)
(* they were asked about.                                                  *)
(***************************************************************************)
HandlerInv ==
    /\ form \in Forms
    /\ outcome \in Outcomes \cup {"none"}
    /\ rights \subseteq held /\ Coordinates \ rights \subseteq lacked
    /\ pc \in {"parse", "signature"} => idx = 1
    /\ pc \in {"signature", "access", "admitted"} => Parsed
    /\ pc \in {"access", "admitted"} => Signed(form)
    /\ pc = "access" => \A i \in DOMAIN scene : i < idx => Coord[scene[i]] \in held
    /\ pc = "admitted" => Needed \subseteq held

-------------------------------------------------------------------------------
(***************************************************************************)
(* The checks.                                                             *)
(***************************************************************************)

\* What form and parts are made of.
LEMMA FormFacts ==
    ASSUME NEW f \in Forms
    PROVE  /\ f.multipart \in BOOLEAN /\ f.timestamp \in Nat /\ f.entries \in Nat
           /\ f.metadata \in {"missing", "malformed", "ok"}
           /\ f.manifest \in {"missing", "null", "malformed", "ok"}
           /\ IsFiniteSet(f.parts)
           /\ \A part \in f.parts :
                 /\ part.kind \in {"scene", "broken", "other"}
                 /\ part.allowed \in BOOLEAN
                 /\ part.parcels \in Seq(Parcels) /\ Len(part.parcels) \in Nat
BY HandlerAssumption

\* The checks, by number: what makes them fail, and what they are called.
LEMMA CheckFacts ==
    ASSUME NEW f, NEW part
    PROVE  /\ DOMAIN Checks(f, part) = 1 .. 12
           /\ Checks(f, part)[1].failed <=> ~ f.multipart
           /\ Checks(f, part)[2].failed <=> f.metadata = "missing"
           /\ Checks(f, part)[3].failed <=> f.metadata = "malformed"
           /\ Checks(f, part)[4].failed <=> HasRequestExpired(f)
           /\ Checks(f, part)[5].failed <=> f.manifest = "missing"
           /\ Checks(f, part)[6].failed <=> f.manifest = "null"
           /\ Checks(f, part)[7].failed <=> f.manifest = "malformed"
           /\ Checks(f, part)[8].failed <=> ~ ValidateContentTypes(f)
           /\ Checks(f, part)[9].failed <=> Cardinality(f.parts) > f.entries
           /\ Checks(f, part)[10].failed <=> SceneParts(f) = {}
           /\ Checks(f, part)[11].failed <=> part.kind = "broken"
           /\ Checks(f, part)[12].failed <=>
                  f.entries > Len(part.parcels) * ParcelAssetsLimit
<1> USE DEF Checks, Check
<1>0. DOMAIN Checks(f, part) = 1 .. 12
    OBVIOUS
<1>1. Checks(f, part)[1].failed <=> ~ f.multipart
    OBVIOUS
<1>2. Checks(f, part)[2].failed <=> f.metadata = "missing"
    OBVIOUS
<1>3. Checks(f, part)[3].failed <=> f.metadata = "malformed"
    OBVIOUS
<1>4. Checks(f, part)[4].failed <=> HasRequestExpired(f)
    OBVIOUS
<1>5. Checks(f, part)[5].failed <=> f.manifest = "missing"
    OBVIOUS
<1>6. Checks(f, part)[6].failed <=> f.manifest = "null"
    OBVIOUS
<1>7. Checks(f, part)[7].failed <=> f.manifest = "malformed"
    OBVIOUS
<1>8. Checks(f, part)[8].failed <=> ~ ValidateContentTypes(f)
    OBVIOUS
<1>9. Checks(f, part)[9].failed <=> Cardinality(f.parts) > f.entries
    OBVIOUS
<1>10. Checks(f, part)[10].failed <=> SceneParts(f) = {}
    OBVIOUS
<1>11. Checks(f, part)[11].failed <=> part.kind = "broken"
    OBVIOUS
<1>12. Checks(f, part)[12].failed <=> f.entries > Len(part.parcels) * ParcelAssetsLimit
    OBVIOUS
<1> HIDE DEF Checks, Check
<1> QED  BY <1>0, <1>1, <1>2, <1>3, <1>4, <1>5, <1>6, <1>7, <1>8, <1>9, <1>10, <1>11, <1>12, Zenon

LEMMA CheckNames ==
    ASSUME NEW f, NEW part
    PROVE  /\ \A i \in 1 .. 12 : Checks(f, part)[i].name \in Outcomes \ {"none", "no-access"}
           /\ Checks(f, part)[4].name = "expired"
<1>1. 1 .. 12 = {1, 2, 3, 4, 5, 6, 7, 8, 9, 10, 11, 12}
    OBVIOUS
<1> QED  BY <1>1 DEF Checks, Check, Outcomes

\* The least of a set of positions.
LEMMA LeastFailed ==
    ASSUME NEW F \in SUBSET (1 .. 12), F # {}
    PROVE  Min(F) \in F /\ \A i \in F : Min(F) <= i
<1> DEFINE Least(n) == n \in F /\ \A i \in F : n <= i
<1>1. \E n \in F : Least(n)
    <2>1. PICK m \in F : TRUE
        OBVIOUS
    <2>2. \/ 1 \in F \/ 2 \in F \/ 3 \in F \/ 4 \in F \/ 5 \in F \/ 6 \in F
          \/ 7 \in F \/ 8 \in F \/ 9 \in F \/ 10 \in F \/ 11 \in F \/ 12 \in F
        BY <2>1
    <2> QED  BY <2>2
<1> QED  BY <1>1 DEF Min

\* Only missing access is answered 401.
LEMMA StatusFacts ==
    ASSUME NEW check, Status(check) = 401
    PROVE  check = "no-access"
BY DEF Status

\* What a request and its scene are like if no check fails.
LEMMA ParsedFacts ==
    ASSUME TypeOK, HandlerInv, NEW part \in SceneParts(form),
           \A i \in 1 .. 12 : ~ Checks(form, part)[i].failed
    PROVE  /\ WellFormed(form) /\ arrived <= form.timestamp + TTL
           /\ part.kind = "scene" /\ Fits(form, part.parcels) /\ part.parcels # <<>>
<1> DEFINE failed(i) == Checks(form, part)[i].failed
<1>0. form \in Forms /\ part \in form.parts /\ part.kind # "other"
    BY DEF SceneParts, HandlerInv
<1>1. /\ form.timestamp \in Nat /\ form.entries \in Nat /\ IsFiniteSet(form.parts)
      /\ part.kind \in {"scene", "broken", "other"} /\ Len(part.parcels) \in Nat
      /\ part.parcels \in Seq(Parcels)
    BY <1>0, FormFacts
<1>2. /\ form.multipart /\ form.metadata = "ok" /\ form.manifest = "ok"
      /\ ~ HasRequestExpired(form) /\ ValidateContentTypes(form)
      /\ ~ (Cardinality(form.parts) > form.entries) /\ part.kind # "broken"
      /\ ~ (form.entries > Len(part.parcels) * ParcelAssetsLimit)
    <2>1. /\ ~ failed(1) /\ ~ failed(2) /\ ~ failed(3) /\ ~ failed(4) /\ ~ failed(5)
          /\ ~ failed(6) /\ ~ failed(7) /\ ~ failed(8) /\ ~ failed(9)
          /\ ~ failed(11) /\ ~ failed(12)
        OBVIOUS
    <2> QED  BY <1>0, <2>1, CheckFacts, FormFacts
<1>3. Cardinality(form.parts) \in Nat /\ Cardinality(form.parts) # 0
    BY <1>0, <1>1, FS_CardinalityType, FS_EmptySet
<1>4. WellFormed(form)
    BY <1>1, <1>2, <1>3 DEF WellFormed, ValidateContentTypes
<1>5. arrived <= form.timestamp + TTL
    BY <1>1, <1>2, HandlerAssumption DEF HasRequestExpired, TypeOK
<1>6. Fits(form, part.parcels)
    BY <1>1, <1>2, HandlerAssumption DEF Fits
<1>7. part.parcels # <<>>
    <2> SUFFICES ASSUME part.parcels = <<>> PROVE FALSE
        OBVIOUS
    <2>1. Len(part.parcels) = 0
        OBVIOUS
    <2>2. Len(part.parcels) * ParcelAssetsLimit = 0
        BY <2>1, HandlerAssumption
    <2> QED  BY <1>1, <1>2, <1>3, <2>2
<1> QED  BY <1>1, <1>2, <1>0, <1>4, <1>5, <1>6, <1>7

\* A check that fails is the first one that does.
LEMMA RefusedFacts ==
    ASSUME NEW part, {i \in DOMAIN Checks(form, part) : Checks(form, part)[i].failed} # {}
    PROVE  LET checks == Checks(form, part)
               first == Min({i \in DOMAIN checks : checks[i].failed})
           IN  first \in 1 .. 12 /\ checks[first].failed
               /\ checks[first].name \in Outcomes \ {"none", "no-access"}
<1> DEFINE Failed == {i \in DOMAIN Checks(form, part) : Checks(form, part)[i].failed}
<1>1. Failed \in SUBSET (1 .. 12) /\ Failed # {}
    BY CheckFacts
<1>2. Min(Failed) \in Failed
    BY <1>1, LeastFailed
<1> QED  BY <1>1, <1>2, CheckNames

-------------------------------------------------------------------------------
(***************************************************************************)
(* Types and the inductive invariant.                                      *)
(***************************************************************************)

LEMMA InitHandler == Init => TypeOK /\ HandlerInv
<1> SUFFICES ASSUME Init PROVE TypeOK /\ HandlerInv
    OBVIOUS
<1>1. TypeOK
    <2>1. now \in 0 .. MaxTime /\ arrived \in 0 .. now /\ scene \in Seq(Parcels)
        BY EmptySeq, HandlerAssumption DEF Init
    <2> QED  BY <2>1 DEF Init, TypeOK
<1>2. HandlerInv
    BY DEF Init, HandlerInv
<1> QED  BY <1>1, <1>2

LEMMA ParseStep ==
    ASSUME TypeOK, HandlerInv, ParseRequest
    PROVE  TypeOK' /\ HandlerInv'
<1>1. /\ pc = "parse" /\ outcome = "none" /\ idx = 1 /\ form \in Forms
      /\ UNCHANGED <<now, rights, form, idx, arrived, held, lacked, outage>>
    BY DEF ParseRequest, TypeOK, HandlerInv, clock, history
<1>2. PICK part \in IF SceneParts(form) = {} THEN {NoPart} ELSE SceneParts(form) :
          LET checks == Checks(form, part)
              Failed == {i \in DOMAIN checks : checks[i].failed}
          IN  \/ /\ Failed # {}
                 /\ Refuse(checks[Min(Failed)].name)
                 /\ UNCHANGED scene
              \/ /\ Failed = {}
                 /\ pc' = "signature" /\ scene' = part.parcels
                 /\ UNCHANGED outcome
    BY DEF ParseRequest
<1> DEFINE Failed == {i \in DOMAIN Checks(form, part) : Checks(form, part)[i].failed}
<1>3. CASE Failed # {}
    <2>1. pc' = "refused" /\ outcome' \in Outcomes \ {"none"} /\ scene' = scene
        BY <1>2, <1>3, RefusedFacts DEF Refuse
    <2>2. TypeOK'
        BY <1>1, <2>1 DEF TypeOK
    <2>3. HandlerInv'
        BY <1>1, <2>1 DEF HandlerInv
    <2> QED  BY <2>2, <2>3
<1>4. CASE Failed = {}
    <2>1. pc' = "signature" /\ scene' = part.parcels /\ outcome' = outcome
        BY <1>2, <1>4
    <2>2. \A i \in 1 .. 12 : ~ Checks(form, part)[i].failed
        BY <1>4, CheckFacts
    <2>3. part \in SceneParts(form)
        <3>1. ~ Checks(form, part)[10].failed
            BY <2>2
        <3> QED  BY <1>2, <3>1, CheckFacts
    <2>4. part \in form.parts /\ part.parcels \in Seq(Parcels)
        BY <1>1, <2>3, FormFacts DEF SceneParts
    <2>5. Parsed'
        BY <1>1, <2>1, <2>2, <2>3, <2>4, ParsedFacts
           DEF Parsed, WellFormed, Fits
    <2>6. TypeOK'
        BY <1>1, <2>1, <2>4 DEF TypeOK
    <2> QED  BY <1>1, <2>1, <2>5, <2>6 DEF HandlerInv
<1> QED  BY <1>3, <1>4

\* Steps that keep what the request is about.
LEMMA SignatureStep ==
    ASSUME TypeOK, HandlerInv, ValidateSignature \/ ContractError
    PROVE  TypeOK' /\ HandlerInv'
<1>1. /\ pc = "signature" /\ outcome = "none" /\ Parsed
      /\ UNCHANGED <<now, rights, form, scene, idx, arrived, held, lacked>>
    BY DEF ValidateSignature, ContractError, TypeOK, HandlerInv, clock, history
<1>2. outage' \in BOOLEAN
    BY DEF ValidateSignature, ContractError, TypeOK, history
<1>3. \/ pc' = "access" /\ outcome' = "none" /\ Signed(form)
      \/ pc' = "refused" /\ outcome' \in Outcomes \ {"none"}
    <2>1. CASE ContractError
        BY <2>1 DEF ContractError, Refuse, Outcomes
    <2>2. CASE ValidateSignature
        BY <1>1, <2>2 DEF ValidateSignature, Refuse, Signed, Outcomes
    <2> QED  BY <2>1, <2>2
<1>4. scene \in Seq(Parcels) /\ scene # <<>>
    BY <1>1 DEF Parsed, TypeOK
<1>5. idx = 1 /\ 1 \in DOMAIN scene
    BY <1>1, <1>4 DEF HandlerInv
<1>6. TypeOK'
    BY <1>1, <1>2, <1>3, <1>5 DEF TypeOK, Outcomes
<1>7. Parsed'
    BY <1>1 DEF Parsed
<1>8. \A i \in DOMAIN scene : ~ (i < idx)
    BY <1>4, <1>5
<1> QED  BY <1>1, <1>3, <1>6, <1>7, <1>8 DEF HandlerInv, Outcomes

LEMMA AccessStep ==
    ASSUME TypeOK, HandlerInv, ParcelAccess
    PROVE  TypeOK' /\ HandlerInv'
<1>1. /\ pc = "access" /\ outcome = "none" /\ Parsed /\ Signed(form) /\ Here # NotACoordinate
      /\ scene \in Seq(Parcels) /\ idx \in DOMAIN scene /\ idx \in Nat
      /\ DOMAIN scene = 1 .. Len(scene) /\ Len(scene) \in Nat
      /\ UNCHANGED <<now, rights, form, scene, arrived, held, lacked, outage>>
    <2>1. scene \in Seq(Parcels) /\ idx \in DOMAIN scene
        BY DEF ParcelAccess, TypeOK
    <2>2. /\ pc = "access" /\ Here # NotACoordinate
          /\ UNCHANGED <<now, rights, form, scene, arrived, held, lacked, outage>>
        BY DEF ParcelAccess, clock, history
    <2>3. outcome = "none" /\ Parsed /\ Signed(form)
        BY <2>2 DEF TypeOK, HandlerInv
    <2> QED  BY <2>1, <2>2, <2>3
<1>2. Parsed' /\ Signed(form)' /\ Needed' = Needed
    BY <1>1 DEF Parsed, Needed
<1>3. CASE Here \notin rights /\ Refuse("no-access") /\ UNCHANGED idx
    <2>1. pc' = "refused" /\ outcome' = "no-access" /\ idx' = idx
        BY <1>3 DEF Refuse
    <2>2. TypeOK'
        BY <1>1, <2>1 DEF TypeOK
    <2> QED  BY <1>1, <2>1, <2>2 DEF HandlerInv, Outcomes
<1>4. ASSUME Here \in rights
      PROVE  \A i \in DOMAIN scene : i <= idx => Coord[scene[i]] \in held
    BY <1>1, <1>4 DEF HandlerInv, Here
<1>5. CASE Here \in rights /\ idx < Len(scene) /\ idx' = idx + 1 /\ UNCHANGED <<pc, outcome>>
    <2>1. idx' \in DOMAIN scene
        BY <1>1, <1>5
    <2>2. TypeOK'
        BY <1>1, <1>5, <2>1 DEF TypeOK
    <2>3. \A i \in DOMAIN scene : i < idx' => Coord[scene[i]] \in held
        BY <1>1, <1>4, <1>5
    <2> QED  BY <1>1, <1>2, <1>5, <2>2, <2>3 DEF HandlerInv
<1>6. CASE Here \in rights /\ idx = Len(scene) /\ pc' = "admitted" /\ UNCHANGED <<outcome, idx>>
    <2>1. \A i \in DOMAIN scene : Coord[scene[i]] \in held
        BY <1>1, <1>4, <1>6
    <2>2. Needed \subseteq held
        BY <2>1 DEF Needed, Range
    <2>3. TypeOK'
        BY <1>1, <1>6 DEF TypeOK
    <2> QED  BY <1>1, <1>2, <1>6, <2>2, <2>3 DEF HandlerInv
<1> QED  BY <1>3, <1>5, <1>6 DEF ParcelAccess

LEMMA ErrorStep ==
    ASSUME TypeOK, HandlerInv, InvalidCoordinate \/ AccessError
    PROVE  TypeOK' /\ HandlerInv'
<1>1. /\ pc = "access" /\ pc' = "refused" /\ outcome' \in {"access-error", "panic"}
      /\ outage' \in BOOLEAN
      /\ UNCHANGED <<now, rights, form, scene, idx, arrived, held, lacked>>
    BY DEF InvalidCoordinate, AccessError, Refuse, TypeOK, clock, history
<1>2. TypeOK'
    BY <1>1 DEF TypeOK
<1> QED  BY <1>1, <1>2 DEF HandlerInv, Outcomes

\* The world around the request.
LEMMA OutsideStep ==
    ASSUME TypeOK, HandlerInv, Tick \/ \E c \in Coordinates : ChangeRights(c)
    PROVE  TypeOK' /\ HandlerInv'
<1>1. /\ UNCHANGED <<form, pc, outcome, scene, idx, arrived, outage>>
      /\ held \subseteq held' /\ held' \subseteq Coordinates
      /\ lacked \subseteq lacked' /\ lacked' \subseteq Coordinates
      /\ rights' \subseteq held' /\ Coordinates \ rights' \subseteq lacked'
      /\ pc \notin {"admitted", "refused"}
    BY DEF Tick, ChangeRights, Underway, TypeOK, HandlerInv, clock, history
<1>2. now' \in 0 .. MaxTime /\ arrived \in 0 .. now' /\ rights' \subseteq Coordinates
    BY HandlerAssumption DEF Tick, ChangeRights, TypeOK, HandlerInv
<1>3. TypeOK'
    BY <1>1, <1>2 DEF TypeOK
<1>4. Parsed => Parsed'
    BY <1>1 DEF Parsed
<1> QED  BY <1>1, <1>3, <1>4 DEF HandlerInv

LEMMA StepHandler == TypeOK /\ HandlerInv /\ [Next]_vars => TypeOK' /\ HandlerInv'
<1> SUFFICES ASSUME TypeOK, HandlerInv, [Next]_vars PROVE TypeOK' /\ HandlerInv'
    OBVIOUS
<1>1. CASE UNCHANGED vars
    BY <1>1 DEF vars, clock, history, TypeOK, HandlerInv, Parsed, Needed
<1> QED  BY <1>1, ParseStep, SignatureStep, AccessStep, ErrorStep, OutsideStep DEF Next

LEMMA HandlerInvariant == Spec => [](TypeOK /\ HandlerInv)
BY InitHandler, StepHandler, PTL DEF Spec

(***************************************************************************)
(* Every reachable state is well typed: the question to the access service *)
(* is always about a parcel of the scene, so no list of parcels, not even  *)
(* an empty one, takes the loop past its end.                              *)
(***************************************************************************)
THEOREM TypeCorrect == Spec => []TypeOK
BY HandlerInvariant, PTL

(***************************************************************************)
(* An admitted upload names at least one parcel, and only parcels its key  *)
(* had access to at some moment while it was served (validateKeyAccess).   *)
(***************************************************************************)
THEOREM AdmittedWithAccessHolds == Spec => []AdmittedWithAccess
<1>1. TypeOK /\ HandlerInv => AdmittedWithAccess
    BY DEF HandlerInv, Parsed, AdmittedWithAccess
<1> QED  BY <1>1, HandlerInvariant, PTL

(***************************************************************************)
(* The access service is asked only for requests that have passed every    *)
(* check of parseRequest and the signature check.                          *)
(***************************************************************************)
THEOREM AskedWellFormedHolds == Spec => []AskedWellFormed
<1>1. TypeOK /\ HandlerInv => AskedWellFormed
    BY DEF HandlerInv, Parsed, AskedWellFormed
<1> QED  BY <1>1, HandlerInvariant, PTL

-------------------------------------------------------------------------------
(***************************************************************************)
(* Refusals.                                                               *)
(***************************************************************************)

\* Only one answer of the access service ends a request for lack of access.
LEMMA NoAccessStep ==
    ASSUME TypeOK, HandlerInv, [Next]_vars, outcome' = "no-access"
    PROVE  \/ outcome = "no-access" /\ scene' = scene /\ lacked \subseteq lacked'
           \/ /\ scene' = scene /\ lacked' = lacked
              /\ pc = "access" /\ idx \in DOMAIN scene /\ Here \in lacked
<1>1. CASE ParseRequest
    <2>1. PICK part \in IF SceneParts(form) = {} THEN {NoPart} ELSE SceneParts(form) :
              LET checks == Checks(form, part)
                  Failed == {i \in DOMAIN checks : checks[i].failed}
              IN  \/ Failed # {} /\ outcome' = checks[Min(Failed)].name
                  \/ outcome' = outcome
        BY <1>1 DEF ParseRequest, Refuse
    <2>2. outcome = "none"
        BY <1>1 DEF ParseRequest, TypeOK
    <2> QED  BY <2>1, <2>2, RefusedFacts
<1>2. CASE ValidateSignature
    BY <1>2 DEF ValidateSignature, Refuse, history
<1>3. CASE ContractError
    BY <1>3 DEF ContractError, Refuse
<1>4. CASE ParcelAccess
    <2>1. /\ pc = "access" /\ outcome = "none" /\ idx \in DOMAIN scene
          /\ scene' = scene /\ lacked' = lacked
        BY <1>4 DEF ParcelAccess, TypeOK, history
    <2>2. Here \notin rights /\ Here # NotACoordinate
        BY <1>4, <2>1 DEF ParcelAccess, Refuse
    <2>3. Here \in Coordinates
        <3>1. scene[idx] \in Parcels
            BY <2>1 DEF TypeOK
        <3> QED  BY <2>2, <3>1, HandlerAssumption DEF Here
    <2> QED  BY <2>1, <2>2, <2>3 DEF HandlerInv
<1>5. CASE InvalidCoordinate
    BY <1>5 DEF InvalidCoordinate, Refuse
<1>6. CASE AccessError
    BY <1>6 DEF AccessError, Refuse
<1>7. CASE \E c \in Coordinates : ChangeRights(c)
    BY <1>7 DEF ChangeRights
<1>8. CASE Tick
    BY <1>8 DEF Tick, history
<1>9. CASE UNCHANGED vars
    BY <1>9 DEF vars, history
<1> QED  BY <1>1, <1>2, <1>3, <1>4, <1>5, <1>6, <1>7, <1>8, <1>9 DEF Next

(***************************************************************************)
(* A request is turned away as unauthorized only if its key lacked one of  *)
(* its parcels while it was served; a failure of the access service is     *)
(* never taken for that (validateKeyAccess, UploadContent).                *)
(***************************************************************************)
THEOREM RefusalJustifiedHolds == Spec => []RefusalJustified
<1> DEFINE Justified == outcome = "no-access" => Needed \cap lacked # {}
<1>1. Init => Justified
    BY DEF Init
<1>2. TypeOK /\ HandlerInv /\ Justified /\ [Next]_vars => Justified'
    <2> SUFFICES ASSUME TypeOK, HandlerInv, Justified, [Next]_vars, outcome' = "no-access"
                 PROVE  (Needed \cap lacked # {})'
        OBVIOUS
    <2>1. CASE outcome = "no-access" /\ scene' = scene /\ lacked \subseteq lacked'
        BY <2>1 DEF Needed
    <2>2. CASE scene' = scene /\ lacked' = lacked /\ idx \in DOMAIN scene /\ Here \in lacked
        BY <2>2 DEF Needed, Here, Range
    <2> QED  BY <2>1, <2>2, NoAccessStep
<1>3. Justified => RefusalJustified
    BY StatusFacts DEF RefusalJustified
<1> QED  BY <1>1, <1>2, <1>3, HandlerInvariant, PTL DEF Spec

\* The hypotheses of HonestAdmitted: no fault of the request, of the key or
\* of a service.
Faultless ==
    /\ WellFormed(form) /\ Signed(form) /\ SceneParts(form) # {}
    /\ \A part \in SceneParts(form) :
          /\ part.kind = "scene" /\ Fits(form, part.parcels)
          /\ \A p \in Range(part.parcels) : Coord[p] \in Coordinates \ lacked
    /\ ~ outage

\* Of a faultless request only the age can be found wanting.
LEMMA FaultlessParse ==
    ASSUME TypeOK, HandlerInv, Faultless, ParseRequest, pc' = "refused"
    PROVE  outcome' = "expired" /\ now > form.timestamp + TTL
<1>1. form \in Forms
    BY DEF HandlerInv
<1>2. PICK part \in SceneParts(form) :
          LET checks == Checks(form, part)
              Failed == {i \in DOMAIN checks : checks[i].failed}
          IN  Failed # {} /\ outcome' = checks[Min(Failed)].name
    BY DEF ParseRequest, Faultless, Refuse
<1> DEFINE failed(i) == Checks(form, part)[i].failed
           Failed == {i \in DOMAIN Checks(form, part) : failed(i)}
<1>3. part \in form.parts /\ part.kind = "scene" /\ Fits(form, part.parcels)
    BY <1>2 DEF Faultless, SceneParts
<1>4. /\ ~ failed(1) /\ ~ failed(2) /\ ~ failed(3) /\ ~ failed(5) /\ ~ failed(6)
      /\ ~ failed(7) /\ ~ failed(10) /\ ~ failed(11)
    BY <1>3, CheckFacts DEF Faultless, WellFormed
<1>5. ~ failed(8)
    BY CheckFacts DEF Faultless, WellFormed, ValidateContentTypes
<1>6. ~ failed(9)
    <2>1. Cardinality(form.parts) \in Nat /\ form.entries \in Nat
        BY <1>1, FormFacts, FS_CardinalityType
    <2> QED  BY <2>1, CheckFacts DEF Faultless, WellFormed
<1>7. ~ failed(12)
    <2>1. Len(part.parcels) \in Nat /\ form.entries \in Nat
        BY <1>1, <1>3, FormFacts
    <2> QED  BY <1>3, <2>1, CheckFacts, HandlerAssumption DEF Fits
<1>8. /\ Min(Failed) \in 1 .. 12 /\ failed(Min(Failed))
      /\ outcome' = Checks(form, part)[Min(Failed)].name
    BY <1>2, RefusedFacts
<1>9. Min(Failed) = 4
    <2> DEFINE m == Min(Failed)
    <2> HIDE DEF m
    <2>1. m \in 1 .. 12 /\ failed(m)
        BY <1>8 DEF m
    <2> QED  BY <1>4, <1>5, <1>6, <1>7, <2>1 DEF m
<1>10. HasRequestExpired(form) /\ outcome' = "expired"
    BY <1>8, <1>9, CheckFacts, CheckNames
<1> QED  BY <1>1, <1>10, FormFacts, HandlerAssumption DEF HasRequestExpired, TypeOK

\* What the world does never makes a faulty request faultless.
LEMMA FaultlessBefore ==
    ASSUME TypeOK, HandlerInv, [Next]_vars, Faultless'
    PROVE  Faultless /\ form' = form
<1>1. form' = form /\ lacked \subseteq lacked' /\ (outage => outage')
    BY DEF Next, vars, clock, history, ParseRequest, ValidateSignature, ContractError, ParcelAccess,
           InvalidCoordinate, AccessError, ChangeRights, Tick
<1>2. WellFormed(form) /\ Signed(form) /\ SceneParts(form) # {} /\ ~ outage
    BY <1>1 DEF Faultless
<1>3. \A part \in SceneParts(form) :
          /\ part.kind = "scene" /\ Fits(form, part.parcels)
          /\ \A p \in Range(part.parcels) : Coord[p] \in Coordinates \ lacked
    BY <1>1 DEF Faultless
<1> QED  BY <1>1, <1>2, <1>3 DEF Faultless

\* The parcel the service is asked about is one the key never lacked.
LEMMA FaultlessHere ==
    ASSUME TypeOK, HandlerInv, Faultless, pc = "access"
    PROVE  Here \in Coordinates \ lacked /\ Here \in rights /\ Here # NotACoordinate
<1>1. PICK part \in form.parts : part.kind = "scene" /\ part.parcels = scene
    BY DEF HandlerInv, Parsed
<1>2. part \in SceneParts(form)
    BY <1>1 DEF SceneParts
<1>3. scene[idx] \in Range(scene)
    BY DEF TypeOK, Range
<1>4. Here \in Coordinates \ lacked
    BY <1>1, <1>2, <1>3 DEF Faultless, Here
<1> QED  BY <1>4, HandlerAssumption DEF HandlerInv

\* How a faultless request may come to be refused.
LEMMA FaultlessStep ==
    ASSUME TypeOK, HandlerInv, Faultless, ~ outage', [Next]_vars, pc' = "refused"
    PROVE  \/ pc = "refused" /\ UNCHANGED <<outcome, now>>
           \/ ParseRequest /\ now' = now
<1>1. CASE ParseRequest
    BY <1>1 DEF ParseRequest, clock
<1>2. CASE ValidateSignature
    BY <1>2 DEF ValidateSignature, Faultless, Signed
<1>3. CASE ParcelAccess
    BY <1>3, FaultlessHere DEF ParcelAccess
<1>4. CASE InvalidCoordinate
    BY <1>4, FaultlessHere DEF InvalidCoordinate
<1>5. CASE ContractError \/ AccessError
    BY <1>5 DEF ContractError, AccessError
<1>6. CASE Tick \/ \E c \in Coordinates : ChangeRights(c)
    BY <1>6 DEF Tick, ChangeRights, Underway
<1>7. CASE UNCHANGED vars
    BY <1>7 DEF vars, clock
<1> QED  BY <1>1, <1>2, <1>3, <1>4, <1>5, <1>6, <1>7 DEF Next

(***************************************************************************)
(* A request without a fault of its own, whose key has access throughout   *)
(* and that meets no failure of a service, is not refused, whichever of    *)
(* its scene.json parts is found first; if it is refused then for its age. *)
(***************************************************************************)
THEOREM HonestAdmittedHolds == Spec => []HonestAdmitted
<1> DEFINE Aged == outcome = "expired" /\ now > form.timestamp + TTL
           Honest == Faultless /\ pc = "refused" => Aged
<1>1. Init => Honest
    BY DEF Init
<1>2. TypeOK /\ HandlerInv /\ Honest /\ [Next]_vars => Honest'
    <2> SUFFICES ASSUME TypeOK, HandlerInv, Honest, [Next]_vars, Faultless', pc' = "refused"
                 PROVE  Aged'
        OBVIOUS
    <2>1. Faultless /\ form' = form /\ ~ outage'
        BY FaultlessBefore DEF Faultless
    <2>2. CASE pc = "refused" /\ UNCHANGED <<outcome, now>>
        BY <2>1, <2>2
    <2>3. CASE ParseRequest /\ now' = now
        BY <2>1, <2>3, FaultlessParse
    <2> QED  BY <2>1, <2>2, <2>3, FaultlessStep
<1>3. Honest => HonestAdmitted
    BY DEF HonestAdmitted, Faultless
<1> QED  BY <1>1, <1>2, <1>3, HandlerInvariant, PTL DEF Spec
===============================================================================
