---------------------------- MODULE MCUploadHandler ----------------------------
(***************************************************************************)
(* Scenes of one or two parcels, in one of two spellings, listed twice, or *)
(* not parcels at all; requests without a fault, with one, and with two,   *)
(* some with two scene.json parts.  Two entries are allowed per parcel.    *)
(***************************************************************************)
EXTENDS UploadHandler, TLC

MCCoord == "1,2" :> "A" @@ "01,2" :> "A" @@ "1,3" :> "B" @@ "1" :> "nowhere"

ScenePart(name, parcels) ==
    [name |-> name, allowed |-> TRUE, kind |-> "scene", parcels |-> parcels]
Other(name) == [NoPart EXCEPT !.name = name]
Broken(name) == [NoPart EXCEPT !.name = name, !.kind = "broken"]
Forbidden(name) == [NoPart EXCEPT !.name = name, !.allowed = FALSE]

Base(parcels) ==
    [multipart |-> TRUE, metadata |-> "ok", timestamp |-> 1, manifest |-> "ok",
     entries |-> 2, parts |-> {ScenePart("Qm1", parcels)}, signature |-> "valid"]

Variants(f) ==
    {[f EXCEPT !.multipart = FALSE]}
    \cup {[f EXCEPT !.metadata = m] : m \in {"missing", "malformed"}}
    \cup {[f EXCEPT !.timestamp = t] : t \in {0, 3}}
    \cup {[f EXCEPT !.manifest = m] : m \in {"missing", "null", "malformed"}}
    \cup {[f EXCEPT !.entries = n] : n \in {1, 4, 5}}
    \cup {[f EXCEPT !.parts = @ \cup {p}] :
            p \in {Other("Qm2"), Other("Qm3"), Forbidden("Qm4"), Broken("Qm5"),
                   ScenePart("Qm6", <<"1,3">>)}}
    \cup {[f EXCEPT !.parts = {Other("Qm2")}]}
    \cup {[f EXCEPT !.signature = s] :
            s \in {"invalid", "truncated", "contract", "refused-by-contract"}}

Good == {Base(s) : s \in {<<"1,2", "1,3">>, <<"01,2", "1,3">>, <<"1,2", "1,2">>}}

MCForms ==
    Good \cup {Base(s) : s \in {<<>>, <<"1,2">>, <<"1,2", "1">>}}
         \cup UNION {Variants(f) : f \in Good}
         \cup UNION {Variants(f) : f \in Variants(Base(<<"1,2", "1,3">>))}
===============================================================================
