---------------------------- MODULE MCParcelReader ----------------------------
(***************************************************************************)
(* Two uploads and one request: for two parcels, for the CIDs of a root    *)
(* and of a scene, or for the metadata of a parcel.                        *)
(***************************************************************************)
EXTENDS ParcelReader, TLC

CONSTANTS u1, u2, r1, r2, p1, p2, p3, cA, cB

MCRoots == {r1, r2}
MCParcels == {p1, p2, p3}
MCCids == {cA, cB}
MCNames == {"scene.json", "model"}
MCDirs == {}
MCSceneNames == {"scene.json"}

File(n, c) == [name |-> n, cid |-> c]

First == [root |-> r1, scene |-> <<p1, p2>>, parts |-> {cA},
          manifest |-> <<File("scene.json", cA)>>]
Second == [root |-> r2, scene |-> <<p2, p3>>, parts |-> {cA, cB},
           manifest |-> <<File("scene.json", cB), File("model", cA)>>]

MCRequests == {First, Second}

AreaQueries == {[kind |-> "mappings", keys |-> <<p1, p2>>],
                [kind |-> "validate", keys |-> <<p2>>]}
InfoQueries == {[kind |-> "parcel_info", keys |-> <<r1, cB>>],
                [kind |-> "parcel_info", keys |-> <<cA, r1>>]}
MCQueries == AreaQueries \cup InfoQueries

UploadSymmetry == Permutations(Uploads)
===============================================================================
