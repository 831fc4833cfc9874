---------------------------- MODULE MCScenesReader ----------------------------
(***************************************************************************)
(* Two uploads and one request for an area that has a parcel of each       *)
(* scene, or one parcel only.                                              *)
(***************************************************************************)
EXTENDS ScenesReader, TLC

CONSTANTS u1, u2, r1, r2, p1, p2, p3, cA, cB

MCRoots == {r1, r2}
MCParcels == {p1, p2, p3}
MCCids == {cA, cB}
MCNames == {"scene.json", "model"}
MCDirs == {}
MCSceneNames == {"scene.json"}
MCAreas == {<<p1, p3>>, <<p2>>}

File(n, c) == [name |-> n, cid |-> c]

First == [root |-> r1, scene |-> <<p1, p2>>, parts |-> {cA},
          manifest |-> <<File("scene.json", cA)>>]
\* The root of First on its second parcel only.
Smaller == [First EXCEPT !.scene = <<p2>>]
\* Two files with different contents.
Pair == [root |-> r2, scene |-> <<p2, p3>>, parts |-> {cA, cB},
         manifest |-> <<File("scene.json", cB), File("model", cA)>>]

MixedRequests == {First, Smaller, Pair}

UploadSymmetry == Permutations(Uploads)
===============================================================================
