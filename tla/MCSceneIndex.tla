----------------------------- MODULE MCSceneIndex -----------------------------
(***************************************************************************)
(* Small instances of SceneIndex.  The requests are: scene r1 on p1 and    *)
(* p2; the same scene again, leaving a file to the storage; scene r2,      *)
(* which shares p2 with r1; r3, which has the scene.json of r1 but not its *)
(* other file; and root r1 for p1 only, with a manifest that has no path   *)
(* with "scene.json".                                                      *)
(***************************************************************************)
EXTENDS SceneIndex, TLC

CONSTANTS u1, u2, u3, r1, r2, r3, p1, p2, p3, cA, cB, cX, cD

MCRoots == {r1, r2, r3}
MCParcels == {p1, p2, p3}
MCCids == {cA, cB, cX, cD}
MCNames == {"scene.json", "model", "assets/"}
MCDirs == {"assets/"}
MCSceneNames == {"scene.json"}

File(n, c) == [name |-> n, cid |-> c]

Full == [root |-> r1, scene |-> <<p1, p2>>, parts |-> {cA, cX},
         manifest |-> <<File("model", cX), File("scene.json", cA),
                        File("assets/", cD)>>]
Again == [Full EXCEPT !.parts = {cA}]
Neighbour == [root |-> r2, scene |-> <<p2, p3>>, parts |-> {cB},
              manifest |-> <<File("scene.json", cB)>>]
Sibling == [root |-> r3, scene |-> <<p1, p2>>, parts |-> {cA},
            manifest |-> <<File("scene.json", cA)>>]

Bare == [root |-> r1, scene |-> <<p1>>, parts |-> {cX},
         manifest |-> <<File("model", cX)>>]

AllRequests == {Full, Again, Neighbour, Sibling}
CrowdRequests == {Neighbour, Sibling, Bare}
SafetyRequests == {Again, Neighbour, Bare}
PairRequests == {Full, Neighbour}

UploadSymmetry == Permutations(Uploads)
===============================================================================
