----------------------------- MODULE MCReplication -----------------------------
(***************************************************************************)
(* Two scenes that share a parcel and a CID, of two files and of one, and  *)
(* two runs, at once or one after the other.  Square has its corners on    *)
(* the diagonal and gets both parcels.  Column asks for both and gets the  *)
(* first only: the second coordinates are not looked at.                   *)
(***************************************************************************)
EXTENDS Replication, TLC

CONSTANTS k1, k2, r1, r2, c1, c2, None

p1 == [x |-> 0, y |-> 0]
p2 == [x |-> 0, y |-> 1]
MCParcels == {p1, p2}

Square == [x1 |-> 0, y1 |-> 0, x2 |-> 1, y2 |-> 1]
Column == [x1 |-> 0, y1 |-> 0, x2 |-> 0, y2 |-> 1]
MCCorners == {Square, Column}

MCScene == r1 :> {p1, p2} @@ r2 :> {p2}
MCManifest ==
    r1 :> ("scene.json" :> c1 @@ "model" :> c2) @@
    r2 :> ("scene.json" :> c2 @@ "model" :> None)

Symmetry == Permutations(Runs)
===============================================================================
