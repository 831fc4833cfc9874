-------------------------- MODULE MCContentValidation --------------------------
(***************************************************************************)
(* Requests that claim the root of {a: x, b: y}: one that describes it and *)
(* takes b from the storage, one that leaves b out, one with a malformed   *)
(* CID, one that is too large; one for the root of {a: x} whose part is    *)
(* not what its name says; and one that claims no CID at all.              *)
(***************************************************************************)
EXTENDS ContentValidation, TLC

CONSTANTS u1, u2, u3, NoCid

MCContents == {"x", "y"}
MCNames == {"a", "b", "d/"}
MCSize == ("x" :> 1) @@ ("y" :> 2)

Entry(n, c) == [name |-> n, cid |-> c]
RootXY == [n \in MCNames |-> CASE n = "a" -> "x" [] n = "b" -> "y" [] OTHER -> NoFile]
RootX == [n \in MCNames |-> IF n = "a" THEN "x" ELSE NoFile]

Good == [root |-> RootXY, parcels |-> 1,
         manifest |-> <<Entry("a", "x"), Entry("d/", "x"), Entry("b", "y")>>,
         parts |-> ("x" :> "x")]
Short == [Good EXCEPT !.manifest = <<Entry("a", "x")>>]
BadCid == [Good EXCEPT !.manifest = <<Entry("a", "x"), Entry("b", NoCid)>>,
                       !.parts = ("x" :> "x") @@ (NoCid :> "y")]
TooLarge == [Good EXCEPT !.manifest = <<Entry("a", "y"), Entry("b", "y")>>]
Mislabelled == [Good EXCEPT !.root = RootX, !.manifest = <<Entry("a", "y")>>,
                            !.parts = ("y" :> "x")]
BadRoot == [Good EXCEPT !.root = NoCid]

MCRequests == {Good, Short, BadCid, TooLarge, Mislabelled, BadRoot}
SharingRequests == {Good, Short}

UploadSymmetry == Permutations(Uploads)
===============================================================================
