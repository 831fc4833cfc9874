--------------------------- MODULE MCContentStorage ---------------------------
(***************************************************************************)
(* Three calls that save and one that reads, two objects.  The object      *)
(* "scene" is two pieces long and "model" one; a stray part named "model"  *)
(* holds something else, and is longer.                                    *)
(***************************************************************************)
EXTENDS ContentStorage, TLC

CONSTANTS s1, s2, s3, r1, End, Zeros, Missing, Nobody

MCContent ==
    "scene" :> <<"a", "b">> @@ "model" :> <<"c", End>>

Honest(c) == [name |-> c, body |-> MCContent[c]]

MCSaveCalls ==
    {Honest("scene"), Honest("model"), [name |-> "model", body |-> <<"c", "d">>]}

MCReadCalls == [name : {"scene", "model"}, for : {"upload", "client"}]

Symmetry == Permutations(Saves)
===============================================================================
