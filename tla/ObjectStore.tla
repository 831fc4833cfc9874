------------------------------ MODULE ObjectStore ------------------------------
(***************************************************************************)
(* What the uploads take a content storage to be: a set of objects that    *)
(* grows.  The one exception is an object that is saved again: while it is *)
(* being rewritten, and after a save that failed, it may be missing.       *)
(***************************************************************************)
CONSTANT Cids

VARIABLES
    objects,        \* the CIDs whose object is whole
    rewritten       \* the CIDs that have been saved more than once

OSInit == objects = {} /\ rewritten = {}

Add(c) == objects' = objects \cup {c}
Lose(c) == c \in rewritten' /\ objects' = objects \ {c}

OSNext ==
    /\ rewritten \subseteq rewritten'
    /\ \/ \E c \in Cids : Add(c) \/ Lose(c)
       \/ UNCHANGED objects

OSSpec == OSInit /\ [][OSNext]_<<objects, rewritten>>
===============================================================================
