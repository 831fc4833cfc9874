------------------------------- MODULE SceneMap -------------------------------
(***************************************************************************)
(* What the index of scenes promises to /scenes: every root CID lists the  *)
(* parcels of its scene, and no parcel is listed by two scenes             *)
(* (data/redis.go:186-193).  A scene disappears as a whole, and a scene is *)
(* added only once nothing else lists any of its parcels.                  *)
(***************************************************************************)
EXTENDS Naturals

CONSTANTS Roots, Parcels

VARIABLE live       \* live[r]: the parcels root r lists, {} when r has no scene

SMInit == live = [r \in Roots |-> {}]

\* The scene of r is retired because its parcels are being taken over.
Evict(r) ==
    /\ live[r] # {}
    /\ live' = [live EXCEPT ![r] = {}]

\* Root r takes the parcels S, none of which anything lists.
Install(r, S) ==
    /\ S # {}
    /\ \A other \in Roots : live[other] \cap S = {}
    /\ live' = [live EXCEPT ![r] = @ \cup S]

SMNext ==
    \E r \in Roots :
        \/ Evict(r)
        \/ \E S \in SUBSET Parcels : Install(r, S)

SMSpec == SMInit /\ [][SMNext]_live

SMTypeOK == live \in [Roots -> SUBSET Parcels]

\* No parcel belongs to two live scenes.
Disjoint ==
    \A r, s \in Roots : r # s => live[r] \cap live[s] = {}
===============================================================================
