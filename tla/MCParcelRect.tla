----------------------------- MODULE MCParcelRect -----------------------------
(***************************************************************************)
(* Coordinates around the bound of /scenes, and both ends of the integers: *)
(* rectangles that just fit in them, that end at the largest one, and that *)
(* wrap around.                                                            *)
(***************************************************************************)
EXTENDS ParcelRect

MCCoordinates == -5 .. 5 \cup {-256, -255, -242, -241, 241, 250, 254, 255}
===============================================================================
