------------------------------ MODULE ParcelRect ------------------------------
(***************************************************************************)
(* From the query of /scenes or /mappings to the parcels it asks for:      *)
(* RectToParcels, with Go's int arithmetic, which wraps around, and the    *)
(* parsing of the coordinates.                                             *)
(***************************************************************************)
EXTENDS Integers, FiniteSets

CONSTANTS
    MaxInt,         \* the largest int (2^63 - 1 in the code, or 2^31 - 1)
    Bound,          \* /scenes takes coordinates in -Bound .. Bound (150)
    MaxParcels,     \* parcels a request may ask for (200)
    Coordinates     \* the coordinates tried

MachineInt == -MaxInt - 1 .. MaxInt

\* The largest rectangle within Bound has a size that is an int.
ASSUME RectAssumption ==
    /\ MaxInt \in Nat /\ Bound \in Nat /\ MaxParcels \in Nat
    /\ Coordinates \subseteq MachineInt
    /\ (2 * Bound + 1) * (2 * Bound + 1) <= MaxInt

VARIABLES
    endpoint,       \* "scenes" or "mappings"
    corners,        \* the two corners in the query
    reply           \* what the request comes to

vars == <<endpoint, corners, reply>>

Corners == [x1 : Coordinates, y1 : Coordinates, x2 : Coordinates, y2 : Coordinates]

\* A list of parcels, by its columns and rows.
NoParcels == [xs |-> {}, ys |-> {}]
None    == [status |-> "none", parcels |-> NoParcels]
Invalid == [status |-> "invalid", parcels |-> NoParcels]
TooMany == [status |-> "toomany", parcels |-> NoParcels]
Panic   == [status |-> "panic", parcels |-> NoParcels]
Listed(xs, ys) == [status |-> "ok", parcels |-> [xs |-> xs, ys |-> ys]]

Wrap(n) == ((n + MaxInt + 1) % (2 * (MaxInt + 1))) - (MaxInt + 1)

Lesser(a, b)  == IF a < b THEN a ELSE b
Greater(a, b) == IF a < b THEN b ELSE a

\* for v := from; v < to + 1; v++
Loop(from, to) == from .. Wrap(to + 1) - 1

\* Mutant: the distance of the corners is taken for the side.
RectSizeShort(x1, y1, x2, y2) == Wrap(Wrap(x2 - x1) * Wrap(y2 - y1))

RectSize(x1, y1, x2, y2) == Wrap(Wrap(x2 - x1 + 1) * Wrap(y2 - y1 + 1))

Listing(x1, y1, x2, y2) ==
    LET size == RectSize(x1, y1, x2, y2)
    IN  IF size > MaxParcels THEN TooMany
        ELSE IF size < 0 THEN Panic      \* make with a negative capacity
        ELSE Listed(Loop(x1, x2), Loop(y1, y2))

\* Mutant: the corners of the second axis are not put in order.
RectToParcelsUnordered(c) ==
    Listing(Lesser(c.x1, c.x2), c.y1, Greater(c.x1, c.x2), c.y2)

RectToParcels(c) ==
    Listing(Lesser(c.x1, c.x2), Lesser(c.y1, c.y2), Greater(c.x1, c.x2), Greater(c.y1, c.y2))

\* Both coordinates come from the first token; the second is not looked at.
ParseCoordinates(x, y) == <<x, x>>

InBound(v) == v \in -Bound .. Bound

Init ==
    /\ endpoint \in {"scenes", "mappings"}
    /\ corners \in Corners
    /\ reply = None

GetScenes ==
    /\ endpoint = "scenes" /\ reply = None
    /\ reply' = IF \A f \in DOMAIN corners : InBound(corners[f])
                THEN RectToParcels(corners) ELSE Invalid
    /\ UNCHANGED <<endpoint, corners>>

GetMappings ==
    /\ endpoint = "mappings" /\ reply = None
    /\ LET nw == ParseCoordinates(corners.x1, corners.y1)
           se == ParseCoordinates(corners.x2, corners.y2)
       IN  reply' = RectToParcels([x1 |-> nw[1], y1 |-> nw[2], x2 |-> se[1], y2 |-> se[2]])
    /\ UNCHANGED <<endpoint, corners>>

Next == GetScenes \/ GetMappings
Spec == Init /\ [][Next]_vars

-------------------------------------------------------------------------------

Between(a, b) == Lesser(a, b) .. Greater(a, b)

\* The rectangle with these corners, whichever two opposite ones they are.
Columns == Between(corners.x1, corners.x2)
Rows    == Between(corners.y1, corners.y2)
AreaSize == Cardinality(Columns) * Cardinality(Rows)

AnswersArea ==
    reply = IF AreaSize > MaxParcels THEN TooMany ELSE Listed(Columns, Rows)

(***************************************************************************)
(* A /scenes request is refused for its coordinates, refused for its size, *)
(* or answered with exactly the parcels of the rectangle: within the       *)
(* bounds on its coordinates no arithmetic of RectToParcels overflows.     *)
(***************************************************************************)
ScenesArea ==
    endpoint = "scenes" /\ reply # None =>
        IF \A f \in DOMAIN corners : InBound(corners[f]) THEN AnswersArea ELSE reply = Invalid

\* The corners the parsing of /mappings takes for what they are.
Diagonal == corners.x1 = corners.y1 /\ corners.x2 = corners.y2

\* Neither the size of the rectangle nor the end of a loop wraps around.
Fits == AreaSize <= MaxInt /\ MaxInt \notin Columns \cup Rows

(***************************************************************************)
(* docs/APIDOC.md:124: /mappings answers for the area delimited by the two *)
(* coordinates, or refuses it for its size.  It does not bound coordinates *)
(* as /scenes does, so this needs a rectangle whose size is an int that    *)
(* ends before the largest int - anywhere else, near the smallest int too, *)
(* the answer is exact - and corners on the diagonal, because of           *)
(* parseCoordinates.                                                       *)
(***************************************************************************)
MappingsArea ==
    endpoint = "mappings" /\ reply # None /\ Diagonal /\ Fits => AnswersArea
===============================================================================
