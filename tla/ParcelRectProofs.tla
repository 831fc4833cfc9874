--------------------------- MODULE ParcelRectProofs ---------------------------
(***************************************************************************)
(* Theorems about ParcelRect for ints of any width and coordinates         *)
(* anywhere in them.                                                       *)
(***************************************************************************)
EXTENDS ParcelRect, FiniteSetTheorems, TLAPS

(***************************************************************************)
(* Arithmetic.                                                             *)
(***************************************************************************)

\* An int is itself.
LEMMA WrapIsExact ==
    ASSUME NEW n \in MachineInt
    PROVE  Wrap(n) = n
<1> DEFINE k == 2 * (MaxInt + 1)
           m == n + MaxInt + 1
<1>1. k \in Nat /\ m \in Nat /\ m < k /\ k > 0 /\ MaxInt \in Nat /\ n \in Int
    BY RectAssumption DEF MachineInt
<1>2. m % k = m
    <2> HIDE DEF k, m
    <2> QED  BY <1>1
<1> QED  BY <1>1, <1>2 DEF Wrap

LEMMA ProductBounds ==
    ASSUME NEW a \in Nat, NEW b \in Nat, a >= 1, b >= 1
    PROVE  a * b \in Nat /\ a <= a * b /\ b <= a * b
<1>1. a * b \in Nat
    OBVIOUS
<1>2. a * (b - 1) >= 0 /\ a * b = a * (b - 1) + a
    OBVIOUS
<1>3. b * (a - 1) >= 0 /\ a * b = b * (a - 1) + b
    OBVIOUS
<1> QED  BY <1>1, <1>2, <1>3

LEMMA ProductGrows ==
    ASSUME NEW m \in Nat, NEW a \in 0 .. m, NEW b \in 0 .. m
    PROVE  a * b <= m * m
<1>1. a * b <= m * b
    <2>1. (m - a) * b >= 0 /\ m * b = a * b + (m - a) * b
        OBVIOUS
    <2> QED  BY <2>1
<1>2. m * b <= m * m
    <2>1. m * (m - b) >= 0 /\ m * m = m * b + m * (m - b)
        OBVIOUS
    <2> QED  BY <2>1
<1> QED  BY <1>1, <1>2

(***************************************************************************)
(* RectToParcels lists the rectangle if its size is an int and it ends     *)
(* before the largest one.                                                 *)
(***************************************************************************)
LEMMA ListingIsExact ==
    ASSUME NEW x1 \in MachineInt, NEW x2 \in MachineInt, NEW y1 \in MachineInt,
           NEW y2 \in MachineInt, x1 <= x2, y1 <= y2, x2 < MaxInt, y2 < MaxInt,
           (x2 - x1 + 1) * (y2 - y1 + 1) <= MaxInt
    PROVE  Listing(x1, y1, x2, y2) =
               IF (x2 - x1 + 1) * (y2 - y1 + 1) > MaxParcels THEN TooMany
               ELSE Listed(x1 .. x2, y1 .. y2)
<1> DEFINE a == x2 - x1 + 1
           b == y2 - y1 + 1
<1>1. /\ MaxInt \in Nat /\ MaxParcels \in Nat
      /\ x1 \in Int /\ x2 \in Int /\ y1 \in Int /\ y2 \in Int
    BY RectAssumption DEF MachineInt
<1>2. a \in Nat /\ b \in Nat /\ a >= 1 /\ b >= 1
    BY <1>1
<1>3. a * b \in Nat /\ a <= a * b /\ b <= a * b /\ a * b <= MaxInt
    <2>1. a * b <= MaxInt
        OBVIOUS
    <2> HIDE DEF a, b
    <2> QED  BY <1>2, <2>1, ProductBounds
<1>4. Wrap(a) = a /\ Wrap(b) = b /\ Wrap(a * b) = a * b
    <2> HIDE DEF a, b
    <2>1. a \in MachineInt /\ b \in MachineInt /\ a * b \in MachineInt
        BY <1>1, <1>2, <1>3 DEF MachineInt
    <2> QED  BY <2>1, WrapIsExact
<1>5. RectSize(x1, y1, x2, y2) = a * b
    BY <1>4 DEF RectSize
<1>6. Loop(x1, x2) = x1 .. x2 /\ Loop(y1, y2) = y1 .. y2
    <2>1. x2 + 1 \in MachineInt /\ y2 + 1 \in MachineInt
        BY <1>1 DEF MachineInt
    <2>2. Wrap(x2 + 1) - 1 = x2 /\ Wrap(y2 + 1) - 1 = y2
        BY <1>1, <2>1, WrapIsExact
    <2> QED  BY <2>2 DEF Loop
<1> HIDE DEF a, b
<1>7. ~ (a * b < 0)
    BY <1>3
<1>8. Listing(x1, y1, x2, y2) = IF a * b > MaxParcels THEN TooMany ELSE Listed(x1 .. x2, y1 .. y2)
    BY <1>5, <1>6, <1>7 DEF Listing
<1> QED  BY <1>8 DEF a, b

\* The corners of a query, in order.
LEMMA OrderFacts ==
    ASSUME NEW v \in MachineInt, NEW w \in MachineInt
    PROVE  /\ Lesser(v, w) \in MachineInt /\ Greater(v, w) \in MachineInt
           /\ Lesser(v, w) <= Greater(v, w)
           /\ Greater(v, w) \in Between(v, w)
           /\ Cardinality(Between(v, w)) = Greater(v, w) - Lesser(v, w) + 1
<1>1. /\ Lesser(v, w) \in Int /\ Greater(v, w) \in Int /\ Lesser(v, w) <= Greater(v, w)
      /\ Lesser(v, w) \in MachineInt /\ Greater(v, w) \in MachineInt
    BY RectAssumption DEF Lesser, Greater, MachineInt
<1>2. Cardinality(Lesser(v, w) .. Greater(v, w)) = Greater(v, w) - Lesser(v, w) + 1
    BY <1>1, FS_Interval
<1> QED  BY <1>1, <1>2 DEF Between

(***************************************************************************)
(* The two endpoints.                                                      *)
(***************************************************************************)

\* A query does not change, and is answered at most once.
Answered ==
    /\ endpoint \in {"scenes", "mappings"}
    /\ corners \in Corners
    /\ \/ reply = None
       \/ endpoint = "scenes" /\ ScenesArea
       \/ endpoint = "mappings" /\ MappingsArea

\* RectToParcels on corners with these sides.
LEMMA RectangleIsExact ==
    ASSUME NEW c \in Corners,
           Greater(c.x1, c.x2) < MaxInt, Greater(c.y1, c.y2) < MaxInt,
           Cardinality(Between(c.x1, c.x2)) * Cardinality(Between(c.y1, c.y2)) <= MaxInt
    PROVE  RectToParcels(c) =
               IF Cardinality(Between(c.x1, c.x2)) * Cardinality(Between(c.y1, c.y2)) > MaxParcels
               THEN TooMany ELSE Listed(Between(c.x1, c.x2), Between(c.y1, c.y2))
<1>1. c.x1 \in MachineInt /\ c.x2 \in MachineInt /\ c.y1 \in MachineInt /\ c.y2 \in MachineInt
    BY RectAssumption DEF Corners
<1> DEFINE a == Lesser(c.x1, c.x2)
           b == Greater(c.x1, c.x2)
           d == Lesser(c.y1, c.y2)
           e == Greater(c.y1, c.y2)
<1>2. /\ a \in MachineInt /\ b \in MachineInt /\ a <= b
      /\ Cardinality(Between(c.x1, c.x2)) = b - a + 1
    BY <1>1, OrderFacts
<1>3. /\ d \in MachineInt /\ e \in MachineInt /\ d <= e
      /\ Cardinality(Between(c.y1, c.y2)) = e - d + 1
    BY <1>1, OrderFacts
<1>4. Between(c.x1, c.x2) = a .. b /\ Between(c.y1, c.y2) = d .. e
    BY DEF Between
<1>5. RectToParcels(c) = Listing(a, d, b, e)
    BY DEF RectToParcels
<1>6. b < MaxInt /\ e < MaxInt /\ (b - a + 1) * (e - d + 1) <= MaxInt
    BY <1>2, <1>3
<1> HIDE DEF a, b, d, e
<1> QED  BY <1>2, <1>3, <1>4, <1>5, <1>6, ListingIsExact

\* Coordinates within the bound span a rectangle whose size is an int.
LEMMA BoundedFits ==
    ASSUME NEW v \in MachineInt, NEW w \in MachineInt, InBound(v), InBound(w)
    PROVE  /\ Greater(v, w) <= Bound
           /\ Cardinality(Between(v, w)) \in 0 .. 2 * Bound + 1
<1>1. Cardinality(Between(v, w)) = Greater(v, w) - Lesser(v, w) + 1
    BY OrderFacts
<1> QED  BY <1>1, RectAssumption DEF InBound, Greater, Lesser, MachineInt

\* The bound itself is below the largest int.
LEMMA BoundBelow == Bound < MaxInt
<1>1. Bound \in Nat /\ MaxInt \in Nat /\ (2 * Bound + 1) * (2 * Bound + 1) <= MaxInt
    BY RectAssumption
<1>2. (2 * Bound + 1) * (2 * Bound + 1) = 4 * (Bound * Bound) + 4 * Bound + 1
      /\ Bound * Bound >= 0
    BY <1>1
<1> QED  BY <1>1, <1>2

\* The answer of /scenes.
LEMMA GetScenesAnswers ==
    ASSUME Answered, GetScenes PROVE ScenesArea'
<1>1. endpoint' = endpoint /\ corners' = corners /\ corners \in Corners /\ endpoint = "scenes"
    BY DEF Answered, GetScenes
<1>2. CASE \A f \in DOMAIN corners : InBound(corners[f])
    <2> DEFINE w == Cardinality(Columns)
               h == Cardinality(Rows)
    <2>1. /\ corners.x1 \in MachineInt /\ corners.x2 \in MachineInt
          /\ corners.y1 \in MachineInt /\ corners.y2 \in MachineInt
          /\ InBound(corners.x1) /\ InBound(corners.x2)
          /\ InBound(corners.y1) /\ InBound(corners.y2)
        BY <1>1, <1>2, RectAssumption DEF Corners
    <2>2. /\ Greater(corners.x1, corners.x2) <= Bound /\ w \in 0 .. 2 * Bound + 1
          /\ Greater(corners.y1, corners.y2) <= Bound /\ h \in 0 .. 2 * Bound + 1
        BY <2>1, BoundedFits DEF Columns, Rows
    <2>3. Greater(corners.x1, corners.x2) \in MachineInt
          /\ Greater(corners.y1, corners.y2) \in MachineInt
        BY <2>1, OrderFacts
    <2>4. Greater(corners.x1, corners.x2) < MaxInt /\ Greater(corners.y1, corners.y2) < MaxInt
        BY <2>2, <2>3, BoundBelow, RectAssumption DEF MachineInt
    <2>5. w * h <= MaxInt
        <3> HIDE DEF w, h
        <3>1. 2 * Bound + 1 \in Nat /\ (2 * Bound + 1) * (2 * Bound + 1) <= MaxInt
            BY RectAssumption
        <3>2. w * h <= (2 * Bound + 1) * (2 * Bound + 1)
            BY <2>2, <3>1, ProductGrows
        <3>3. w * h \in Int
            BY <2>2, <3>1
        <3> QED  BY <3>1, <3>2, <3>3, RectAssumption
    <2>6. RectToParcels(corners) =
              IF AreaSize > MaxParcels THEN TooMany ELSE Listed(Columns, Rows)
        BY <1>1, <2>4, <2>5, RectangleIsExact DEF AreaSize, Columns, Rows
    <2>7. reply' = RectToParcels(corners)
        BY <1>2 DEF GetScenes
    <2> QED  BY <1>1, <1>2, <2>6, <2>7 DEF ScenesArea, AnswersArea, AreaSize, Columns, Rows
<1>3. CASE ~ \A f \in DOMAIN corners : InBound(corners[f])
    BY <1>1, <1>3 DEF GetScenes, ScenesArea
<1> QED  BY <1>2, <1>3

\* The answer of /mappings.
LEMMA GetMappingsAnswers ==
    ASSUME Answered, GetMappings PROVE MappingsArea'
<1>1. endpoint' = endpoint /\ corners' = corners /\ corners \in Corners /\ endpoint = "mappings"
    BY DEF Answered, GetMappings
<1> SUFFICES ASSUME Diagonal, Fits
             PROVE  reply' = IF AreaSize > MaxParcels THEN TooMany ELSE Listed(Columns, Rows)
    BY <1>1 DEF MappingsArea, AnswersArea, AreaSize, Columns, Rows, Diagonal, Fits
<1>2. [x1 |-> corners.x1, y1 |-> corners.x1, x2 |-> corners.x2, y2 |-> corners.x2] = corners
    BY <1>1 DEF Diagonal, Corners
<1>3. reply' = RectToParcels(corners)
    BY <1>2 DEF GetMappings, ParseCoordinates
<1>4. /\ corners.x1 \in MachineInt /\ corners.x2 \in MachineInt
      /\ corners.y1 \in MachineInt /\ corners.y2 \in MachineInt
    BY <1>1, RectAssumption DEF Corners
<1>5. /\ Greater(corners.x1, corners.x2) \in MachineInt
      /\ Greater(corners.x1, corners.x2) \in Columns
    BY <1>4, OrderFacts DEF Columns
<1>6. /\ Greater(corners.y1, corners.y2) \in MachineInt
      /\ Greater(corners.y1, corners.y2) \in Rows
    BY <1>4, OrderFacts DEF Rows
<1>7. Greater(corners.x1, corners.x2) < MaxInt /\ Greater(corners.y1, corners.y2) < MaxInt
    BY <1>5, <1>6, RectAssumption DEF Fits, MachineInt
<1> QED  BY <1>1, <1>3, <1>7, RectangleIsExact DEF Fits, AreaSize, Columns, Rows

LEMMA AnsweredHolds == Spec => []Answered
<1>1. Init => Answered
    BY DEF Init, Answered
<1>2. Answered /\ [Next]_vars => Answered'
    <2> SUFFICES ASSUME Answered, [Next]_vars PROVE Answered'
        OBVIOUS
    <2>1. CASE GetScenes
        BY <2>1, GetScenesAnswers DEF Answered, GetScenes
    <2>2. CASE GetMappings
        BY <2>2, GetMappingsAnswers DEF Answered, GetMappings
    <2>3. CASE UNCHANGED vars
        BY <2>3 DEF vars, Answered, ScenesArea, MappingsArea, AnswersArea, AreaSize,
                    Columns, Rows, Diagonal, Fits
    <2> QED  BY <2>1, <2>2, <2>3 DEF Next
<1> QED  BY <1>1, <1>2, PTL DEF Spec

(***************************************************************************)
(* A /scenes request is refused for its coordinates or its size, or lists  *)
(* exactly the rectangle, in ints of any width that hold the largest area  *)
(* within the bound.                                                       *)
(***************************************************************************)
THEOREM ScenesAreaHolds == Spec => []ScenesArea
<1>1. Answered => ScenesArea
    BY DEF Answered, ScenesArea
<1> QED  BY <1>1, AnsweredHolds, PTL

(***************************************************************************)
(* A /mappings request with corners on the diagonal, at any coordinates    *)
(* an int can hold, lists exactly the rectangle or is refused for its      *)
(* size, as long as the size is an int and the loop's end too.             *)
(***************************************************************************)
THEOREM MappingsAreaHolds == Spec => []MappingsArea
<1>1. Answered => MappingsArea
    BY DEF Answered, MappingsArea
<1> QED  BY <1>1, AnsweredHolds, PTL
===============================================================================
