SPECIFICATION Spec
CONSTANTS
  MaxInt = 255
  Bound = 4
  MaxParcels = 20
  Coordinates <- MCCoordinates
CHECK_DEADLOCK FALSE
INVARIANTS
  ScenesArea
  MappingsArea
