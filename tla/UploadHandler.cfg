SPECIFICATION Spec
CONSTANTS
  Parcels = {"1,2", "01,2", "1,3", "1"}
  Coordinates = {"A", "B"}
  NotACoordinate = "nowhere"
  Coord <- MCCoord
  ParcelAssetsLimit = 2
  TTL = 1
  MaxTime = 3
  Forms <- MCForms
CHECK_DEADLOCK FALSE
INVARIANTS
  TypeOK
  AdmittedWithAccess
  RefusalJustified
  AskedWellFormed
  HonestAdmitted
