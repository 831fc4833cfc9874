SPECIFICATION Spec
CONSTANTS
  k1 = k1
  k2 = k2
  r1 = r1
  r2 = r2
  c1 = c1
  c2 = c2
  None = None
  Runs = {k1, k2}
  Parcels <- MCParcels
  Roots = {r1, r2}
  Names = {"scene.json", "model"}
  Cids = {c1, c2}
  NoRoot = NoRoot
  NoCid = None
  EmptyRoot = EmptyRoot
  Corners <- MCCorners
  Scene <- MCScene
  Manifest <- MCManifest
SYMMETRY Symmetry
CHECK_DEADLOCK FALSE
INVARIANTS
  TypeOK
  RecordedIsStored
  NotMixed
  GapsExplained
  CopyCurrent
