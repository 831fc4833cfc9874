SPECIFICATION Spec
CONSTANTS
  u1 = u1
  u2 = u2
  u3 = u3
  r1 = r1
  r2 = r2
  r3 = r3
  p1 = p1
  p2 = p2
  p3 = p3
  cA = cA
  cB = cB
  cX = cX
  cD = cD
  Uploads = {u1, u2, u3}
  Roots <- MCRoots
  Parcels <- MCParcels
  Cids <- MCCids
  Names <- MCNames
  Dirs <- MCDirs
  SceneNames <- MCSceneNames
  NoRoot = NoRoot
  NoCid = NoCid
  EmptyCid = EmptyCid
  Requests <- SafetyRequests
CHECK_DEADLOCK FALSE
SYMMETRY UploadSymmetry
INVARIANTS
  TypeOK
  ContentInv
  NoDanglingScene
  StatusSound
  PublishOrder
  QuietIndex
  AckVisible
PROPERTIES EvictionJustified
