SPECIFICATION RSpec
CONSTANTS
  u1 = u1
  u2 = u2
  r1 = r1
  r2 = r2
  p1 = p1
  p2 = p2
  p3 = p3
  cA = cA
  cB = cB
  Uploads = {u1, u2}
  Roots <- MCRoots
  Parcels <- MCParcels
  Cids <- MCCids
  Names <- MCNames
  Dirs <- MCDirs
  SceneNames <- MCSceneNames
  NoRoot = NoRoot
  NoCid = NoCid
  EmptyCid = EmptyCid
  Requests <- MCRequests
  Queries <- MCQueries
CHECK_DEADLOCK FALSE
INVARIANTS
  RTypeOK
  FilesServable
  CalmAnswer
  AcknowledgedAnswered
PROPERTIES
  MissingMetadataJustified
