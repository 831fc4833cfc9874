SPECIFICATION Spec
CONSTANTS
  u1 = u1
  u2 = u2
  u3 = u3
  NoCid = NoCid
  Uploads = {u1, u2}
  Contents <- MCContents
  Malformed = {NoCid}
  Names <- MCNames
  Dirs = {"d/"}
  NoFile = NoFile
  Partial = Partial
  Stored = {"y"}
  Size <- MCSize
  ParcelSizeLimit = 3
  Requests <- SharingRequests
SYMMETRY UploadSymmetry
CHECK_DEADLOCK FALSE
INVARIANT SoundDespiteSharing
