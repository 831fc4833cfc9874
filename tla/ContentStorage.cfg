SPECIFICATION Spec
CONSTANTS
  s1 = s1
  s2 = s2
  s3 = s3
  r1 = r1
  End = End
  Zeros = Zeros
  Missing = Missing
  Nobody = Nobody
  Saves = {s1, s2, s3}
  Readers = {r1}
  Cids = {"scene", "model"}
  Pieces = 2
  Bytes = {"a", "b", "c", "d"}
  Hole = Zeros
  Past = End
  Absent = Missing
  NoSave = Nobody
  Content <- MCContent
  SaveCalls <- MCSaveCalls
  ReadCalls <- MCReadCalls
SYMMETRY Symmetry
CHECK_DEADLOCK FALSE
INVARIANTS
  TypeOK
  SettledWhole
  SteadyRead
  ServedExact
PROPERTY ImplementsObjectStore
