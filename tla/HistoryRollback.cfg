CONSTANTS
  a1 = a1  a2 = a2
  p1 = p1  p2 = p2
  o1 = o1  o2 = o2
  Nothing = Nothing
  Nobody = Nobody
  Stub = Stub
  Actors = {a1, a2}
  Paths = {p1}
  Objects = {o1, o2}
  Dirs = {1, 2, 3}
  Numbers = {0, 1}
  Renames = {"exclusive", "reserve"}
  Closed = TRUE
  RenameTouches = TRUE
  MaxOperations = 2
  MaxWeight = 3
  MaxRequests = 2
  MaxMeddles = 0
SPECIFICATION Spec
PROPERTIES RollbackKeepsProof
CHECK_DEADLOCK FALSE
