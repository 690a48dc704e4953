CONSTANTS
  p1 = p1  p2 = p2  p3 = p3
  i1 = i1  i2 = i2  i3 = i3  i4 = i4
  x = x  y = y
  Paths = {p1, p2, p3}
  Inodes = {i1, i2, i3}
  Contents = {x, y}
  Absent = Absent
  Unique = Unique
  Trusted = {i1, i2}
  Paranoid = FALSE
  EditPoints = {"idle", "confirm"}
  RefLists <- NoneOrOne
  MaxEdits = 1
  MaxOps = 1
SPECIFICATION Spec
INVARIANT TypeOK
PROPERTIES NeverLastCopy ProtectedStays SentAsApproved
SYMMETRY Symmetry
CHECK_DEADLOCK FALSE
