CONSTANTS
  f = f  g = g  x = x  y = y
  Files = {f, g}
  Inodes = {1, 2, 3, 4, 5, 6, 7}
  Links = {3, 7}
  Contents = {x, y}
  MaxSuffix = 2
  EditPoints <- OutsideWindows
  Layouts <- FolderLayouts
  MaxEdits = 1
SPECIFICATION FairSpec
INVARIANTS TypeOK NoLeftovers LeftInPlace
PROPERTIES ContentKept NothingForeign CopiesOutside WorkersEnd Relocates
CHECK_DEADLOCK FALSE
