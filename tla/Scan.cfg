CONSTANTS
  Dirs <- TheDirs
  ParentOf <- TheParent
  DirName <- TheName
  Above = "/"
  Undated <- Early1
  MaxItems = 10
  MaxDocument = 18
  Inodes = {1, 2, 3, 4, 5, 6, 7, 8, 9}
  Kind <- TheKind
  Contents = {"empty", "note", "memo", "film", "cut"}
  SizeOf <- TheSize
  Probe <- TheProbe
  Partial = 1
  Spare = 8
  Layouts <- TheLayouts
  WalkThreads = 2
  Pool = 3
  MaxTicks = 2
  MaxEvents = 1
SPECIFICATION FairSpec
INVARIANTS TypeOK ProofTrue EqualFolders GroupsExact MergeableKnown GateHolds RefreshCoherent PairsCompared ClustersAreComponents
PROPERTIES ScanEnds
CHECK_DEADLOCK FALSE
