SPECIFICATION Spec
CONSTANTS
  N = 2
  MaxOps = 2
INVARIANT TypeOK
INVARIANT LatestShown
INVARIANT OneChanger
PROPERTY ClosesCleanly
PROPERTY Settles
