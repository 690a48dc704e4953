CONSTANTS
  a1 = a1  a2 = a2
  Actors = {a1, a2}
  Nobody = Nobody
  Keep = 2
  MaxBytes = 3
  Sizes = {1, 3}
  Old = {1}
  MaxNs = 3
  MaxOps = 3
  MaxCrashes = 1
  MaxFaults = 2
SPECIFICATION Spec
INVARIANTS TypeOK Retained
PROPERTIES SidecarLast PreservedKept NewestKept WriterAlone AllEnd
CHECK_DEADLOCK FALSE
