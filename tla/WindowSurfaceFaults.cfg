CONSTANTS
  Sizes = {1, 4}
  Offsets = {0}
  MinExtent = 2
  MaxExtent = 3
  Ids = {s1, s2, s3, s4}
  NoId = NoId
  Faults <- AllFaults
  MaxFailures = 2
  MaxConfigures = 2
SPECIFICATION Spec
SYMMETRY IdSymmetry
INVARIANTS
  TypeOK
  NothingLeaked
  SurfaceIntact
  ExtentFollows
