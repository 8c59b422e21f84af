CONSTANTS
  Sizes = {1, 4}
  Offsets = {0, 1}
  MinExtent = 2
  MaxExtent = 3
  Ids = {s1, s2, s3}
  NoId = NoId
  Faults <- AllFaults
  MaxFailures = 1
  MaxConfigures = 1
SPECIFICATION FairSpec
PROPERTY ExtentRecovers
