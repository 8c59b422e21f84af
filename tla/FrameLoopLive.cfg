CONSTANTS
  Windows = {w1, w2}
  Scenes = {scene}
  None = None
  Faults <- SurvivedFaults
  AcquireResults = {"success", "outOfDate"}
  MaxFailures = 1
  MaxUploads = 1
SPECIFICATION FairSpec
PROPERTIES
  RefinesFairOwnership
  CloseLeadsToShutdown
  ContinuationsRun
  ResizesHandled
