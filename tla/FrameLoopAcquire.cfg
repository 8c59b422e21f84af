CONSTANTS
  Windows = {w1}
  Scenes = {}
  None = None
  Faults = {"acquire"}
  AcquireResults = {"success"}
  MaxFailures = 1
  MaxUploads = 1
SPECIFICATION Spec
INVARIANT WaitsOnAcquiredSemaphores
