CONSTANTS
  Windows = {w1, w2}
  Scenes = {}
  None = None
  Faults <- AllFaults
  AcquireResults = {"success", "suboptimal", "outOfDate"}
  MaxFailures = 2
  MaxUploads = 1
SPECIFICATION Spec
SYMMETRY WindowSymmetry
CHECK_DEADLOCK FALSE
INVARIANTS
  TypeOK
  NothingClobbered
  FrameFenceTruthful
  HangsOnlyAfterUnrecovered
  RecordsAcquiredImages
  SemaphoresBalanced
  AcquiresLiveSwapchain
  UiFramesPaired
  SecondariesRecorded
