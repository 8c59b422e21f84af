CONSTANTS
  None = None
  Broken = Broken
  Files = {"a", "b"}
  IndexAt <- MCIndexAt
  Contents <- SmallContents
  Disks <- SmallDisks
SPECIFICATION Spec
INVARIANT DrawsEveryPrimitive
\* As in LoadingFiles.cfg.
CHECK_DEADLOCK FALSE
