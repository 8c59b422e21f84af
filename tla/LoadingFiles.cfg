CONSTANTS
  None = None
  Broken = Broken
  Files = {"a", "b"}
  IndexAt <- MCIndexAt
  Contents <- SmallContents
  Disks <- SmallDisks
SPECIFICATION Spec
INVARIANTS
  TypeOK
  LoadsAccounted
  ImportFaithful
  OutcomesExplained
\* Without a window, or after the loop, nothing may be left to do.
CHECK_DEADLOCK FALSE
