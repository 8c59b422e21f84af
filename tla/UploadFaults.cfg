CONSTANTS
  Batches <- SmallBatches
  PoolSets = 2
  MaxItems = 3
  MaxFailures = 2
SPECIFICATION FairSpec
INVARIANTS
  TypeOK
  NothingLeaked
  CopiesSafe
  FilledWhenReturned
  LayoutsFollow
  AllOrReported
  SetsLostToFailures
PROPERTY CallsReturn
