SPECIFICATION FairSpec
CONSTANTS
  MTK_DMA_SIZE = 5
  Thresh = 1
  MTK_MAC_COUNT = 2
  MaxDesc = 2
  MaxBatch = 1
  Budget = 1
  ReopenFails = {0}
  MaxEvents = 2
INVARIANT TypeOK
INVARIANT RingConsistent
INVARIANT RingInUse
INVARIANT UsersHaveDma
PROPERTY RungIsFreed
PROPERTY QueueWakes
PROPERTY HangIsReset
