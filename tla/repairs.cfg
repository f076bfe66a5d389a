SPECIFICATION FairSpec
CONSTANTS
  BlockCount = 12
  MgmtStart = 2
  TableBlocks = 1
  FactoryBad = {1, 11}
  Weak = {2, 3, 4, 6, 7, 8}
  MarkMayFail = FALSE
  Markable = {}
  CreateFlags = {TRUE}
  PowerCut = TRUE
  MaxBoots = 2
INVARIANT DataRecoverable
INVARIANT DataIntact
INVARIANT Layout
INVARIANT MainTableReadable
INVARIANT MappingSaved
PROPERTY Terminates
