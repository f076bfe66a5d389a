SPECIFICATION Spec
CONSTANTS
  BlockCount = 13
  MgmtStart = 3
  TableBlocks = 1
  FactoryBad = {1}
  Weak = {0, 3, 4, 5, 6, 7}
  MarkMayFail = FALSE
  Markable = {}
  CreateFlags = {TRUE}
  PowerCut = FALSE
  MaxBoots = 2
INVARIANT DataIntact
INVARIANT NoSharing
INVARIANT Layout
INVARIANT MappingSaved
INVARIANT BadMeansMarked
