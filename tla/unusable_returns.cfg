SPECIFICATION Spec
CONSTANTS
  BlockCount = 9
  MgmtStart = 3
  TableBlocks = 1
  FactoryBad = {1}
  Weak = {0}
  MarkMayFail = FALSE
  Markable = {}
  CreateFlags = {TRUE}
  PowerCut = FALSE
  MaxBoots = 2
INVARIANT UnusableStays
