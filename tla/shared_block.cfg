SPECIFICATION Spec
CONSTANTS
  BlockCount = 13
  MgmtStart = 3
  TableBlocks = 1
  FactoryBad = {1, 10}
  Weak = {0, 2}
  MarkMayFail = FALSE
  Markable = {}
  CreateFlags = {TRUE}
  PowerCut = FALSE
  MaxBoots = 2
INVARIANT NoSharing
