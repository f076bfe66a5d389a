SPECIFICATION Spec
CONSTANTS
  BlockCount = 16
  MgmtStart = 3
  TableBlocks = 2
  FactoryBad = {1}
  Weak = {4}
  MarkMayFail = FALSE
  Markable = {}
  CreateFlags = {TRUE}
  PowerCut = FALSE
  MaxBoots = 2
INVARIANT MainTableReadable
