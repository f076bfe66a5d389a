SPECIFICATION Spec
CONSTANTS
  BlockCount = 8
  MgmtStart = 2
  TableBlocks = 1
  FactoryBad = {1}
  Weak = {0, 3, 7}
  MarkMayFail = TRUE
  Markable = {0}
  CreateFlags = {TRUE, FALSE}
  PowerCut = TRUE
  MaxBoots = 2
INVARIANT TableWritesInside
PROPERTY SignatureSafe
