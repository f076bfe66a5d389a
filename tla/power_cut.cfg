SPECIFICATION Spec
CONSTANTS
  BlockCount = 13
  MgmtStart = 3
  TableBlocks = 1
  FactoryBad = {1}
  Weak = {0}
  MarkMayFail = FALSE
  Markable = {}
  CreateFlags = {TRUE}
  PowerCut = TRUE
  MaxBoots = 3
INVARIANT TypeOK
INVARIANT WriteCountIdentifies
INVARIANT DataRecoverable
INVARIANT NoSharing
PROPERTY Durable
PROPERTY ImplementsDevice
