SPECIFICATION FairSpec
CONSTANTS
  Instances = {i1}
  First = i1
  Clients = {c1, c2}
  BridgeCount = 2
  MaxMoves = 1
  Credentials = {"right"}
  Kinds = {"normal"}
  EAD_TIMEOUT = 1
  EAD_TIMEOUT_LONG = 1
  CmdTimeout = 1
  EAD_MAX_IV_INCR = 2
  Offsets = {1}
  MaxOutput = 0
  MaxBurst = 1
  MaxFaults = 0
INVARIANT RecordsTrue
PROPERTY FollowsBridge
PROPERTY Recovers
