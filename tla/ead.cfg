SPECIFICATION Spec
CONSTANTS
  Instances = {i1}
  First = i1
  Clients = {c1, c2}
  BridgeCount = 1
  MaxMoves = 0
  Credentials = {"right", "wrong", "stranger"}
  Kinds = {"normal", "background", "other", "none"}
  EAD_TIMEOUT = 1
  EAD_TIMEOUT_LONG = 1
  CmdTimeout = 2
  EAD_MAX_IV_INCR = 2
  Offsets = {1}
  MaxOutput = 1
  MaxBurst = 1
  MaxFaults = 1
INVARIANT TypeOK
INVARIANT RunsOnce
INVARIANT SuccessIsTrue
INVARIANT SessionOpen
PROPERTY DoneAfterExit
SYMMETRY ClientSymmetry
