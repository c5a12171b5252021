SPECIFICATION FairSpec
CONSTANTS
  a = a
  b = b
  NoWindow = NoWindow
  Windows <- BothWindows
  Named <- BothWindows
  Parent <- NoParents
  ShareValues = {0, 1}
  Env = {}
  PeerOps = {}
  StaleIds = {1}
  Pointer = {}
  MaxShares = 2
  MaxTubes = 2
  MaxEvents = 1
  SocketSize = 1
  PeerSize = 2
  ByteSize = 256
PROPERTY SharesAnswered
PROPERTY ClosesArrive
PROPERTY AcceptsAnswered
CHECK_DEADLOCK FALSE
