SPECIFICATION XzibitSpec
CONSTANTS
  a = a
  b = b
  NoWindow = NoWindow
  Windows <- BothWindows
  Named <- BothWindows
  Parent <- NoParents
  ShareValues = {1}
  Env = {}
  PeerOps = {"DATA"}
  StaleIds = {1}
  Pointer = {}
  MaxShares = 2
  MaxTubes = 1
  MaxEvents = 1
  SocketSize = 1
  PeerSize = 2
  ByteSize = 256
  Fds = {7, 8}
  MaxRecords = 2
INVARIANT ScreensAgree
PROPERTY ImplementsSharing
SYMMETRY Swap
CHECK_DEADLOCK FALSE
