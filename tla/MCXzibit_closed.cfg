SPECIFICATION XzibitSpec
CONSTANTS
  a = a
  b = b
  NoWindow = NoWindow
  Windows <- OneWindow
  Named <- OneWindow
  Parent <- NoParents
  ShareValues = {0, 1}
  Env = {}
  PeerOps = {"DATA"}
  StaleIds = {1}
  Pointer = {}
  MaxShares = 1
  MaxTubes = 1
  MaxEvents = 1
  SocketSize = 1
  PeerSize = 2
  ByteSize = 256
  Fds = {7}
  MaxRecords = 1
INVARIANT ClosedChannelsIgnored
CHECK_DEADLOCK FALSE
