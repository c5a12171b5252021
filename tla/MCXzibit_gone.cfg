SPECIFICATION FairXzibitSpec
CONSTANTS
  a = a
  b = b
  NoWindow = NoWindow
  Windows <- OneWindow
  Named <- OneWindow
  Parent <- NoParents
  ShareValues = {1}
  Env = {"hangup"}
  PeerOps = {"DATA"}
  StaleIds = {1}
  Pointer = {}
  MaxShares = 2
  MaxTubes = 1
  MaxEvents = 1
  SocketSize = 1
  PeerSize = 2
  ByteSize = 256
  Fds = {7, 8}
  MaxRecords = 2
PROPERTY UnsharedDisappears
CHECK_DEADLOCK FALSE
