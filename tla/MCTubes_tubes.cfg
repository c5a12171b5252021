SPECIFICATION TubesSpec
CONSTANTS
  a = a
  b = b
  NoWindow = NoWindow
  Windows <- BothWindows
  Named <- BothWindows
  Parent <- NoParents
  ShareValues = {1}
  Env = {"impatient"}
  PeerOps = {}
  StaleIds = {2}
  Pointer = {}
  MaxShares = 2
  MaxTubes = 2
  MaxEvents = 2
  SocketSize = 1
  PeerSize = 2
  ByteSize = 256
SYMMETRY Swap
INVARIANT TypeOK
INVARIANT TablesAgree
INVARIANT PixelsNeedConsent
INVARIANT AcceptedWereOffered
CHECK_DEADLOCK FALSE
