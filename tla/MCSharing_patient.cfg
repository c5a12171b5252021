SPECIFICATION Spec
CONSTANTS
  a = a
  b = b
  NoWindow = NoWindow
  Windows <- BothWindows
  Named <- BothWindows
  Parent <- NoParents
  ShareValues = {0, 1}
  Env = {}
  PeerOps = {"DATA"}
  StaleIds = {0, 2}
  Pointer = {"motion", "leave"}
  MaxShares = 3
  MaxTubes = 2
  MaxEvents = 1
  SocketSize = 1
  PeerSize = 2
  ByteSize = 256
SYMMETRY Swap
INVARIANT ControlInOrder
INVARIANT OnlyStaleRecordsKill
INVARIANT OneTubeInStep
INVARIANT OneReader
CHECK_DEADLOCK FALSE
