SPECIFICATION OrderlySpec
CONSTANTS
  a = a
  NoWindow = NoWindow
  Windows <- OneWindow
  ByteSize = 256
  MaxShares = 2
  Fds = {2, 7, 8}
  MaxRecords = 2
  OutputSize = 1
  Titles = {1, 2}
  InputSize = 1
  MaxPostponed = 2
  Described = {1}
INVARIANT ClientTypeOK
INVARIANT ScreenFollows
INVARIANT OnlyClosingHarms
INVARIANT TitlesKept
CHECK_DEADLOCK FALSE
