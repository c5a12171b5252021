SPECIFICATION FairSpec
CONSTANTS
  ByteSize = 2
  HeaderSize = 1
  DownBlocks <- SomeDown
  UpBlocks <- SomeUp
  Avatar <- SomeAvatar
  TubeSize = 8
  UpSize = 2
  PipeSize = 2
  ReadSize = 6
  Strangers = 1
  Env = {"no_avatar", "spawn_fails", "hangup"}
  MaxDown = 2
  MaxUp = 2
INVARIANT LinkTypeOK
INVARIANT OnlyBrokenStreamsKill
PROPERTY BlocksInOrder
PROPERTY EverythingArrives
CHECK_DEADLOCK FALSE
