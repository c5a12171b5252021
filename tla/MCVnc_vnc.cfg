SPECIFICATION MCSpec
CONSTANTS
  W1 = W1
  W2 = W2
  Windows <- TwoWindows
  Contents <- SomeContents
  Sum <- SomeSum
  MaxChanges = 1
  MaxShares = 2
  MaxInbox = 2
INVARIANT VncTypeOK
INVARIANT KeysComeUp
 
CHECK_DEADLOCK FALSE
