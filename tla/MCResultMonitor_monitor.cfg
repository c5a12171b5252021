SPECIFICATION FairSpec
CONSTANTS
  Progress = {200}
  MaxRequests = 2
INVARIANT MonitorTypeOK
INVARIANT ReferencesCounted
INVARIANT OnlyEarlyDismissalHarms
PROPERTY FiltersGo
CHECK_DEADLOCK FALSE
