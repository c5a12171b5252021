SPECIFICATION FairRendezvousSpec
CONSTANTS
  Programs = {"plugin", "jupiter"}
  Receivers = {"there", "absent"}
  A1 = A1
  A2 = A2
  A3 = A3
  Romeo = Romeo
  Accounts <- ThreeAccounts
  Contacts <- OneContact
INVARIANT RendezvousTypeOK
INVARIANT SharedOutlivesCallbacks
INVARIANT OnlyInvalidationHarms
PROPERTY ImplementsRequest
PROPERTY ImplementsList
PROPERTY EverybodyIsTold
PROPERTY SessionsEnd
CHECK_DEADLOCK FALSE
