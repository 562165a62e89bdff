SPECIFICATION FairSpec
CONSTANTS
  NoEvent = NoEvent
  Events = {e1, e2}
  Dispatchers = {d1, d2}
  Limit = 2
  MaxFaults = 3
INVARIANTS
  ExclusiveClaims
  DuplicatesNeedFaults
PROPERTIES
  EventuallySent
  ImplementsDelivery
CHECK_DEADLOCK FALSE
