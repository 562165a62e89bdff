SPECIFICATION FairSpec
CONSTANTS
  Uploads = {u1, u2}
  Requests = {r1}
  MaxFaults = 1
INVARIANTS
  ErasedLeavesNothing
PROPERTIES
  NotErasedUnasked
  ErasureCompletes
CHECK_DEADLOCK FALSE
