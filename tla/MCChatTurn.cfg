SPECIFICATION FairSpec
CONSTANTS
  Requests = {r1, r2}
  MaxChunks = 1
  MaxRounds = 1
  MaxFaults = 2
INVARIANTS
  TurnsAreWhole
  TurnsAreSerial
  DoneIsKept
  DoneIsComplete
PROPERTIES
  RequestsEnd
CHECK_DEADLOCK FALSE
