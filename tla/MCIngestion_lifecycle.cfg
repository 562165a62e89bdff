SPECIFICATION FairSpec
CONSTANTS
  MaxVersions = 2
  MaxJobs = 3
  MaxAttempts = 1
  Workers = {w1, w2}
  Api = {"upload","delete"}
  Faults = {"crash","delete","loss"}
  MaxFaults = 1
  Zombies = FALSE
INVARIANTS
  StatusMatchesActive
PROPERTIES
  JobsSettle
  SupersededIndexRemoved
CHECK_DEADLOCK FALSE
