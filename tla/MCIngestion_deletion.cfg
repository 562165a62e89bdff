SPECIFICATION FairSpec
CONSTANTS
  MaxVersions = 1
  MaxJobs = 2
  MaxAttempts = 1
  Workers = {w1, w2}
  Api = {"retry","delete"}
  Faults = {"step","load","undo","crash_cleanup"}
  MaxFaults = 3
  Zombies = FALSE
PROPERTIES
  DeletionIsFinal
  DeletionCompletes
  DeletedIsErased
CHECK_DEADLOCK FALSE
