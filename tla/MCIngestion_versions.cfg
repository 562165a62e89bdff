SPECIFICATION Spec
CONSTANTS
  MaxVersions = 2
  MaxJobs = 2
  MaxAttempts = 2
  Workers = {w1, w2}
  Api = {"upload","reindex"}
  Faults = {"step","parse","undo","handler","schedule","runtime","cleanup","crash","crash_cleanup","duplicate","loss","loss_cleanup"}
  MaxFaults = 2
  Zombies = FALSE
SYMMETRY Symmetry
INVARIANTS
  ActiveServable
  OneRunPerVersion
  WaitingJobHasEvent
CHECK_DEADLOCK FALSE
