SPECIFICATION Spec
CONSTANTS
  MaxVersions = 1
  MaxJobs = 1
  MaxAttempts = 2
  Workers = {w1, w2}
  Api = {}
  Faults = {"late"}
  MaxFaults = 1
  Zombies = FALSE
SYMMETRY Symmetry
INVARIANTS
  ActiveSearchable
CHECK_DEADLOCK FALSE
