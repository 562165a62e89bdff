SPECIFICATION FairSpec
CONSTANTS
  Versions = {v1, v2}
  Workers = {w1, w2}
  None = None
  Limits = {3, 4}
  Estimate = 2
  Charges = {1, 2}
  MaxAttempts = 2
  MaxMessages = 1
  MaxFaults = 1
  Zombies = FALSE
INVARIANTS
  GeneratedOnce
  BudgetKept
PROPERTIES
  JobsSettle
