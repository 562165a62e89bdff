SPECIFICATION Spec
CONSTANT NChecks = 4
INVARIANTS
  EndReleasesAll
CHECK_DEADLOCK FALSE
