CONSTANTS
  None = None
  MaxEdits = 2
  MaxRuns = 1
SPECIFICATION Spec
CHECK_DEADLOCK FALSE
INVARIANTS ContactIsArmed
