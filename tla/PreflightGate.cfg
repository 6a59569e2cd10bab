CONSTANTS
  None = None
  MaxEdits = 3
  MaxRuns = 2
SPECIFICATION Spec
CHECK_DEADLOCK FALSE
INVARIANTS TypeOK ReportsMeanWhatTheySay GuardWasThere
