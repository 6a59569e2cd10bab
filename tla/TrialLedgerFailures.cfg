CONSTANTS
  None = None
  Cases <- MCCases
  Control <- MCControls
  RequiredControl = {"cache", "quant"}
  Value = {"fp16", "q8", "q4", "v1", "v2"}
  SettingsOf <- MCFixed
  Repeats = {0}
  MaxRepeat = 1
  Blocks = 1
  Declared = {"cache"}
  MaxRuns = 3
SPECIFICATION Spec
CHECK_DEADLOCK FALSE
INVARIANTS FailuresCompared
