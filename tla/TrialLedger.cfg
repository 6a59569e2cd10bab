CONSTANTS
  None = None
  Cases <- MCCases
  Control <- MCControls
  RequiredControl = {"cache", "quant"}
  Value = {"fp16", "q8", "q4", "v1", "v2"}
  SettingsOf <- MCEdited
  Repeats = {0, 1}
  MaxRepeat = 1
  Blocks = 1
  Declared = {"cache"}
  MaxRuns = 4
SPECIFICATION Spec
CHECK_DEADLOCK FALSE
INVARIANTS TypeOK OneRunPerRepeat PlanCompares ComparesLikeWithLike
PROPERTIES RejectedForGood
