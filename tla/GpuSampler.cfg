CONSTANTS
  Interval = 1
  JoinTimeout = 6
  MaxSample = 5
  StuckSample = 8
  MaxRequest = 7
SPECIFICATION Spec
CHECK_DEADLOCK FALSE
INVARIANTS TypeOK Brackets SummaryWhole OneLateSample
PROPERTIES SamplerEnds
