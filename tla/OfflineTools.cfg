CONSTANTS
  None = None  Bad = Bad
  NotJson = NotJson  NotPython = NotPython  NoReceipt = NoReceipt
  Shards <- MCShards  Tensors <- MCTensors
  Versions <- MCVersions  Layout <- MCLayout  Local = "pinned"
  Described = {"head.trellis"}
  Component <- MCComponent  Bits <- MCBits  Companions <- MCCompanions
  MaxHeader = 250
  MaxRuns = 2  MaxChanges = 1
  PageSize = 4  Slice = 200  MIB = 1024
  g <- MCGeometry  Vocab = 3  Hidden = 2  Embed = "embed"
  Tokens = {"x", "y", "z"}  Whole = 5
  PlanOptions <- MCPlanOptions  Profiles <- MCProfiles
  Json <- MCJson  Nesting <- MCNesting  Deepest = 3
  SuiteCases <- MCSuiteCases  ContainerRuns <- MCContainerRuns
SPECIFICATION ToolsSpec
CHECK_DEADLOCK FALSE
INVARIANTS ToolsTypeOK FetchedIsWhole FetchHeals PlansAddUp ProfileHoldsBelow OutputLaw GradesMeanContracts
