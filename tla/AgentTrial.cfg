CONSTANTS
  None = None  Torn = Torn
  code = code  lib = lib
  original = original  fix = fix  surrogate = surrogate
  Names = {code, lib}
  Files = {code, lib}
  Source <- MCSource  Template <- MCTemplate
  Writable = {code, lib}
  CaseWritable = {code}
  Required = {code}
  TooLong = {}  Empty = {}  NotText = {}  Unencodable = {surrogate}
  Budget = 4
  TestCallRequired = FALSE
  Calls <- MCCalls
  Runs <- MCRuns
  MinPublic = 2  MinPrivate = 5
  \* config-merge-v1
  ExpectedPublic  = "803625a228d3c256d9cbab471a61b1b2cedd6ebf12fd0f129f365430c7eab8e0"
  PublicDigest    = "803625a228d3c256d9cbab471a61b1b2cedd6ebf12fd0f129f365430c7eab8e0"
  ExpectedPrivate = "01ef9adb4fcbc6c015b92473c7c73485580726dc3d028972c5952d401bbf0835"
  PrivateDigest   = "01ef9adb4fcbc6c015b92473c7c73485580726dc3d028972c5952d401bbf0835"
  Invocations <- MCInvocations
  MaxRepeat = 1
  MaxTrials = 2
SPECIFICATION TrialSpec
INVARIANTS TrialTypeOK VerdictStands TurnsAreTheSessions OutputIsRecorded RecordsCompatible PassIsEarned
CHECK_DEADLOCK FALSE
