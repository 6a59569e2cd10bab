CONSTANTS
  None = None
  readme = readme  code = code  lib = lib  large = large  outside = outside
  original = original  fix = fix  long = long
  empty = empty  number = number  surrogate = surrogate
  Names <- MCNames  Files <- MCFiles  Source <- MCSource  Template <- MCTemplate
  Writable = {code, lib}
  CaseWritable = {code, lib}
  Required = {readme, code}
  TooLong = {long}  Empty = {empty}  NotText = {number}  Unencodable = {surrogate}
  Budget = 5
  TestCallRequired = TRUE
  Calls <- MCCalls
  Runs <- MCRuns
  MinPublic = 2  MinPrivate = 5
  \* config-merge-v1
  ExpectedPublic  = "803625a228d3c256d9cbab471a61b1b2cedd6ebf12fd0f129f365430c7eab8e0"
  PublicDigest    = "803625a228d3c256d9cbab471a61b1b2cedd6ebf12fd0f129f365430c7eab8e0"
  ExpectedPrivate = "01ef9adb4fcbc6c015b92473c7c73485580726dc3d028972c5952d401bbf0835"
  PrivateDigest   = "01ef9adb4fcbc6c015b92473c7c73485580726dc3d028972c5952d401bbf0835"
SPECIFICATION Spec
CHECK_DEADLOCK FALSE
INVARIANTS InfrastructureUnverified
