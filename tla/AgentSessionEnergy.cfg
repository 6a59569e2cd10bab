CONSTANTS
  None = None
  readme = readme  code = code  lib = lib  large = large  outside = outside
  original = original  fix = fix  long = long
  empty = empty  number = number  surrogate = surrogate
  Names <- MCNames  Files <- MCFiles  Source <- MCSource  Template <- MCTemplate
  Writable = {code, lib}
  CaseWritable = {code, lib}
  Required = {readme, code}
  TooLong = {long}  Empty = {empty}  NotText = {number}  Unencodable = {surrogate}
  Budget = 5
  TestCallRequired = TRUE
  Calls <- MCCalls
  Runs <- MCRuns
  MinPublic = 2  MinPrivate = 5
  \* energy-rollup-v1
  ExpectedPublic  = "4265fe2de441067557559140ffe04be2105da79ec05ba24b84a368a75dcb9bc"
  PublicDigest    = "4265fe2de441067557559140ffe04be2105da79ec05baf24b84a368a75dcb9bc"
  ExpectedPrivate = "6a7193b2e83c115011016a575f159a8e6dde764e1e554e0f2c94886a8ec7ec97"
  PrivateDigest   = "6a7193b2e83c115011016a575f159a8e6dde764e1e554e0f2c94886a8ec7ec97"
SPECIFICATION Spec
CHECK_DEADLOCK FALSE
INVARIANTS SolvedTaskPasses
