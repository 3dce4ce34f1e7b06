SPECIFICATION Spec
CONSTANTS
  srv = srv  tmp = tmp
  NoDir = NoDir
  NoResult = NoResult
  DefaultTimeout = 3
  MaxTimeout = 2
  Timeouts <- AskedTimeouts
  AllowedDirs <- Allowed
  Dirs <- Asked
  Pipelines <- AllPipelines
  maxOutputBytes = 2
  MaxOut = 4
  MaxKids = 2
INVARIANTS VerdictIsTrue OutputIsAccounted StepsAreEarned
PROPERTY RunReturns
CHECK_DEADLOCK FALSE
