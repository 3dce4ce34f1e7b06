SPECIFICATION Spec
CONSTANTS
  i1 = i1  i2 = i2  c1 = c1  c2 = c2  a1 = a1
  Watcher = Watcher  Nobody = Nobody  NoRequest = NoRequest  NoResult = NoResult
  ChanCap = 1
  Ids = {i1}
  Callers = {c1, c2, a1}
  Approvers = {c1, c2}
  ApproverRequired = TRUE
  WhitelistEnabled = TRUE
  Contents <- DecisionContents
  Results <- RawResults
  InitialRules <- DecisionRules
  BodyKeys <- NoRules
  OperatorActions <- Actions
SYMMETRY Perms
INVARIANTS ExecutesAtMostOnce AuthorizedConsent WithdrawnNeverRuns
INVARIANTS LogCallPrecedesRun NoApprovalIsLost GatedContentWithheld NoEmptyGate
PROPERTIES ResultIsFinal StatusFollowsLife ImplementsGate
CHECK_DEADLOCK FALSE
