SPECIFICATION FairSpec
CONSTANTS
  i1 = i1  i2 = i2  c1 = c1  c2 = c2  a1 = a1
  Watcher = Watcher  Nobody = Nobody  NoRequest = NoRequest  NoResult = NoResult
  ChanCap = 1
  Ids = {i1, i2}
  Callers = {c1}
  Approvers = {c1}
  ApproverRequired = TRUE
  WhitelistEnabled = TRUE
  Contents <- RuleContents
  Results <- OneResult
  InitialRules <- NoRules
  BodyKeys <- NoRules
  OperatorActions <- NoActions
INVARIANTS AutoApprovedAsReviewed
PROPERTIES WhitelistedIsDecided ApprovedIsCarriedOut
CHECK_DEADLOCK FALSE
