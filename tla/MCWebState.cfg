SPECIFICATION PartSpec
CONSTANTS
  h1 = h1  h2 = h2
  k1 = k1  k2 = k2  k3 = k3
  Torn = Torn
  Handlers = {h1, h2}
  Keys = {k1, k2, k3}
  Initial <- OldFile
  c1 = c1
  Callers = {c1}
  Base = 5
  Half = 16
  Second = 3
  Minute = 4
  PostedSeconds <- PostedSecs
  PostedMinutes <- PostedMins
  DefaultSeconds = 2
  DefaultMinutes = 1
  MaxMinutes = 2
  Horizon = 11
SYMMETRY Perms
INVARIANTS FileMatchesRules RemovalIsDurable GatedRuleIsNotLoaded RetryAfterSuffices
PROPERTY ApprovalsAreSpaced
CHECK_DEADLOCK FALSE
