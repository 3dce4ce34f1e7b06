SPECIFICATION FairSpec
CONSTANTS
  b1 = b1
  Clients = {b1}
  ChanCap = 1
  FetchesInOrder = TRUE
  MaxFetches = 2
  MaxCuts = 1
INVARIANTS
  QuietMeansTold
PROPERTIES
  SettledFrameArrives
  PageCatchesUp
CHECK_DEADLOCK FALSE
