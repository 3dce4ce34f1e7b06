SPECIFICATION FairSpec
CONSTANTS
  k1 = k1
  s1 = s1
  Calls = {k1}
  Sessions = {s1}
  Second = 3
  MaxSubmitWait = 6
  Half = 32
  WaitArgs <- Waits
  EnvWaits <- SmallCaps
  GetTimeouts <- Timeouts
  GetPoll = 2
  SubmitTime = 4
  LastArrival = 1
  ChanCap = 1
INVARIANTS AnsweredInTime ExpiryIsHonest WaitIsHonoured
PROPERTIES EveryCallAnswered
CHECK_DEADLOCK FALSE
