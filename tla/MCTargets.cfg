SPECIFICATION TargetsSpec
CONSTANTS
  r1 = r1  r2 = r2
  k1 = k1  k2 = k2
  near = near  far = far
  c1 = c1
  NoRecord = NoRecord
  Torn = Torn
  Unsure = Unsure
  HostIP = HostIP
  None = None
  Reqs = {r1, r2}
  Keys = {k1, k2}
  Addrs = {near, far}
  RelaySSH = {near}
  Calls = {c1}
  Users <- Logins
  Idents <- KeyFiles
  Offers <- SomeOffers
  Asks <- SomeAsks
SYMMETRY Perms
INVARIANTS SuccessIsDurable TargetIsOneRecord ProbeMirrorsWrite
PROPERTY FieldsSurvive
CHECK_DEADLOCK FALSE
