SPECIFICATION CredentialsSpec
CONSTANTS
  n1 = n1  n2 = n2  p1 = p1  p2 = p2
  auth = auth  appr = appr
  AuthToken = auth
  ApproverToken = appr
  NoDigest = NoDigest
  NoRow = NoRow
  Torn = Torn
  Names = {n1, n2}
  Clis = {p1, p2}
  MaxTokens = 2
  Blocks <- Environments
INVARIANTS ConfiguredGateIsUp PlaintextIsGone AgentsCannotDecide
           RevokedTokenIsDead PrintedTokenAccepted
SYMMETRY Alike
CHECK_DEADLOCK FALSE
