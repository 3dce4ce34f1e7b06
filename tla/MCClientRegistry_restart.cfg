SPECIFICATION Spec
CONSTANTS
  n1 = n1  n2 = n2  p1 = p1  p2 = p2
  NoRow = NoRow
  Torn = Torn
  Names = {n1, n2}
  Clis = {p1}
  MaxTokens = 3
INVARIANTS RevocationIsDurable
CHECK_DEADLOCK FALSE
