SPECIFICATION Spec
CONSTANTS
  Key = {1, 2}
  MaxTtl = 1
  Behind = 0
  Ahead = 0
  NoScore = NoScore
  TtlArg <- TtlArgs
  Limit = 1
INVARIANTS
  TypeOK
  PassReturnsSteadyKeys
  IndexPassReturnsKeysOnce
