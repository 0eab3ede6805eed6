SPECIFICATION Spec
CONSTANTS
  Key = {a, b}
  Exact = 8
  MaxTtl = 1
  Behind = 1
  Ahead = 1
  NoScore = NoScore
  TtlArg <- TtlArgs
  Sweeper = {s1}
  SweepBatch = 1
  Legacy = TRUE
  Faults = TRUE
SYMMETRY Symmetric
INVARIANTS
  TypeOK
  IndexCoversPresent
  ScheduledInTime
