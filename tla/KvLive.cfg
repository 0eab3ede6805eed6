SPECIFICATION FairSpec
CONSTANTS
  Key = {a, b}
  Exact = 8
  MaxTtl = 1
  Behind = 1
  Ahead = 0
  NoScore = NoScore
  TtlArg <- TtlArgsHuge
  Sweeper = {s1}
  SweepBatch = 2
  Legacy = FALSE
  Faults = FALSE
PROPERTY
  GoneEntriesDropped
