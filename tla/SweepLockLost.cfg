SPECIFICATION FairSpec
CONSTANTS
  Replica = {r1, r2}
  Caller = {}
  Overlap = FALSE
  Older = {}
  Key = {}
  Nobody = nobody
  MaxRestarts = 0
  Failing = {}
  Lapsing = {r1, r2}

PROPERTY SweepsGoOn
