SPECIFICATION FairSpec
CONSTANTS
  Replica = {r1, r2}
  Caller = {}
  Overlap = FALSE
  Older = {o1}
  Key = {}
  Nobody = nobody
  MaxRestarts = 1
  Failing = {}
  Lapsing = {}

PROPERTIES GateReopens SweepsGoOn
