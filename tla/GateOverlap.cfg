SPECIFICATION Spec
CONSTANTS
  Replica = {r1, r2}
  Caller = {r1}
  Overlap = TRUE
  Older = {o1}
  Key = {a}
  Nobody = nobody
  MaxRestarts = 0
  Failing = {}
  Lapsing = {}
INVARIANT ListingsComplete
