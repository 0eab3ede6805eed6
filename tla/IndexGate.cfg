SPECIFICATION Spec
CONSTANTS
  Replica = {r1, r2}
  Caller = {r1}
  Overlap = FALSE
  Older = {o1}
  Key = {a}
  Nobody = nobody
  MaxRestarts = 0
  Failing = {r1}
  Lapsing = {r1}
INVARIANTS TypeOK ListingsComplete
PROPERTIES ShutStaysShut RecheckMissesNone
