SPECIFICATION FairSpec
CONSTANTS
  Node = {n1, n2}
  Name = {a}
  Handle = {h1, h2}
  Nobody = Nobody
  TTL = 3
  RenewPct = 40
  Faults = {"crash"}
  Punctual = TRUE
INVARIANT
  LeaseKeptAlive
PROPERTIES
  OrphanLapses
  OrphanTakenOver
