SPECIFICATION Spec
CONSTANTS
  Node = {n1, n2}
  Name = {a}
  Handle = {h1, h2}
  Nobody = Nobody
  TTL = 2
  RenewPct = 50
  Faults = {"error", "crash"}
  Punctual = FALSE
SYMMETRY Symmetric
INVARIANTS
  TypeOK
  FenceTokensUnique
  OtherNodesTokensAreOld
PROPERTY
  ImplementsService
