CONSTANTS
  c1 = c1
  c2 = c2
  Cpus = {c1, c2}
  BootCpu = c1
  MaxPages = 2
  WordModulus = 4
  MAX_LEVEL = 3
  PAGE_LEVEL = 1
  MIN_ORDER = 1
  NumUnits = 8
  Regions <- MCRegions
  Sizes <- MCSizes
  Requests = {1, 2}
SPECIFICATION PhysSpec
INVARIANTS
  NoPanic
  BlocksDisjoint
  FullyMerged
  ZeroedOnAlloc
  PromisesBacked
  CommittedExact
PROPERTY
  UsesAccounting
