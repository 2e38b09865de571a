CONSTANTS
  c1 = c1
  c2 = c2
  Cpus = {c1, c2}
  v1 = v1
  v2 = v2
  v3 = v3
  Pool = {v1, v2, v3}
  Root = Root
  None = None
  VPages = {1, 2}
  TableOf <- MCTableOf
  OtherTables = {"k1"}
  f1 = f1
  f2 = f2
  f3 = f3
  Frames = {f1, f2, f3}
SPECIFICATION VmarSpec
SYMMETRY VmarSymmetry
INVARIANTS
  NoPanic
  NoUseAfterFree
  RefCountExact
  ReservationsExact
  FramesConserved
  NoEntryWithoutMapping
  LockedIsGlobal
CHECK_DEADLOCK FALSE
