CONSTANTS
  c1 = c1
  c2 = c2
  c3 = c3
  c4 = c4
  Cpus = {c1, c2, c3, c4}
  Bsp = c1
  NumIst = 1
SPECIFICATION BootSpec
INVARIANTS
  OwnTss
  RwExact
PROPERTY
  StartUpEnds
CHECK_DEADLOCK FALSE
