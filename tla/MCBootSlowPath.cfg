CONSTANTS
  c1 = c1
  c2 = c2
  c3 = c3
  Cpus = {c1, c2, c3}
  Bsp = c1
  NumIst = 2
SPECIFICATION BootSpec
INVARIANT
  NoSlowPath
CHECK_DEADLOCK FALSE
