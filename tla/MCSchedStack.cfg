CONSTANTS
  c1 = c1
  t1 = t1
  t2 = t2
  r1 = r1
  r2 = r2
  Cpus = {c1}
  BootCpu = c1
  Threads = {t1, t2}
  InitThread = t1
  IdleOf <- MCIdleOf
  Regions = {r1, r2}
  InitStack = r1
  None = None
  CanPark = FALSE
  DebugBuild = FALSE
SPECIFICATION SchedSpec
SYMMETRY MCSymmetry
INVARIANTS
  StackReleased
CHECK_DEADLOCK FALSE
