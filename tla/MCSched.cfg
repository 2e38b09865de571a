CONSTANTS
  c1 = c1
  c2 = c2
  t1 = t1
  t2 = t2
  t3 = t3
  r1 = r1
  r2 = r2
  r3 = r3
  Cpus = {c1, c2}
  BootCpu = c1
  Threads = {t1, t2, t3}
  InitThread = t1
  IdleOf <- MCIdleOf
  Regions = {r1, r2, r3}
  InitStack = r1
  None = None
  CanPark = TRUE
  DebugBuild = FALSE
SPECIFICATION SchedFairSpec
INVARIANTS
  OneCorePerThread
  StacksMapped
  QueuedOnce
  NoLostThread
  ThreadRefExact
PROPERTY
  DeadIsPut
CHECK_DEADLOCK FALSE
