CONSTANTS
  c1 = c1
  c2 = c2
  c3 = c3
  Cpus = {c1, c2, c3}
  MaxPages = 2
  WordModulus = 4
SPECIFICATION AcctSpec
SYMMETRY CpuSymmetry
INVARIANTS
  AcctTypeOK
  NoUnderflow
  CommittedWithinTotal
  EveryPageCounted
PROPERTY
  ImplementsLedger
