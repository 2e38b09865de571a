CONSTANTS
  c1 = c1
  c2 = c2
  Cpus = {c1, c2}
  s1 = s1
  s2 = s2
  s3 = s3
  Slabs = {s1, s2}
  ObjectsPerSlab = 3
  None = None
SPECIFICATION SlabSpec
SYMMETRY SlabSymmetry
INVARIANTS
  ListsExact
  ObjectsExact
  HandedOutZeroed
CHECK_DEADLOCK FALSE
