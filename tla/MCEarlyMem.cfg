CONSTANTS
  None = None
  MemPages = 20
  Cuts = {1, 3, 5, 6, 9, 11, 14}
  MemoryMaps <- MCMaps
  Sections <- MCSections
  RegionPages = 40
  DirectBase = 2
  TableSpan = 8
  TableLevels = 3
  Block = 4
  BitmapSpan = 4
SPECIFICATION EarlySpec
INVARIANTS
  EarlyPagesApart
  NoMemoryLost
  BitmapCovers
  DirectMapExact
CHECK_DEADLOCK FALSE
