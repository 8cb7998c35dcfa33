SPECIFICATION TargetFairSpec
CONSTANTS
  t = t
  r1 = r1
  r2 = r2
  None = None
  Addr <- MCAddr
  RTT <- MCRTT
  Target = t
  MaxHops = 1
  MaxSamples = 0
  Count = 3
  CacheCapacity = 2
PROPERTIES
  RowsNamed
