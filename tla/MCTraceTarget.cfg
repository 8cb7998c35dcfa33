SPECIFICATION TargetFairSpec
CONSTANTS
  t = t
  r1 = r1
  r2 = r2
  None = None
  Addr <- MCAddr
  RTT <- MCRTT
  Target = t
  MaxHops = 2
  MaxSamples = 1
  Count = 2
  CacheCapacity = 1
INVARIANTS
  TargetTypeOK
  NamesMatch
  EngineInv
  CacheSound
  PendingRowsUnnamed
PROPERTIES
  RecordSpec
  CancelStopsBoth
  CountReached
  RowsLookedUp
