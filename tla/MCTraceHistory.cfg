SPECIFICATION HistorySpec
CONSTANTS
  t = t
  r1 = r1
  None = None
  Addr <- MCAddr
  RTT <- MCRTT
  Target = t
  MaxHops = 2
  MaxSamples = 1
  Count = 3
  RttWarn = 2
  RttCrit = 3
  LossWarn = 40
  LossCrit = 60
INVARIANTS
  RecordMatchesRounds
  TableMatchesRounds
  RowColourEarned
  PauseQuiesces
  CancelQuiesces
