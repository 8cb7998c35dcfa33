SPECIFICATION ScreenSpec
CONSTANTS
  t = t
  None = None
  Addr <- MCAddr
  RTT <- MCRTT
  Target = t
  MaxHops = 1
  MaxSamples = 3
  MaxTotal = 3
  MaxKeys = 2
  RttWarn = 3
  RttCrit = 4
  PerMicro = 2
  LossWarn = 40
  LossCrit = 60
INVARIANTS
  ScreenTypeOK
  ChartFaithful
  AveragesExact
  ReportsAgree
PROPERTIES
  FrameFresh
