SPECIFICATION FairSpec
CONSTANTS
  NTargets = 2
CHECK_DEADLOCK FALSE
INVARIANTS
  TypeOK
  GuardsAccounted
PROPERTIES
  FrameIsConsistent
  OthersKeepTracing
  QuitOrSelfDeadlock
