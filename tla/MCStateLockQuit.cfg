SPECIFICATION FairSpec
CONSTANTS
  NTargets = 1
CHECK_DEADLOCK FALSE
PROPERTIES
  QuitWorks
