SPECIFICATION ProgramFairSpec
CONSTANTS
  n1 = n1
  n4 = n4
  n6 = n6
  None = None
  Name <- MCName
  Literal4 = {n4}
  Literal6 = {n6}
  Id = {1, 2}
  CommandLines <- MCCommandLines
CHECK_DEADLOCK FALSE
INVARIANTS
  ProgramTypeOK
  EnginesRunnable
  ReportsFinal
PROPERTIES
  ProgramEnds
