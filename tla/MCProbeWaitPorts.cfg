SPECIFICATION Spec
CONSTANTS
  Engine <- MCEngine
  Settings <- MCPorts
  Dest <- MCDest
  PathLen <- MCPathLen
  Port = 993
  MaxHops = 2
  SeqMod = 2
  Timeout = 2
  BoxCap = 2
  Bandwidth = 1
  None = None
CHECK_DEADLOCK FALSE
INVARIANTS
  PortsDisambiguate
