SPECIFICATION Spec
CONSTANTS
  Ports <- MCPorts
  NoPort = "none"
  Local = "h"
  LidOf <- MCLidOf
  Routes <- MCRoutes
  Leads <- MCLeads
  MaxHops = 4
  PathSl <- MCPathSl
  Agent <- MCAgent
  Managers <- MCManagers
  Tools <- MCCcTools
  MaxRuns = 2
  Switch = "s"
  NumPorts = 6
  SpBlock = 3
  SpRead = 2
  CtBlock = 2
  MaxLimit = 3
  Attrs <- MCAttrs
  AskedPorts = {2}

PROPERTIES OnlyAskedChanges
CHECK_DEADLOCK FALSE
