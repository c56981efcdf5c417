SPECIFICATION Spec
CONSTANTS
  Ports <- MCPorts
  NoPort = "none"
  Local = "h"
  LidOf <- MCLidOf
  Routes <- MCRoutes
  Leads <- MCLeads
  MaxHops = 4
  PathSl <- MCPathSl
  Agent <- MCAgent
  Managers <- MCManagers
  Tools <- MCTools
  MaxRuns = 2
  Switch = "s"
  NumPorts = 6
  SpBlock = 3
  SpRead = 2
  CtBlock = 2
  MaxLimit = 3
  Attrs <- MCAttrs
  AskedPorts = {0, 1, 7}
INVARIANTS AnswersAreNamed RouteIsKept ShownIsSet
PROPERTIES OnlyAskedChanges
CHECK_DEADLOCK FALSE
