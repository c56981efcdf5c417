SPECIFICATION TracertSpec
CONSTANTS
  Nodes <- MCNodes
  Switches <- MCSwitches
  NumPorts <- MCNumPorts
  Cable <- MCCable
  LidOf <- MCLids
  Jobs <- MCJobs
  Runs <- MCRuns
  MaxHops = 5
  RouteMax = 6
INVARIANTS TrailIsForwarding RouteIsFound McPathIsShortest
CHECK_DEADLOCK FALSE
