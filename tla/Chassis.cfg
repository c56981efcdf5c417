SPECIFICATION Spec
CONSTANTS
  Nodes <- MCNodes
  Switches <- MCSwitches
  NumPorts <- MCNumPorts
  Cable <- MCCable
  LidOf <- MCLids
  Vendor <- MCVendor
  Device <- MCDevice
  Described <- MCDescribed
  GuidMod4 <- MCGuidMod4
  Sys <- MCSys
  Box <- MCBox
  Discovered <- MCDiscovered
  Routers <- MCRouters
  CharMod = 4
INVARIANTS BoardsOfOneBox BoxIsWhole ExternalPortsDiffer GroupedBySystem ListedOnce
CHECK_DEADLOCK FALSE
