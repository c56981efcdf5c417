CONSTANTS
  Nodes <- MCNodes
  Switches <- MCSwitches
  NumPorts <- MCNumPorts
  Cable <- MCCable
  LidOf <- MCLids
  EpiPorts <- MCEpiPorts
  Scans <- AllScans
  PathMax = 62
  MaxSmps = 2
SPECIFICATION FairSpec
INVARIANTS
  LinkSymmetric
  RightLinks
  SwitchPortsShareLid
  WholeFabric
PROPERTIES
  ScanEnds
CHECK_DEADLOCK FALSE
