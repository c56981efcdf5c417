SPECIFICATION CountersSpec
CONSTANTS
  NumPorts = 1
  PortZero = TRUE
  Cap = 1
  Threshold = 0
  Scenarios <- AllScenarios
  Counts = {0, 1}
  MaxEvents = 2
  MaxSends = 2
INVARIANTS NothingReportedTwice EveryPortIsReported
PROPERTY ErasedWasRead
CHECK_DEADLOCK FALSE
