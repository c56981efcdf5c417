SPECIFICATION TablesSpec
CONSTANTS
  BlockSize = 4
  ChunkSize = 2
  MaxUcast = 11
  MinMcast = 12
  MaxMcast = 17
  Scenarios <- MCScenarios
  MaxEvents = 1
INVARIANTS DumpedWasTrue ValidIsDumped
CHECK_DEADLOCK FALSE
