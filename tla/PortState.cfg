SPECIFICATION Spec
CONSTANTS
  PlainFields = {"lid", "smlid", "mtu", "mkey"}
  Scenarios <- MCScenarios
  SmValue = 9
  MaxSends = 2
INVARIANTS PartIsExtended WarnsIfNotBest
PROPERTY UnaskedIsUntouched
CHECK_DEADLOCK FALSE
