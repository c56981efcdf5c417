CONSTANTS
  plain = plain
  extinfo = extinfo
  Reqs <- MCReqs
  ErrReqs <- MCErrReqs
  MaxSmps = 2
  MaxIssued = 5
SPECIFICATION FairSpec
INVARIANTS
  WorkConserving
  OnePlace
  SentInOrder
PROPERTIES
  ServiceSpec
  Terminates
CHECK_DEADLOCK FALSE
