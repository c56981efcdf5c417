SPECIFICATION FairSpec
CONSTANTS
  Dests = {1, 2, 3}
  NoLid = 0
  Redirect <- Redirections
  Settings <- PortRetries
  DefRetries = 2
  MaxCalls = 2
INVARIANTS OwnReply OneInFlight TimeoutIsEarned
PROPERTY CallEnds
CHECK_DEADLOCK FALSE
