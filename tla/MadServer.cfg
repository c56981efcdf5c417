\* One client with at most two packets and two tries; a server started twice.
CONSTANTS
  c1 = c1
  Clients <- McClients
  ToolNames <- McTools
  MaxCount = 2
  MaxTries = 2
  MaxStarts = 2
SPECIFICATION FairSpec
INVARIANT AnswersAreAsked
INVARIANT RepliedWasServed
PROPERTY ServerFallsSilent
