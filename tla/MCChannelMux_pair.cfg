SPECIFICATION Spec
CONSTANTS
  MaxLocalChannel = 1
  MaxChannels = 2
  MaxOutput = 1
  DefaultWindow = 1
  DataSize = {1}
  MaxInbox = 1
  ServerSends <- RunTypes
  Compliant = TRUE
INVARIANTS
  NoCommandForgotten
  SuspendedInTail
  ResultComplete
CHECK_DEADLOCK FALSE
