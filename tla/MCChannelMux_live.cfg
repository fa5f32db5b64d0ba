SPECIFICATION FairSpec
CONSTANTS
  MaxLocalChannel = 0
  MaxChannels = 1
  MaxOutput = 1
  DefaultWindow = 1
  DataSize = {0, 1}
  MaxInbox = 1
  ServerSends <- AllTypes
  Compliant = TRUE
PROPERTIES
  CommandSettles
  ClosingReleased
CHECK_DEADLOCK FALSE
