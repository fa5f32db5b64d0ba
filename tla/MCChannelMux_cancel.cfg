SPECIFICATION Spec
CONSTANTS
  MaxLocalChannel = 0
  MaxChannels = 1
  MaxOutput = 2
  DefaultWindow = 2
  DataSize = {1}
  MaxInbox = 1
  ServerSends <- AllTypes
  Compliant = TRUE
PROPERTIES
  CancelContained
CHECK_DEADLOCK FALSE
