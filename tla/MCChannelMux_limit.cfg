SPECIFICATION Spec
CONSTANTS
  MaxLocalChannel = 0
  MaxChannels = 1
  MaxOutput = 1
  DefaultWindow = 1
  DataSize = {1}
  MaxInbox = 1
  ServerSends <- AllTypes
  Compliant = TRUE
PROPERTIES
  LimitContained
CHECK_DEADLOCK FALSE
