SPECIFICATION Spec
CONSTANTS
  MaxLocalChannel = 1
  MaxChannels = 1
  MaxOutput = 2
  DefaultWindow = 1
  DataSize = {1}
  MaxInbox = 1
  ServerSends <- ChannelTypes
  Compliant = TRUE
INVARIANTS
  TypeOK
  OutputBounded
  WireOrder
  ReleasedWhenDead
  ServerChannelsBounded
  WindowAgreement

  
CHECK_DEADLOCK FALSE
