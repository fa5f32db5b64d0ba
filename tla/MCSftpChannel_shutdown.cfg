SPECIFICATION FairSpec
CONSTANTS
  Window = 1
  MaxWindow = 9
  MaxPacket = 1
  Grants = {1}
  DataSize = {1}
  ChunkSize = {1}
  MaxGranted = 1
  MaxSent = 1
  MaxChunks = 2
  MaxInbox = 1
PROPERTIES
  ShutdownCompletes
CHECK_DEADLOCK FALSE
