SPECIFICATION FairSpec
CONSTANTS
  Window = 1
  MaxWindow = 9
  MaxPacket = 1
  Grants = {1}
  DataSize = {1}
  ChunkSize = {1, 2}
  MaxGranted = 1
  MaxSent = 2
  MaxChunks = 2
  MaxInbox = 1
PROPERTIES
  OpenSettles
  WindowReopens
  ShutdownUnlessBlocked
CHECK_DEADLOCK FALSE
