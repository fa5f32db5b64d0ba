SPECIFICATION TransportSpec
CONSTANTS
  Runtimes <- AllRuntimes
  Restarts = TRUE
  InitialCapacity = 2
  MaximumLength = 5
  MaximumQueued = 10
  PacketSizes <- Sizes
  ChunkSizes <- Chunks
  StreamLength = 12
  HeaderLength = 3
  MaximumPacketLength = 2
  PacketLengths <- Announceable
  MaxFrames = 3
  ByteValues = 4
  CounterBytes = 2
  SequenceNumbers = 3
  InitialCounter <- Counting
  Block = 8
  PacketLimit = 30
  Payloads <- Lengths
  MaxPackets = 2
  Characters <- Letters
  PublicKeys <- AllKeys
  Checks <- HostChecks
INVARIANTS
  TypeOK
  ReleasedOnReject
  DeadClient
  ServerUnderstood
  HostVerifiedFirst
  StreamKept
  FramesKept
  CiphersInStep
  Understood
  KexAgrees
  HostTrusted
PROPERTIES
  AbortEnds
  SocketClosed
CHECK_DEADLOCK FALSE
