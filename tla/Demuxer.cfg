CONSTANTS
  PacketSize = 4
  BufferSize = 4
  Disorder = {"resync", "noSync", "tsError"}
  MaxStream = 17
  MaxChunk = 6
SPECIFICATION FairSpec
INVARIANTS
  TypeOK
  ReadReturns
  BuffersMatchOffset
  OnlyRewindAsserts
PROPERTIES
  NothingLeft
  FeedReturns
  FramesPackets
CHECK_DEADLOCK FALSE
