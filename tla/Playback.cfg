CONSTANTS
  Capacity = 4
  Silence = 2
  Faults = {"init", "newOutput", "allocate", "enqueue", "start"}
  MaxPacket = 2
  Samples = {0, 2, 6}
  MaxDecoded = 10
SPECIFICATION FairSpec
INVARIANTS
  TypeOK
  BuffersAccountedFor
  WholeFrames
PROPERTIES
  PlaysInOrder
  RendererReturns
  EverythingPlays
CHECK_DEADLOCK FALSE
