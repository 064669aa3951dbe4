CONSTANTS
  PacketSize = 4
  BufferSize = 4
  Disorder = {"tsError"}
  MaxStream = 8
  MaxChunk = 6
SPECIFICATION Spec
INVARIANT AssertsHold
CHECK_DEADLOCK FALSE
