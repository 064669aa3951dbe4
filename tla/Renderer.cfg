CONSTANTS
  MaxPieces = 4
  Packets <- MCPackets
SPECIFICATION Spec
INVARIANTS
  TypeOK
  SeenIsReference
  ScanComplete
  FrameHasEverySlice
  ReadsPayload
PROPERTIES
  DecoderFromLastSets
CHECK_DEADLOCK FALSE
