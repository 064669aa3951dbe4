SPECIFICATION Spec
CONSTANTS
  Handles = {c1, c2}
  Dummy = dummy
  Listener = listener
  MaxThreshold = 2
  MinThreshold = 1
  SendSpace = 2
  MaxWaitEvents = 4
  Faults = {}
  MaxStream = 4
  MaxChunk = 2
  MaxConns = 3
  MaxFaults = 0
SYMMETRY Symmetry
INVARIANTS
  TypeOK
  ListsAligned
  NoInheritedBuffer
  BuffersAreSuffixes
  InOrder
  NoLostWakeup
  NothingKeptWithoutClients
PROPERTIES
  LossyFanout
CHECK_DEADLOCK FALSE
