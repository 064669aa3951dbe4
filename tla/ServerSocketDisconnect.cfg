SPECIFICATION Spec
CONSTANTS
  Handles = {c1}
  Dummy = dummy
  Listener = listener
  MaxThreshold = 3
  MinThreshold = 1
  SendSpace = 1
  MaxWaitEvents = 4
  Faults = {}
  MaxStream = 3
  MaxChunk = 2
  MaxConns = 2
  MaxFaults = 0
INVARIANTS
  BufferToErase
CHECK_DEADLOCK FALSE
