SPECIFICATION FairSpec
CONSTANTS
  Handles = {c1, c2}
  Dummy = dummy
  Listener = listener
  MaxThreshold = 3
  MinThreshold = 1
  SendSpace = 2
  MaxWaitEvents = 4
  Faults = {}
  MaxStream = 3
  MaxChunk = 2
  MaxConns = 2
  MaxFaults = 0
PROPERTIES
  Progress
  ClosedClientsLeave
CHECK_DEADLOCK FALSE
