SPECIFICATION FairSpec
CONSTANTS
  Handles = {c1, c2}
  Dummy = dummy
  Listener = listener
  MaxThreshold = 1
  MinThreshold = 1
  SendSpace = 1
  MaxWaitEvents = 3
  Faults = {"start", "accept", "createEvent", "enum", "netError", "poll"}
  MaxStream = 2
  MaxChunk = 1
  MaxConns = 2
  MaxFaults = 2
PROPERTIES
  StopReturns
CHECK_DEADLOCK FALSE
