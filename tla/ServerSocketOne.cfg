SPECIFICATION Spec
CONSTANTS
  Handles = {c1}
  Dummy = dummy
  Listener = listener
  MaxThreshold = 5
  MinThreshold = 2
  SendSpace = 3
  MaxWaitEvents = 3
  Faults = {"accept", "createEvent", "enum", "netError"}
  MaxStream = 5
  MaxChunk = 2
  MaxConns = 3
  MaxFaults = 2
INVARIANTS
  InSync
  AssertHolds
PROPERTIES
  LosslessFanout
CHECK_DEADLOCK FALSE
