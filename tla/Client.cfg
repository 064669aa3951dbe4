CONSTANTS
  MaxArgs = 4
  Integral <- MCIntegral
  Fractional <- MCFractional
  Lines <- MCLines
  MaxPackets = 4
  MaxViews = 2
  InFlight = 2
SPECIFICATION FairSpec
INVARIANTS
  TypeOK
  PtsNotBehind
  ImagesBalanced
  
  StartsWithWhatWasGiven
PROPERTIES
  NobodyWaitsForEver
  ShownInOrder
CHECK_DEADLOCK FALSE
