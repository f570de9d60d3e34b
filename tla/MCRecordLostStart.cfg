\* Three requests are enough: a start, its stop and a start again.
SPECIFICATION FairSpec
CONSTANTS
  MaxRequests = 3
  MaxCrashes = 0
  EarlyEnds = {}
PROPERTIES AcceptedStartIsServed
CHECK_DEADLOCK FALSE
