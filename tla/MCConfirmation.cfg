\* Two requests, of one device or of two, the second perhaps before the first is
\* answered; three answers at any time, also for the same prompt.  Two timer ids:
\* they wrap around and are used again.
\* A run stops when BlueZ asks nothing more.
SPECIFICATION FairSpec
CONSTANTS
  Devices = {d1, d2}
  MaxAsks = 2
  MaxAnswers = 3
  MaxTimerId = 3
INVARIANTS TypeOK WatchedOver FirstDecisionCounts
PROPERTIES AutoCancelInTime
CHECK_DEADLOCK FALSE
