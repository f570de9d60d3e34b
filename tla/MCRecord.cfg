\* Five requests are two whole sessions and the start of a third.  Sessions may
\* also end at the maximum duration or on a capture error, and the record manager
\* may die once, anywhere, and is started again.
\* A run stops when the clients have nothing left to ask.
SPECIFICATION FairSpec
CONSTANTS
  MaxRequests = 5
  MaxCrashes = 1
  EarlyEnds = {"duration", "error"}
INVARIANTS TypeOK OneRequestOutstanding NoPhantomRecording
PROPERTIES CancelDiscards StopAnswered
CHECK_DEADLOCK FALSE
