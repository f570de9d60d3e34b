\* Two clients that come, stay or vanish, two broadcasts; writes to a vanished
\* client are swallowed by TCP or fail.  A run stops when nothing changes any more.
SPECIFICATION FairSpec
CONSTANTS
  Sessions = {s1, s2}
  Io = io
  MainWorker = mainWorker
  Nobody = nobody
  MaxChanges = 2
INVARIANTS TypeOK OneWriteAtATime LatestToldIsState
PROPERTIES EveryClientCatchesUp
CHECK_DEADLOCK FALSE
