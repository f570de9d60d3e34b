\* One client and one broadcast that crosses the failed write of its greeting.
SPECIFICATION FairSpec
CONSTANTS
  Sessions = {s1}
  Io = io
  MainWorker = mainWorker
  Nobody = nobody
  MaxChanges = 1
PROPERTIES StopsWritingOnError
CHECK_DEADLOCK FALSE
