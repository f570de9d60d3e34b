\* Two recordings in the same second or not, the second of which may be saved at any
\* time after the first; two removals, perhaps of the same record; one crash of
\* either daemon.  A list of one row leaves one out.
\* A run stops when nothing is recorded or asked any more.
SPECIFICATION FairSpec
CONSTANTS
  MaxRecordings = 2
  Seconds = {1, 2}
  MaxRemoves = 2
  MaxCrashes = 1
  Limit = 1
INVARIANTS TypeOK NothingLeftBehind
PROPERTIES ImplementsShelf RemovalSparesOthers EveryRecordingReported
CHECK_DEADLOCK FALSE
