\* Three requests and one thing nobody asked for, so that two requests can cross
\* each other and a change made by somebody else.
\* A run stops when the clients ask nothing more.
SPECIFICATION FairSpec
CONSTANTS
  MaxRequests = 3
  MaxExternal = 1
INVARIANTS TypeOK AdapterAgrees
PROPERTIES RequestsAnswered
CHECK_DEADLOCK FALSE
