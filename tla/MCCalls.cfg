\* Two paths and two calls, one after the other on the same path or at the same
\* time; the phone comes and goes.
\* A run stops when the bounds are reached.
SPECIFICATION Spec
CONSTANTS
  CallPaths = {p1, p2}
  MaxRequests = 2
  MaxCalls = 2
  MaxModemChanges = 2
  MaxInFlight = 3
INVARIANTS TypeOK IdleWhenOver CallAgrees
CHECK_DEADLOCK FALSE
