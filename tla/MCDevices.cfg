\* One device, which may be there at the start, come, change and go; a request for
\* it.  The client joins once, at any stage of a start; one crash of either daemon.
\* A run stops when the bounds are reached.
SPECIFICATION Spec
CONSTANTS
  Addresses = {d1}
  MaxRequests = 1
  MaxJoins = 1
  MaxExternal = 2
  MaxCrashes = 1
INVARIANTS TypeOK ListAgrees TrustFollows NoRequestForgotten
CHECK_DEADLOCK FALSE
