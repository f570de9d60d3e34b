\* Readings that round up, down, and below zero towards it; two changes, so that a
\* temperature comes back after a failure.  One other notification that a command may
\* leave in libdbus' queue, one client, one crash of either daemon.
SPECIFICATION TemperatureFairSpec
CONSTANTS
  Readings <- MCReadings
  MaxSensorChanges = 2
  MaxOthers = 1
  MaxSends = 1
  MaxJoins = 1
  MaxCrashes = 1
  MaxInFlight = 1
INVARIANTS TemperatureTypeOK NearestDegree
PROPERTIES TemperatureArrives OthersAreHandled
