\* Three producers and three events: two pushes can contend for queueMutex_
\* while the worker is anywhere in its loop, and one more can follow.
SPECIFICATION FairSpec
CONSTANTS
  Producers = {dbusReceiver, webSocket, timer}
  MainWorker = mainWorker
  Nobody = nobody
  Events = {e1, e2, e3}
  NoEvent = noEvent
INVARIANTS TypeOK ConservesEvents
PROPERTIES ImplementsChannel EveryEventHandled
