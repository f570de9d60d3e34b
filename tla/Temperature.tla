---------------------------- MODULE Temperature ----------------------------
(***************************************************************************)
(* The temperature from the sensor to the clients: MonitorWorker reads it  *)
(* and notifies the core manager again and again, DBusReceiver dispatches  *)
(* what it finds on the connection, HardwareHandler compares and           *)
(* broadcasts.                                                             *)
(*                                                                         *)
(* All threads of the core manager share one connection to the system bus. *)
(* A thread that sends a command flushes the connection, which may also    *)
(* read the socket; what was read then is in libdbus' queue, where         *)
(* DBusReceiver's poll does not see it.  Whatever the daemons tell the     *)
(* core manager can be left there; here it is "other".                     *)
(*                                                                         *)
(* Temperatures are in thousandths of a degree, as the sensor gives them;  *)
(* floats are exact enough for that.                                       *)
(***************************************************************************)
EXTENDS Integers, Sequences

CONSTANTS Readings,    \* what the sensor may measure
          MaxSensorChanges, \* bound: how often the sensor changes
          MaxOthers,   \* bound: other notifications
          MaxSends,    \* bound: commands the core manager sends
          MaxJoins,    \* bound: how often a client joins
          MaxCrashes,  \* bound: times a daemon dies
          MaxInFlight  \* bound: messages in the socket, and events in the queue

ASSUME ConstantsAreNumbers ==
  /\ Readings \subseteq Int
  /\ {MaxSensorChanges, MaxOthers, MaxSends, MaxJoins, MaxCrashes, MaxInFlight} \subseteq Nat

VARIABLES
  sensor, readable, \* what there is to measure, and whether it can be read
  sensorFile,  \* GPIO::sensorFile_ is set
  temperature, \* MonitorWorker's variable
  socket,      \* sent to the core manager, not read
  incoming,    \* read into libdbus' queue, not dispatched
  receiver,    \* where DBusReceiver is: "poll", "awake" or "popping"
  events,      \* in the event queue
  current,     \* StateView::CURRENT_TEMPERATURE
  joined,      \* a client is connected
  shown,       \* what it shows
  changes, others, sends, joins, crashes, \* how many there have been
  handled,     \* history: other notifications handled or lost in a crash
  last,        \* history: what the core manager has measured last
  failed       \* history: a failure was shown, and current did not change since

environment == <<sensor, readable>>
monitor     == <<sensorFile, temperature>>
connection  == <<socket, incoming, receiver>>
core        == <<current, joined, shown>>
count       == <<changes, others, sends, joins, crashes>>
history     == <<handled, last, failed>>
temperatureVars == <<environment, monitor, connection, events, core, count, history>>

Update(ok, t) == [kind |-> "temperature", ok |-> ok, value |-> t]
Other         == [kind |-> "other", ok |-> TRUE, value |-> 0]

\* The sensor may be missing when the hardware manager starts.
TemperatureInit ==
  /\ sensor \in Readings /\ readable = TRUE
  /\ sensorFile \in BOOLEAN /\ temperature = 0
  /\ socket = <<>> /\ incoming = <<>> /\ receiver = "poll" /\ events = <<>>
  /\ current = 0 /\ joined = FALSE /\ shown = 0
  /\ changes = 0 /\ others = 0 /\ sends = 0 /\ joins = 0 /\ crashes = 0
  /\ handled = 0 /\ last = 0 /\ failed = FALSE

-----------------------------------------------------------------------------
(* The hardware manager                                                    *)

Arrive(message) ==
  /\ Len(socket) < MaxInFlight /\ socket' = Append(socket, message)
  /\ UNCHANGED <<environment, incoming, receiver, events, core, history>>

\* A monitor that has nothing to say when it could not measure.
MeasureQuietly ==
  IF sensorFile /\ readable
  THEN /\ temperature' = sensor /\ Arrive(Update(TRUE, sensor))
       /\ UNCHANGED <<sensorFile, count>>
  ELSE UNCHANGED temperatureVars

\* readTemperatureSensor leaves the variable alone when it fails.
Measure ==
  /\ LET ok == sensorFile /\ readable
     IN  /\ temperature' = IF ok THEN sensor ELSE temperature
         /\ Arrive(Update(ok, temperature'))
  /\ UNCHANGED <<sensorFile, count>>

\* From this daemon or the other.
Notify ==
  /\ others < MaxOthers /\ others' = others + 1
  /\ Arrive(Other)
  /\ UNCHANGED <<monitor, changes, sends, joins, crashes>>

SensorChanges ==
  /\ changes < MaxSensorChanges /\ changes' = changes + 1
  /\ \/ sensor' \in Readings \ {sensor} /\ UNCHANGED readable
     \/ readable' = ~ readable /\ UNCHANGED sensor
  /\ UNCHANGED <<monitor, connection, events, core, others, sends, joins, crashes, history>>

-----------------------------------------------------------------------------
(* DBusReceiver                                                             *)

ReceiverStep(from, to) ==
  /\ receiver = from /\ receiver' = to
  /\ UNCHANGED <<environment, monitor, core, count, history>>

\* poll sees the socket, not libdbus' queue.
Poll ==
  /\ ReceiverStep("poll", "awake") /\ socket # <<>>
  /\ UNCHANGED <<socket, incoming, events>>

ReadWrite ==
  /\ ReceiverStep("awake", "popping")
  /\ incoming' = incoming \o socket /\ socket' = <<>>
  /\ UNCHANGED events

\* dispatchMessage and handleMessageNoti push the event.
PopMessage ==
  /\ ReceiverStep("popping", "popping") /\ incoming # <<>> /\ Len(events) < MaxInFlight
  /\ incoming' = Tail(incoming) /\ events' = Append(events, Head(incoming))
  /\ UNCHANGED socket

AllPopped ==
  /\ ReceiverStep("popping", "poll") /\ incoming = <<>>
  /\ UNCHANGED <<socket, incoming, events>>

\* MainWorker, or the thread on which a client joins, sends a command: the flush
\* reads what has arrived.
Flush ==
  /\ sends < MaxSends /\ sends' = sends + 1
  /\ socket # <<>> /\ incoming' = incoming \o socket /\ socket' = <<>>
  /\ UNCHANGED <<environment, monitor, receiver, events, core, changes, others, joins,
                 crashes, history>>

-----------------------------------------------------------------------------
(* HardwareHandler                                                          *)

\* A conversion to int cuts towards zero.
Cut(t) == IF t >= 0 THEN t \div 1000 ELSE - ((- t) \div 1000)

\* A cast alone.
DegreesCut(t) == Cut(t)

Degrees(t) == Cut(t + 500)

Handle(kind) ==
  /\ events # <<>> /\ Head(events).kind = kind /\ events' = Tail(events)
  /\ UNCHANGED <<environment, monitor, connection, joined, count>>

BroadcastTemperature(degrees) == shown' = IF joined THEN degrees ELSE shown

UpdateFails ==
  /\ Handle("temperature") /\ ~ Head(events).ok
  /\ BroadcastTemperature(0) /\ failed' = TRUE
  /\ UNCHANGED <<current, handled, last>>

\* A handler that tells the clients and forgets to remember.
UpdateTemperatureNOTIForgets ==
  /\ Handle("temperature") /\ Head(events).ok
  /\ Degrees(Head(events).value) # current
  /\ BroadcastTemperature(Degrees(Head(events).value))
  /\ last' = Head(events).value /\ failed' = FALSE
  /\ UNCHANGED <<current, handled>>

UpdateTemperatureNOTI ==
  /\ Handle("temperature") /\ Head(events).ok
  /\ Degrees(Head(events).value) # current
  /\ current' = Degrees(Head(events).value) /\ BroadcastTemperature(current')
  /\ last' = Head(events).value /\ failed' = FALSE
  /\ UNCHANGED handled

\* "Temperature change is less than 1 degree. No update broadcasted."
NoUpdate ==
  /\ Handle("temperature") /\ Head(events).ok
  /\ Degrees(Head(events).value) = current
  /\ last' = Head(events).value
  /\ UNCHANGED <<current, shown, handled, failed>>

HandleOther == Handle("other") /\ handled' = handled + 1
               /\ UNCHANGED <<current, shown, last, failed>>

\* sendInitStateToClient.
Join ==
  /\ ~ joined /\ joined' = TRUE
  /\ joins < MaxJoins /\ joins' = joins + 1
  /\ shown' = current /\ failed' = FALSE
  /\ UNCHANGED <<environment, monitor, connection, events, current, changes, others,
                 sends, crashes, handled, last>>

-----------------------------------------------------------------------------
(* Crashes and restarts                                                    *)

Crash == /\ crashes < MaxCrashes /\ crashes' = crashes + 1
         /\ UNCHANGED <<environment, changes, others, sends, joins>>

\* The sensor is looked for again.
RestartHardware ==
  /\ Crash /\ sensorFile' \in BOOLEAN /\ temperature' = 0
  /\ UNCHANGED <<connection, events, core, history>>

RestartCore ==
  /\ Crash
  /\ socket' = <<>> /\ incoming' = <<>> /\ receiver' = "poll" /\ events' = <<>>
  /\ current' = 0 /\ joined' = FALSE /\ shown' = 0
  /\ handled' = others /\ last' = 0 /\ failed' = FALSE
  /\ UNCHANGED monitor

-----------------------------------------------------------------------------
DBusReceiver == Poll \/ ReadWrite \/ PopMessage \/ AllPopped
HandlerStep  == UpdateFails \/ UpdateTemperatureNOTI \/ NoUpdate \/ HandleOther

TemperatureNext ==
  \/ Measure \/ Notify \/ SensorChanges \/ DBusReceiver \/ Flush \/ HandlerStep
  \/ Join \/ RestartHardware \/ RestartCore

\* The threads are scheduled, and MonitorWorker measures again and again.
TemperatureFairness == /\ WF_temperatureVars(Measure) /\ WF_temperatureVars(DBusReceiver)
                       /\ WF_temperatureVars(HandlerStep)

TemperatureSpec     == TemperatureInit /\ [][TemperatureNext]_temperatureVars
TemperatureFairSpec == TemperatureSpec /\ TemperatureFairness

-----------------------------------------------------------------------------
(* Properties                                                              *)

Messages == [kind : {"temperature"}, ok : BOOLEAN, value : Readings \cup {0}] \cup {Other}

TemperatureTypeOK ==
  /\ sensor \in Readings /\ readable \in BOOLEAN
  /\ sensorFile \in BOOLEAN /\ temperature \in Readings \cup {0}
  /\ socket \in Seq(Messages) /\ incoming \in Seq(Messages) /\ events \in Seq(Messages)
  /\ receiver \in {"poll", "awake", "popping"}
  /\ current \in Int /\ joined \in BOOLEAN /\ shown \in {0, current}
  /\ changes \in 0 .. MaxSensorChanges /\ others \in 0 .. MaxOthers
  /\ sends \in 0 .. MaxSends /\ joins \in 0 .. MaxJoins /\ crashes \in 0 .. MaxCrashes
  /\ handled \in 0 .. others /\ last \in Readings \cup {0} /\ failed \in BOOLEAN

\* A client that saw no failure shows what was measured last to the nearest degree,
\* whenever it joined and although equal measurements are not broadcast.  Below half
\* a degree of frost the cast rounds up.
NearestDegree ==
  joined /\ ~ failed /\ last >= -500 =>
    1000 * shown - last \in -500 .. 500

\* The temperature gets through: while the sensor can be read and stays as it is,
\* a client ends up with its degrees, unless the last it saw was a failure and the
\* degrees are those from before.
TemperatureArrives ==
  \A t \in Readings :
    <>[](sensorFile /\ readable /\ sensor = t) =>
      <>[](joined => shown = Degrees(t) \/ failed)

\* Nothing stays in libdbus' queue for good: the notifications of MonitorWorker, which
\* come whether the sensor can be read or not, wake poll for all the others.
OthersAreHandled ==
  \A n \in 1 .. MaxOthers : (others = n) ~> (handled >= n)
=============================================================================
