# raspberrypiservice, verified

TLA+ specifications of the three daemons of this repository, the instances of
them that TLC checks, and theorems about them that TLAPS proves.  Every definition
is translated from the code; `PROJECT.json` gives, for each, the file and the
lines it stands for.

## The system

    web clients  <-- web socket -->  coremgr  <-- system bus -->  recordmgr   (ALSA, sox)
                                        |
                                        +------- system bus -->  hardwaremgr  (BlueZ, oFono, GPIO)

`coremgr` serves web clients, keeps `StateView` and the database of recordings,
and forwards requests.  `recordmgr` captures sound.  `hardwaremgr` is the client
of BlueZ and oFono, and reads the temperature.  The daemons send
each other one-way D-Bus signals: a request is answered, if at all, by a `..._NOTI`
signal that nothing links to it.  In each daemon a `MainWorker` thread owns the
logic and takes events from one `EventQueue`, which D-Bus receivers, the web
socket's I/O thread, timers and workers fill.

### Inventory

| component | state it keeps | operations | interacts with | what is hard |
|---|---|---|---|---|
| event queue, worker loops (`common/Event/EventQueue`, the three `MainWorker::threadFunction`) | `eventList_`, `queueMutex_`, `wakeupMutex_`, `runningFlag_` | `pushEvent`, `hasEvent`, `popEvent`, `waitForEvent`, `stop` | every thread | two nested mutexes, `wait_for` without a predicate, `notify_all` that nobody hears |
| recording session (`RecordHandler`, recordmgr's `MainWorker`, `RecordWorker`) | `RECORD_STATE`; `state_`, `cancelRequested_`, the thread's place in its loop | start, stop, cancel and their notifications, filter | `coremgr` and `recordmgr` over D-Bus, ALSA, detached filter threads | sessions that end by themselves while a stop is on its way, a state that two threads write, a daemon that dies |
| pairing confirmation (`BluetoothAgent`, `HardwareHandler`, `Timer`) | `pendingConfirmations_`, `timerIdMap_`, timer table, next id | request, accept, reject, timeout, release | BlueZ, two daemons, several clients | timeout against late answer, ids used again, requests repeated |
| database pool (`DBThreadPool`, `SQLiteDBHandler`) | `tasksQueue_`, `runningFlag_`, futures | enqueue, execute, stop, join | `MainWorker` blocks on the futures | start-up and shutdown order, broken promises |
| web socket (`WebSocketServer`, `WebSocketSession`) | `sessions_`, per session `message_queue_`, `writing_` | join, leave, send, broadcast, write loop | I/O thread and `MainWorker` | two mutexes taken in two orders, one write at a time, a client that joins during a change |
| BlueZ client (`BluezDBus`, `BluetoothWorker`) | the connection, its mutex; `BLUETOOTH_POWER_STATE`, `SCANNING_BTDEVICE_STATE`, the clients' lists of devices | power, scan, pair, list, connect, disconnect, unpair, trust, signals about devices | BlueZ, `MainWorker` and `BluetoothWorker` on one connection | blocking calls under the mutex, signals that a blocking call reads, refusals that cross changes, either daemon started after the other |
| oFono client (`OfonoDBus`) | `modemPath_`, `activeCallPaths_`; `CALL_STATE` | dial, answer, hang up, signals of calls and modem | oFono, the phone, the other party | state asked for later than the signal, paths used again, the phone that goes |
| phonebook, call history | `phonebook_` | pull | oFono | data passed through |
| temperature (`MonitorWorker`, `GPIO`) | `sensorFile_`, `CURRENT_TEMPERATURE` | measure, notify, compare, broadcast | the hardware, clients | a failed measurement that is broadcast, equal ones that are not, rounding |
| recordings (`AlsaHelper`, `AudioFilter`, `SQLiteDatabase`, files) | the table `audio_records`, `/tmp`, the audio directory | save, filter, insert, list, remove | detached threads, two daemons, clients | two stores changed one after the other, names made from the clock, a daemon that dies in between |
| D-Bus receivers, senders (`common`) | connections | poll, dispatch, send, subscribe | the bus | messages that wait in libdbus, a receiver that is not subscribed yet |
| processes (`main.cpp`, systemd units) | `g_runningFlag` | start, watchdog, signals, stop | systemd | order of stop and join |
| JSON, logging | none | formatting | | |

What makes each of them correct is what its properties say below.  `PROJECT.json`
lists the hazards, each at its line, with the properties that cover it.

## The modules

| module | component | kind |
|---|---|---|
| `EventChannel` | what a queue promises its users: a FIFO channel with one reader | abstract |
| `EventQueue` | event queue and worker loop, lock by lock | detailed, implements `EventChannel` |
| `RecordSession` | both daemons' side of a recording | composed of `RecordHandler`, `MainWorker`, `RecordWorker`, filter threads |
| `Confirmation` | agent, handler, timer | composed |
| `DBThreadPool` | pool, `main` and its client | composed, implements `EventChannel` |
| `WebSocketServer` | sessions, I/O thread, broadcast | composed |
| `RecordShelf` | what the record database promises: recordings that are kept until somebody asks otherwise | abstract |
| `RecordStore` | recordings from the file in `/tmp` to their removal | composed of `RecordWorker`, filter threads, `SQLiteDBHandler`, clients; implements `RecordShelf` |
| `Bluetooth` | power, scan, pairing and listing | composed of `HardwareHandler`, `MainWorker`, `BluetoothWorker`, BlueZ |
| `Devices` | the list of devices, trust, start-up and crashes | composed of the same, with clients and both daemons' lives |
| `Calls` | dial, answer, hang up | composed of `HardwareHandler`, `MainWorker`, `BluetoothWorker`, oFono |
| `Temperature` | sensor, monitor, receiver, handler, client | composed |
| `QueueProofs` | theorems about `EventQueue` and about `DBThreadPool`, the two that implement `EventChannel` | |
| `ClientProofs` | theorems about `WebSocketServer` and about `Temperature`, what clients are told | |
| other `...Proofs` | theorems about the module of that name | |
| `MC...` | the instances, one or two configurations each | |

State in a module has the name it has in the code, without the underscore.  What two
threads both inherit from `ThreadBase` is told apart by whose it is (`mainRunning` and
`poolRunning` are `runningFlag_`); `DBThreadPool` and `Temperature` have names of their own
throughout (`PoolInit`, `TemperatureInit`, ...), so that `QueueProofs` can extend the one
together with `EventQueue`, and `ClientProofs` the other together with `WebSocketServer`.  What a
thread has in its program counter is a variable of its own (`worker`, `place`, `io`,
`mainWorker`, ...), with a value per point where another thread can get in between.
What exists only for a property is marked *history* where it is declared.  An
operator whose comment begins with what a version of the code does that this one
does not (`PopEventKeeps`, `StopRecordNOTIOnlySuccess`, ...) is a mutant: it is in no
next-state relation, and `PROJECT.json` says which property it breaks.

### EventQueue

`pushEvent` is three steps (`PushBack`, `NotifyEvent`, `PushReturn`), because
`notifyEvent` takes `wakeupMutex_` while `queueMutex_` is held.  `waitForEvent` is
`WaitLock`, `WaitFor`, `WaitTimeout` and `WaitReturn`: locking, giving the mutex up,
waking on time or by a notify, and coming back.  `hasEvent` and `popEvent` are one
critical section each, with a gap between them.  An event is an object that is
pushed once; what it means belongs to the component that handles it.
`ImplementsChannel` is the refinement: `accepted` and `handled` map to the
channel's own, and all steps of locks and waiting stutter.

### RecordSession

`toRecord` and `toCore` are D-Bus followed by the receiving queue.  `StartRecord`,
`StopRecord` and `CancelRecord` are `RecordHandler`'s requests, `...NOTI` its
notifications, `StartRecording`, `StopRecording` and `CancelRecording` what
`MainWorker` does under `RecordWorker`'s mutex.  The thread function is split where it
reads or writes what others write: the predicate, opening the device, the loop
condition (`LoopSeesStop`), the end of the loop, the WAV file, the filter event, and
`FinishSession`, which sets `IDLE`.  `LoopEndsEarly` is the maximum duration or a capture
error.  `Crash` loses the process, its queue and its detached filter threads;
`Restart` is systemd's.

### Confirmation

A request of BlueZ is parked (`HandleRequestConfirmation`), shown, given a 30 s timer,
and closed by `ConfirmRequest`.  Timers hold the order in which they will expire, since
all last 30 s; several may expire in one go (`ExpireTimers`) and their events are
pushed one by one.  `CreateNewTimerId` wraps at `MaxTimerId` (INT32_MAX in the code, 3 in the
instance) and skips ids in use.  The number of a request travels along as history:
the code knows only the device's address.

### DBThreadPool

From the constructor, which creates threads that test a flag `run` has not raised
yet, to the end of `main`: `MainStep`s are the calls `main` makes in order,
`ThreadStep`s the loop of each pool thread, with `Block` the predicate that is
evaluated under the mutex.  A task that finds the pool closed breaks its promise,
and the exception `future.get()` throws ends the process (`aborted`).
`PoolIsChannel` maps the submitted tasks to `accepted` and the executed ones to
`handled`: several threads compete for the queue, yet `MainWorker` sees a FIFO channel,
because a handler blocks on its future before the next one may submit.

### WebSocketServer

The I/O thread accepts, joins (insert, read the state, send it), reads, writes and
leaves; `MainWorker` changes the state and broadcasts it.  Both mutexes are there, and
so is the order in which each thread takes them.  A state is a version number; a
client's `view` is the last version it got.

### RecordStore

A recording is a number, and a file is the number of the recording whose audio it
holds.  The names of all its files come from the second in which it was saved
(`SaveWavFile`), by a clock that may show a second twice.  The filter thread is split
where it touches a file or the bus: it finds its source or not, sox succeeds or not and
then may leave part of a file, the result or the unfiltered source is copied, the
temporary file removed, the notification sent, the source removed.  Each copy and each
removal may fail: a copy may break off with part of the file written (`CopyThrows`),
the temporary file may stay although the copy is there (`RemoveTempThrows`, after which
`applyFilter` reports a failure), and so may the source (`RemoveSourceFails`, which is
logged).  `InsertAudioRecord` and its failures, `GetAllRecords` with its limit, the
`DELETE` (`RemoveAudioRecord`, `RemoveFails`) and the removal of the file after it
(`DeleteFile`, `DeleteFileFails`) are steps of the core manager; either daemon may die
between any two.  `strays` is history: the names under which an error may have left a
file.  `RecordShelf` is the promise: a recording gets
on the shelf once, and leaves it only after somebody has asked for that one to be
removed.  The shelf is what the files hold that the rows name.

### Bluetooth

One connection with a recursive mutex.  `CallBluez` takes the mutex until the reply
is read; `ReadReply` and `ReadOther` are `dbus_connection_send_with_reply_and_block`, which
moves everything it reads into libdbus' queue.  `Poll` waits for the socket only, and
`ReadWrite`, the handlers and `Dispatched` run under the mutex.  BlueZ signals a property
change before or after its reply, or refuses.  Pairing is a call that returns only
when the user has answered the agent's question, or BlueZ gives up; a client that joins
has everything listed again.  One device, without its address.

### Devices

What clients show of every device, and the power state, against what BlueZ has.  A
call to BlueZ or a handler is one step, as in `Calls`, except the handler of a property
change, which calls BlueZ twice (`inspected`): `GetAllDeviceProperties`, then
`TrustAndNotify`.  BlueZ may refuse or not answer either of the two, as it may refuse any
request: `GetAllFails` skips the update, `TrustFails` is logged and the notification
goes out as if the device were trusted.  Only `GetManagedObjects` must be answered:
`initializeAdapter` throws otherwise and nobody catches it, so that its failure is a
`CrashHardware`.  Both daemons start and die: the hardware
manager lists the devices, then subscribes to BlueZ's signals, then to the core
manager's commands, and what is sent before is lost.  `missed`, `stale` and `deaf` are
history: which losses the properties do not count.

### Calls

A request to oFono, with oFono's part of it, is one step because the mutex keeps
handlers out; answering is two (`FindIncomingCall`, then `Answer` or `AnswerFails`), as
oFono may act in between.  Handlers ask for the state the call has when the signal
is dispatched.  Signals may be delayed for as long as one likes, which covers those
that wait in libdbus' queue.  `refused`, `overlapped` and `lost` are history: a request
that was not carried out, two calls at a time, calls that went with the modem
without being announced.

### Temperature

Thousandths of a degree from the sensor, and what casting them plus a half to
`int` makes of them (`Degrees`).  `MonitorWorker` notifies after every measurement,
also after a failed one.  The core manager's connection is shared by all its threads:
a command that is sent may read the socket, and what it read waits in `incoming`, which
`DBusReceiver`'s `poll` does not see (`Poll`, `ReadWrite`, `PopMessage`).  Every other
notification is an `Other`.

## What is checked

Each module has a type invariant, which its passing run checks (that of `RecordSession`
also bounds the filter threads by the requests, so that no session is filtered twice);
beside it:

| run | property | what it says of the code |
|---|---|---|
| `MCEventQueue` | `ConservesEvents` | handled, in hand and listed events are those accepted, in order |
| | `ImplementsChannel` | the queue implements `EventChannel` |
| | `EveryEventHandled` | a notify that nobody hears delays an event but loses nothing |
| `MCRecord` | `OneRequestOutstanding` | `PROCESSING` serialises the exchange |
| | `CancelDiscards` | a cancelled recording is never written, although the next start resets the flag |
| | `NoPhantomRecording` | `RECORDING` is not shown for a recording that is over |
| | `StopAnswered` | a stop brings `STOPPED` back, after a crash too |
| `MCRecordStore` | `ImplementsShelf` | every row gives the audio it was made for; only what somebody meant to remove is removed |
| | `RemovalSparesOthers` | no file is deleted that another row names, whether names clash or not |
| | `NothingLeftBehind` | when all is quiet, every file has its row and `/tmp` is clean, but for what an error left under the names of its own recording |
| | `EveryRecordingReported` | a recording that was saved ends in a row or a failure the clients hear of |
| `MCConfirmation` | `FirstDecisionCounts` | one reply, and it is the first decision |
| | `WatchedOver`, `AutoCancelInTime` | a parked request always has something left that will answer it, and is closed |
| `MCDBThreadPool` | `PoolIsChannel` | no database operation is lost, doubled or overtaken |
| | `FutureBecomesReady`, `CleanShutdown` | handlers do not hang; `main` ends |
| `MCWebSocket` | `OneWriteAtATime`, `LatestToldIsState` | one `async_write` per stream; who joins during a change is not left with the old state |
| | `EveryClientCatchesUp` | every client that stays is served; no deadlock, except the one the next table shows |
| `MCBluetooth` | `AdapterAgrees` | when nothing is on its way, the core manager knows what the adapter does |
| | `RequestsAnswered` | `PROCESSING` ends, and pairing is heard of, unless the answer is stranded in libdbus' queue |
| `MCDevices` | `ListAgrees` | what a client ends up with is what BlueZ has, whenever it joined and whoever died |
| | `TrustFollows` | a paired and connected device ends up trusted, although the decision rests on an old answer, unless BlueZ failed to give or to take the answer |
| | `NoRequestForgotten` | a connect, disconnect or unpair is answered, by a failure or by a signal about the device, unless BlueZ fails to say what became of the device |
| `MCCalls` | `IdleWhenOver`, `CallAgrees` | `CALL_STATE` is left as the calls are |
| `MCTemperature` | `NearestDegree` | a client shows the nearest degree, although equal measurements are not broadcast |
| | `TemperatureArrives` | a temperature that lasts gets through, across failures and restarts |
| | `OthersAreHandled` | the monitor's notifications wake `poll` for whatever libdbus' queue hides |

These say what the code, a comment or a message promises, and do not hold:

| run | promise | what happens |
|---|---|---|
| `MCRecordLostStart` | the worker waits "until startRecording() is called" | a start accepted while the last session cleans up is wiped out by `state_ = IDLE` at its end; `PROCESSING` stays |
| `MCWebSocketDeadlock` | "Stop writing on error" | `leave` is called with `queue_mutex_` held and wants `mutex_`; a broadcast has it and wants `queue_mutex_` |

### Conditions

A property of a passing run that has a condition names what it leaves to another
one, or what the code does not promise:

- `OneRequestOutstanding` and `CancelDiscards` hold as long as no session has ended
  unasked and nothing has crashed.  The refusal of a stop that crossed such an end
  arrives after the end itself, sets `STOPPED`, and lets a start through while something
  is still on its way: from then on requests and answers are no longer in step.  What
  still holds then are `NoPhantomRecording`, until a crash, and `StopAnswered`.
- `AutoCancelInTime` and `WatchedOver` end with the first answer that comes later than
  its timeout: a timeout leaves its id in `timerIdMap_`, and a late answer of that device
  stops the timer that has the id by then, perhaps that of another device.
  `FirstDecisionCounts` is about a device that asks once, because an answer does not say
  which request it is to.
- `CleanShutdown` excludes a task in the queue at the moment of `stop()`: its handler
  blocks on the future and `main` on the handler.
- `EveryClientCatchesUp` excludes `WaitForEachOther`, the deadlock.
- `ImplementsShelf` and `NothingLeftBehind` end when two recordings get the same name
  (`clashed`: saved in the same second, or the clock was set back): a row may then give
  another recording's audio, or a thread find that another has removed its source.
  `RemovalSparesOthers` and `EveryRecordingReported` need no such condition.
  `NothingLeftBehind` also leaves out what the code does leave when something fails,
  which nothing in the repository collects (`strays`): a copy that throws leaves the
  temporary file, and perhaps a part of the copy; a temporary file that cannot be removed
  leaves itself and its copy, of a recording that is reported as failed; an insertion that
  fails leaves the file in the audio directory; a source or a recording that cannot be
  removed stays, and the clients hear that the recording is gone.  What it does say is
  that a failure leaves no file but these, under the names of the recording it
  happened to.  It excludes a crash, which leaves `/tmp` as it is, or, between `DELETE` and
  the removal, a file without a row.  `EveryRecordingReported` excludes a crash, which
  loses what is in flight.
- `AdapterAgrees` says nothing of scanning once a stop has reached BlueZ after the scan
  had ended by itself, or a start while it ran (`crossed`): `stopScanBTDeviceNOTI` takes
  the refusal for a scan that goes on, and `SCANNING` stays until the next client joins.
  `RequestsAnswered` of `Bluetooth` excludes `Stranded`, the answer in libdbus' queue.
- `ListAgrees` excludes an object that has not been signalled or listed since a change
  that came while nobody was subscribed, or of which BlueZ then did not give the
  properties (`stale`), and a client whose `INITIALIZE_BLUETOOTH` met a
  hardware manager that had listed the devices and did not listen yet (`deaf`).
  `TrustFollows` excludes devices whose last signal was lost, or for which BlueZ then failed
  `GetAll` or `Set Trusted` (`missed`): `trustDevice` only logs the error, nobody tries again
  before the next change, and a listing trusts nobody.  `NoRequestForgotten` excludes
  `stale` devices: a success is told by the signal that follows it and by nothing else.
  Any word about the device counts as an answer, since that is all a client gets.
- `CallAgrees` is about one call at a time for which every request was carried out.
  `DIAL_CALL_NOTI`, `ANSWER_CALL_NOTI` and `HANGUP_CALL_NOTI` set `IDLE` in any case, so a
  refusal leaves `IDLE` while a call goes on, and so does the end of one of two
  calls.  A call that is "alerting" is in no branch of `callStateChangedNOTI` but the
  last and is shown as `IDLE`; `Expected` accepts that.  `IdleWhenOver` needs none of
  this; it only needs oFono to say that calls end before it says that the modem goes.
- `NearestDegree` leaves out readings below half a degree of frost, which the cast rounds
  towards zero, and it and `TemperatureArrives` a failure followed by the degrees from
  before: the failure is broadcast as 0 without changing `CURRENT_TEMPERATURE`, so the
  next equal reading is not broadcast (`failed`).

### Bounds

| run | bound | why it is enough |
|---|---|---|
| `MCEventQueue` | 3 producers, 3 events | two pushes contend for `queueMutex_` and a third follows; threads of one kind are alike |
| `MCRecord` | 5 requests, 1 crash, any number of automatic ends | two whole sessions and the start of a third, so that each request can meet the cleaning up of the last session |
| `MCRecordLostStart` | 3 requests | start, stop, start |
| `MCConfirmation` | 2 devices, 2 requests, 3 answers, 2 timer ids | one request repeated or two that run together; both ids are used, freed and handed out again; an answer in time, a double one and a late one |
| `MCDBThreadPool` | 2 of the 5 workers and the pool's own thread, 3 tasks | two threads can be in each other's way while a third blocks; one task is executed, one queued, one dropped |
| `MCWebSocket` | 2 clients, 2 changes | a broadcast that has passed one client and not the other, with a second behind it |
| `MCWebSocketDeadlock` | 1 client, 1 change | the deadlock needs no more |
| `MCRecordStore` | 2 recordings, 2 seconds, 2 removals, 1 crash, lists of 1 row, any failures | two filter threads with the same name or not; the same record asked to be removed twice, by a list from before the removal; a list that leaves a row out |
| `MCBluetooth` | 3 requests, 1 external change | two requests that cross each other and a change; a scan can be started, the adapter switched off, the scan stopped |
| `MCDevices` | 1 device, 1 request, 1 join, 2 external changes, 1 crash | devices do not influence each other; a change that crosses a request, and another behind a crash; each of them may meet a call that BlueZ fails.  Instances with two joins (18 million states) and with two requests and no crash (4 million) hold too but take too long to run regularly |
| `MCCalls` | 2 paths, 2 calls, 2 requests, the phone comes and goes | one call after the other on the same path, or two together; `MaxInFlight` = 3 lets oFono act while three messages are on their way, enough for a call to begin, change and end behind the back of the core manager |
| `MCTemperature` | readings -1.4, 0.4 and 20.7 degrees, 2 changes, 1 other notification, 1 command, 1 join, 1 crash | one reading is rounded up, one down, one towards zero; a temperature goes and comes back; one message can be hidden in libdbus' queue |

Bounds are guards of the environment's steps only (clients, BlueZ, oFono, the sensor,
recordings that are made, crashes), and of `MonitorWorker`'s, which waits while the
socket is full.
`CHECK_DEADLOCK FALSE` is set where a run ends because clients have nothing left to
ask, or where the program itself may stop; `MCEventQueue` and `MCTemperature` check
deadlock.

### Fairness

Weak fairness of each thread's steps that do not depend on anybody's wish: the
scheduler runs what can run, a `wait_for` runs out, an ALSA read returns, systemd
restarts the record manager (`Restart=always`), a timer's 30 s and a D-Bus call's 25 s
pass, BlueZ answers a method call.  No client has to ask or answer anything, BlueZ
and oFono have to signal nothing on their own, no thread has to be started or
stopped, no write has to fail, nothing has to be recorded or removed.  `Calls` and
`Devices` have no liveness property and no fairness: a signal stranded in libdbus' queue
need never be dispatched, as `Bluetooth` shows.  On the core manager's own connection
the monitor's regular notifications prevent that, as `OthersAreHandled` shows; it rests
on `MonitorWorker` being scheduled again and again.

## What is proved

For every value of the constants, by TLAPS.  Theorems that state a property of a run
are named with it:

| module | theorems |
|---|---|
| `QueueProofs`, event queue | `TypeCorrect`, `LockDiscipline` (`LocksMatch`), `PopIsNeverNull` (`PopFindsEvent`), `Conservation` (`ConservesEvents`), `Refinement` (`ImplementsChannel`) |
| `QueueProofs`, pool | `PoolTypeCorrect` (`PoolTypeOK`), `OneTaskAtATime` (`Serial`), `PoolRefinement` (`PoolIsChannel`) |
| `RecordSessionProofs` | `TypeCorrect`, `NoPhantom` (`NoPhantomRecording`), `OneRequest` (`OneRequestOutstanding`), `Discards` (`CancelDiscards`) |
| `ConfirmationProofs` | `TypeCorrect`, `Watched` (`WatchedOver`, as long as `IdsSuffice`), `FirstCounts` (`FirstDecisionCounts`) |
| `ClientProofs`, web socket | `TypeCorrect`, `WritesDoNotOverlap` (`OneWriteAtATime`), `NobodyKeepsOldState` (`LatestToldIsState`) |
| `ClientProofs`, temperature | `TemperatureTypeCorrect` (`TemperatureTypeOK`), `Nearest` (`NearestDegree`) |
| `RecordStoreProofs` | `TypeCorrect`, `Refinement` (`ImplementsShelf`), `Removal` (`RemovalSparesOthers`), `LeavesNothing` (`NothingLeftBehind`) |
| `CallsProofs` | `TypeCorrect`, `OverIsIdle` (`IdleWhenOver`), `StateAgrees` (`CallAgrees`) |
| `DevicesProofs` | `TypeCorrect`, `ClientsSeeTheDevices` (`ListAgrees`), `RequestsAreAnswered` (`NoRequestForgotten`), `TrustIsGiven` (`TrustFollows`) |
| `BluetoothProofs` | `TypeCorrect`, `AdapterIsShown` (`AdapterAgrees`) |

They assume what the modules assume: that threads, the free mutex and the null event are
distinct, that bounds are natural numbers, that readings are integers, that the pool's
own thread is none of its workers, that there are two timer ids at least, that
`EarlyEnds` lists known ways to end, that no call has the path "idle", which `Calls`
uses for a main worker that carries nothing out, that there are finitely many devices
(the listing tells of each of them), and that none has the address "none" or "adapter",
which `Devices` uses for no device and for the adapter.
No theorem bounds the sets or the counters of an instance: they hold for any number of
threads, clients, recordings, devices and calls.

**EventQueue.**  `PopFindsEvent` is inductive with the types alone: only the worker
removes events.  `ConservesEvents` is inductive with the types too; its one hard case,
`PopEvent`, is the lemma `ShiftHead` (moving the head of one sequence to the end of the
one before it), and `PushBack` is `AppendConcat`.  `LocksMatch` is inductive with the
types.  The refinement maps initial states to initial states, `PushBack` to the
channel's `Accept`, `ProcessEvent` to its `Handle`, and every other step to a stutter;
that the event the worker finishes is the one the channel would handle is
`ConservesEvents`.

**RecordSession.**  That filter threads are no more than requests needs `Earned`: the
`START`s and filter events in `toRecord` (`Count`), a start that was accepted and not
served yet, the session the worker is in and the filter threads together are at most
the requests.  A session pushes one filter event, and a lemma each says what adding to,
and taking from, `toRecord` does to the count.

`NoPhantomRecording` is not inductive.  `START` succeeds on its way
to `RecordHandler` make it say `RECORDING` later, so `StartsAreCovered` is added: for
every such notification in `toCore`, an end follows it there, or the worker is
capturing, or has left the capture loop and still owes the report of its end.  The two
together, as long as nothing has crashed (`PhantomInv`), are inductive; there is a lemma
for each kind of step (a notification that reports an end, one that does not, one that
is consumed, none at all).

`OneRequestOutstanding` counts; its invariant, `ExchangeInv`, says where the one request
is.  `Phases`: while `RECORD_STATE` is `PROCESSING` exactly one of four things is the
case, the request is in `toRecord`, its answer is in `toCore`, the worker is starting,
or the worker is stopping; otherwise none is.  `Follows`: a session that nobody has
asked to end is running whenever `RECORDING` is shown, a stop or cancel is on its way, or
a successful start is being reported.  `Obeys`: where the worker is tells what it was
told; its last line, that a cancel still stands when the captured sound would be
written, is `CancelDiscards`.  All of it while `Calm`; a lemma (`StaysCalm`) says that
calm is never regained, so no step has to establish the phases anew.

**Confirmation.**  The type of `timerIdMap_` rests on `createNewTimerId`: with fewer
timers than ids some id is free (`SomeIdIsFree`, by the pigeonhole principle), so the
search has a least number of steps after which it stops (`Least`), and that id is free
(`NewTimerIdIsFree`).  `WatchedOver` needs `WatchInv`: no two timers have the same id, and
the id `timerIdMap_` remembers for a device is that of the running timer of the prompt
its clients show, unless that timer has fired.  Then an answer in time stops no timer
but its own.  The theorem assumes `[]IdsSuffice`, that no question is shown while all
ids are taken: 2^31 - 2 of them in the program, of which each lasts 30 s.
`FirstDecisionCounts` needs `DecisionInv`: while the one request of a device is parked, the
first decision about the device that is on its way to the agent gives the verdict that
was decided first, and if there is none nothing has been decided.  That nothing is on its
way about a device that has not asked yet is `Numbered`: no event, timer or prompt has a
number that has not been asked.

**DBThreadPool.**  `Serial`: `MainWorker` blocks on its future, so the queue and all threads
together hold at most the one task it waits for.  With it, taking and executing a task
maps to the channel's `Handle` of the oldest accepted one.

**WebSocketServer.**  `WritesMatch`: `writing_` is set exactly while a write is posted or in
flight, or the I/O thread is leaving with `queue_mutex_`; while it is, the queue has a
message.  `ToldInv`, for the state: a session that the running broadcast has passed, or
has no broadcast to wait for, has been sent the present version last, and one that is
joining will be sent the version read under `mutex_`.

**RecordStore.**  As long as no name has clashed, every file with a recording's name
holds its audio, a recording is in at most one of its thread, the bus and the table, ids
are used once, and the path being deleted is in no row: then a step of the thread, the
table or a file is `Keep`, `Ask`, `Discard` or a stutter of the shelf.  `Removal` needs only
that the path of the row that is deleted is unique in the table.  `NothingLeftBehind`
speaks of a state in which nothing is under way; its invariant, `Tidy`, says of any state
to whom each file belongs: a file in `/tmp` to a thread that has yet to remove it, a file
in the audio directory to a row, to a thread or a report on its way that will become
one, or to the removal that has deleted its row and not yet the file; or else its name is
among `strays`.  There is a lemma for each step that can fail: what it leaves it also
names.

**Calls.**  Three invariants, of which the last needs the other two.  `Comes` folds the
notifications on their way to `HardwareHandler` into what it will show once it has read
them; the last one that sets `CALL_STATE` decides.  `Chain` says for each path that the
signals about it alternate, beginning with what `OfonoDBus` knows and ending with what
oFono has: so a `CallAdded` finds its path unknown, a `CallRemoved` finds it known, and
`CALL_ENDED` is sent for every call that has been announced.  It needs that oFono says of
each call that it ends before it says that the modem goes (`~ lost`).  `Justified` is about
what will be shown: not `IDLE` only while there is a call, a signal that will end in
`CALL_ENDED`, or a request under way; and, for a call that is alone and whose
requests were carried out, what will be shown is its state unless the signal of its last
change is still to be dispatched, or the call is still to be asked about (`AloneInv`).
`IdleWhenOver` and `CallAgrees` are these with empty queues.

**Devices.**  `Agreed` says of every device and of the adapter, in any state, that the last
word about it on its way to the clients is the truth, by the three stages of that way: if
`signals` has a word about it, the last one there is true (a property change says nothing
but that the device is there, for `BluetoothWorker` asks what it is); else if the worker has
just been answered about it, the answer is true still; else the last word in `toCore`, and if
that has none, what the clients show, unless there is a listing to come (`ToBeTold`) or
the change was missed (`stale`).  A removal is the word that nobody but BlueZ gives, so a
listing need not repeat it (`Settled`).  Each kind of step appends a word, moves the first one
on, or changes the truth and says so; for each there is a lemma about the last word of a
sequence.  A property change that comes to nothing because `GetAll` failed hands nothing on: then
the device is `stale` if that was the last word (`AgreedDropped`).
`ListAgrees` is `Agreed` with empty queues.  `NoRequestForgotten` comes from
`Answering`: of each open request, it or something that answers it is in one of the
same places, or its device is `stale`; a property change whose device is gone by the time
it is handled answers nothing, but then `Agreed` gives the removal that is on its way
behind it.  `TrustFollows` comes from `Trusting`: for a device that should be trusted, is
not, and whose last signal has not come to nothing, a property change is on its way, or
the worker holds an answer that is up to date.

**Bluetooth.**  `Types` adds to the types that the connection's mutex does its work: while
`MainWorker` makes a call nobody dispatches (`Called`), and the socket holds at most one
reply, only while it is awaited, and of the kind its call returns (`Awaited`).  `Agreed`
says of the power and of the scan, in any state, that the last word about it is the
truth, by four stages: the last signal in libdbus' queue and the socket, if there is one
(`SignalTells`); else the reply in the socket to the call `MainWorker` waits for, if what
the call's failure or success makes it say is about that switch (`AnswerTells`); else the
last notification in `toCore`; and if there is none, what `HardwareHandler` shows, unless
a request to change it is on its way (`Told`), for `PROCESSING` says nothing of it.  A
signal counts for more than the reply, for it is dispatched only after the reply has been
read, whichever came first; so a refusal, of which `bluetoothPowerOnNOTI` makes
the opposite of what was asked, must be true itself or leave a true signal to be dispatched.
That is so for the power; for the scan it is so until `crossed`.  Each of BlueZ's changes
appends a true signal, each answer a true answer, and every other step hands the last
word on to the next stage; there is a lemma for each of these, about queues that end in
a given message.  `AdapterAgrees` is `Agreed` with nothing on its way.

**Temperature.**  `CURRENT_TEMPERATURE` is the degrees of the last successful measurement
handled (`CurrentIsLast`), and a client that saw no failure shows it (`ClientIsCurrent`);
the rest is arithmetic of the cast.

Only model-checked: all liveness (the prover has no rule for fairness, `ENABLED` or
leads-to).  Every invariant, every action property and every refinement that a run checks
is a theorem.  No `RECURSIVE` operator is used.

## What is not modelled

- The contents of messages, numbers, texts, samples: data that no property here tells
  apart.  Marshalling, and a message that cannot be built or sent for want of memory.
- Data races as such: `pendingConfirmations_` is a `std::map` that two threads change
  without a lock, and `message_queue_` is read outside its mutex.  The modules treat
  each access as one step.
- `RecordWorker::stop` and the other workers' at shutdown, except the database pool's;
  the signal handler and the watchdog of the three `main`s, whose question is one of
  seconds (a kick every 10 s against `WatchdogSec=10`); failing constructors.
- Stopping the web-socket server, and the parsing of what clients send.
- Phonebook and call history, which are passed through; `handleOfonoPropertiesChanged`,
  which `dispatchMessage` never calls; several modems; the agent's methods other than
  `RequestConfirmation` and `Release`, which answer BlueZ and keep nothing;
  discoverability, which is switched with the power.
- That oFono answers `org.freedesktop.DBus.Properties.GetAll`: `Calls` assumes that it
  does for a call that exists.  BlueZ's answers are not assumed, see `Devices`.
- Opening, closing and the text of SQL statements; a `DELETE` that returns its row and
  whose commit then fails when it is finalised, so that the row stays and its file goes.
- The noise profile sox writes beside the temporary file, which `applyFilter` removes.
- `remote_endpoint()`, which throws on the I/O thread when the peer has gone by the time a
  connection is accepted or read again, and the error code of the handshake, which
  `start()` ignores: a client of `WebSocketServer` goes by a read or a write that fails.
- Formatting, logging, the vendored JSON library.

## Plan

1. Core: `EventQueue`, `RecordSession` with their proofs; `Confirmation`,
   `DBThreadPool`, `WebSocketServer`, `Bluetooth`, `Calls` checked.  Done.
2. `RecordStore` with `RecordShelf`; `Devices`, with the start-up and the crashes of both
   daemons; `Temperature`, with the poll loop of the core manager's receiver; pairing
   and listing in `Bluetooth`; `DBThreadPool` as a second `EventChannel`.  Done.
3. Proofs of `DBThreadPool`, `WebSocketServer`, `RecordStore`, `Temperature`, `Calls`,
   `Devices`, `Bluetooth`, the exchange of `RecordSession`, and all safety of
   `Confirmation`.  Done.
4. Left: signal handler, watchdog, stop and join of each `main`, and `RecordWorker::stop`.

Each run asks one question of one part; a new question takes the place of a shallower
one.

## Running it

    tlc -workers 2 -config MCRecord.cfg MCRecordSession
    tlapm RecordSessionProofs.tla

Each `.cfg` belongs to the module `PROJECT.json` names for its run.  The longest runs
take a minute or two.
