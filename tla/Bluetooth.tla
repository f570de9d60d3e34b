----------------------------- MODULE Bluetooth -----------------------------
(***************************************************************************)
(* Scanning, power and pairing: a client's request on its way through      *)
(* HardwareHandler (core manager) and the hardware manager to BlueZ, and   *)
(* what BlueZ says on its way back.                                        *)
(*                                                                         *)
(* The hardware manager has one connection to the system bus and one       *)
(* recursive mutex for it.  Its MainWorker makes blocking calls on it; its *)
(* BluetoothWorker polls the socket and dispatches BlueZ's signals and the *)
(* calls BlueZ makes to the pairing agent.  A successful call tells the    *)
(* core manager nothing, the property change that follows does.  Whoever   *)
(* reads the socket moves everything there is into libdbus' own queue,     *)
(* where only a dispatch finds it.                                         *)
(*                                                                         *)
(* A client that joins has the hardware manager report everything again.   *)
(* There is one device; Devices models the list of them.  toHardware and   *)
(* toCore are the D-Bus connection followed by the queue of the receiving  *)
(* MainWorker.  A request that HardwareHandler ignores changes nothing and *)
(* is not a step.                                                          *)
(***************************************************************************)
EXTENDS Naturals, Sequences, SequencesExt

CONSTANTS MaxRequests,  \* bound: requests HardwareHandler forwards in a run
          MaxExternal   \* bound: things BlueZ does that nobody here asked for

ASSUME BoundsAreNat == MaxRequests \in Nat /\ MaxExternal \in Nat

VARIABLES
  powerState,   \* StateView::BLUETOOTH_POWER_STATE
  scanState,    \* StateView::SCANNING_BTDEVICE_STATE
  view,         \* what the clients were told about the device
  toHardware,   \* commands on their way to, or queued in, the hardware manager
  toCore,       \* notifications on their way to HardwareHandler
  mainWorker,   \* where MainWorker is: "idle", "called" or "waiting"
  call,         \* the call it makes
  worker,       \* where BluetoothWorker is: "poll", "awake" or "dispatching"
  mutex,        \* owner of the connection's mutex
  socket,       \* sent by BlueZ, not read
  incoming,     \* read into libdbus' queue, not dispatched
  powered, discovering, \* properties of BlueZ's adapter
  paired, pairing, \* property of the device; BlueZ waits for its agent
  requests, external, \* how many there have been
  crossed       \* history: a scan was to be started twice, or stopped when over

core     == <<powerState, scanState, view>>
channels == <<toHardware, toCore>>
connection == <<socket, incoming>>
bluez    == <<powered, discovering, paired, pairing>>
vars == <<core, channels, mainWorker, call, worker, mutex, connection, bluez,
          requests, external, crossed>>

Noti(cmd, ok)   == [cmd |-> cmd, ok |-> ok]
Msg(kind, value) == [kind |-> kind, value |-> value]
Reply(ok)       == Msg("Reply", ok)
Replies         == {"Reply", "Objects"}

PowerNoti(on) == Noti(IF on THEN "POWER_ON" ELSE "POWER_OFF", TRUE)
ScanNoti(on)  == Noti(IF on THEN "START_SCAN" ELSE "STOP_SCAN", TRUE)
Objects       == [powered |-> powered, discovering |-> discovering, paired |-> paired]

\* The adapter is found as it is; parseManagedObjects has reported its state.
Init ==
  /\ powerState = "OFF" /\ scanState = "IDLE"
  /\ view = [paired |-> FALSE, prompt |-> FALSE]
  /\ powered \in BOOLEAN /\ discovering = FALSE
  /\ paired = FALSE /\ pairing = FALSE
  /\ toHardware = <<>> /\ toCore = <<PowerNoti(powered), ScanNoti(FALSE)>>
  /\ mainWorker = "idle" /\ call = "none" /\ worker = "poll" /\ mutex = "nobody"
  /\ socket = <<>> /\ incoming = <<>>
  /\ requests = 0 /\ external = 0 /\ crossed = FALSE

-----------------------------------------------------------------------------
(* HardwareHandler: requests                                               *)

Send(cmd) ==
  /\ requests < MaxRequests /\ requests' = requests + 1
  /\ toHardware' = Append(toHardware, cmd)
  /\ UNCHANGED <<toCore, mainWorker, call, worker, mutex, connection, bluez,
                 external, crossed>>

StartScanBTDevice ==
  /\ Send("StartDiscovery")
  /\ scanState = "IDLE" /\ scanState' = "PROCESSING"
  /\ UNCHANGED <<powerState, view>>

StopScanBTDevice ==
  /\ Send("StopDiscovery")
  /\ scanState = "SCANNING" /\ scanState' = "PROCESSING"
  /\ UNCHANGED <<powerState, view>>

BluetoothPowerOn ==
  /\ Send("PowerOn")
  /\ powerState = "OFF" /\ powerState' = "PROCESSING"
  /\ UNCHANGED <<scanState, view>>

BluetoothPowerOff ==
  /\ Send("PowerOff")
  /\ powerState = "ON" /\ powerState' = "PROCESSING"
  /\ UNCHANGED <<scanState, view>>

PairBTDevice == Send("Pair") /\ UNCHANGED core

\* INITIALIZE_BLUETOOTH is sent for every client that joins.
Join == Send("GetManagedObjects") /\ UNCHANGED core

\* A client answers the prompt; Confirmation models this exchange.
AnswerConfirmation(cmd) ==
  /\ Send(cmd)
  /\ view.prompt /\ view' = [view EXCEPT !.prompt = FALSE]
  /\ UNCHANGED <<powerState, scanState>>

(* HardwareHandler: notifications                                          *)

ReceiveNoti(cmd) ==
  /\ toCore # <<>> /\ Head(toCore).cmd = cmd
  /\ toCore' = Tail(toCore)
  /\ UNCHANGED <<toHardware, mainWorker, call, worker, mutex, connection, bluez,
                 requests, external, crossed>>

StartScanBTDeviceNOTI ==
  /\ ReceiveNoti("START_SCAN")
  /\ scanState' = IF Head(toCore).ok THEN "SCANNING" ELSE "IDLE"
  /\ UNCHANGED <<powerState, view>>

\* A failed stop that leaves the state alone.
StopScanBTDeviceNOTIOnlySuccess ==
  /\ ReceiveNoti("STOP_SCAN")
  /\ scanState' = IF Head(toCore).ok THEN "IDLE" ELSE scanState
  /\ UNCHANGED <<powerState, view>>

StopScanBTDeviceNOTI ==
  /\ ReceiveNoti("STOP_SCAN")
  /\ scanState' = IF Head(toCore).ok THEN "IDLE" ELSE "SCANNING"
  /\ UNCHANGED <<powerState, view>>

BluetoothPowerOnNOTI ==
  /\ ReceiveNoti("POWER_ON")
  /\ powerState' = IF Head(toCore).ok THEN "ON" ELSE "OFF"
  /\ UNCHANGED <<scanState, view>>

BluetoothPowerOffNOTI ==
  /\ ReceiveNoti("POWER_OFF")
  /\ powerState' = IF Head(toCore).ok THEN "OFF" ELSE "ON"
  /\ UNCHANGED <<scanState, view>>

\* The clients are told of the failure; no state depends on it.
PairBTDeviceNOTI == ReceiveNoti("PAIR") /\ UNCHANGED core

ScanningBTDeviceFoundNOTI ==
  /\ ReceiveNoti("FOUND")
  /\ view' = [view EXCEPT !.paired = Head(toCore).ok]
  /\ UNCHANGED <<powerState, scanState>>

BtDevicePropertyChangeNOTI ==
  /\ ReceiveNoti("PROPERTY_CHANGE")
  /\ view' = [view EXCEPT !.paired = Head(toCore).ok]
  /\ UNCHANGED <<powerState, scanState>>

BtDeviceRequestConfirmationNOTI ==
  /\ ReceiveNoti("REQUEST_CONFIRMATION")
  /\ view' = [view EXCEPT !.prompt = TRUE]
  /\ UNCHANGED <<powerState, scanState>>

-----------------------------------------------------------------------------
(* The hardware manager's MainWorker                                        *)

Take(cmd) ==
  /\ mainWorker = "idle" /\ mutex = "nobody"
  /\ toHardware # <<>> /\ Head(toHardware) = cmd
  /\ toHardware' = Tail(toHardware)

BluezCalls == {"StartDiscovery", "StopDiscovery", "PowerOn", "PowerOff", "Pair",
               "GetManagedObjects"}

\* Under the mutex, until the call returns.
CallBluez(cmd) ==
  /\ Take(cmd)
  /\ mainWorker' = "called" /\ call' = cmd /\ mutex' = "MainWorker"
  /\ UNCHANGED <<core, toCore, worker, connection, bluez, requests, external, crossed>>

\* confirmRequest replies to BlueZ, which ends the pairing.
ConfirmRequest(cmd) ==
  /\ Take(cmd)
  /\ pairing' = FALSE
  /\ paired' = (paired \/ (pairing /\ cmd = "Accept"))
  /\ socket' = IF pairing /\ cmd = "Accept"
               THEN Append(socket, Msg("Paired", TRUE)) ELSE socket
  /\ UNCHANGED <<core, toCore, mainWorker, call, worker, mutex, incoming, powered,
                 discovering, requests, external, crossed>>

FailureNoti == CASE call = "StartDiscovery" -> "START_SCAN"
                 [] call = "StopDiscovery"  -> "STOP_SCAN"
                 [] call = "PowerOn"        -> "POWER_ON"
                 [] call = "PowerOff"       -> "POWER_OFF"
                 [] call = "Pair"           -> "PAIR"

Finish ==
  /\ mainWorker' = "idle" /\ call' = "none" /\ mutex' = "nobody"
  /\ UNCHANGED <<core, toHardware, worker, bluez, requests, external, crossed>>

\* Only an error is worth a notification.
Return(ok) ==
  /\ toCore' = IF ok THEN toCore ELSE Append(toCore, Noti(FailureNoti, FALSE))
  /\ Finish

\* parseManagedObjects; making the adapter discoverable changes nothing here.
List(objects) ==
  /\ toCore' = toCore \o <<PowerNoti(objects.powered), ScanNoti(objects.discovering),
                           Noti("FOUND", objects.paired)>>
  /\ Finish

NoReply(messages) == \A i \in 1 .. Len(messages) : messages[i].kind \notin Replies

\* dbus_connection_send_with_reply_and_block reads the socket; what is not the
\* reply stays in libdbus' queue.
ReadReply ==
  /\ mainWorker = "waiting"
  /\ socket' = <<>>
  /\ \E i \in 1 .. Len(socket) :
       /\ incoming' = incoming \o RemoveAt(socket, i)
       /\ \/ socket[i].kind = "Reply" /\ Return(socket[i].value)
          \/ socket[i].kind = "Objects" /\ List(socket[i].value)

ReadOther ==
  /\ mainWorker = "waiting" /\ socket # <<>> /\ NoReply(socket)
  /\ socket' = <<>> /\ incoming' = incoming \o socket
  /\ UNCHANGED <<core, channels, mainWorker, call, worker, mutex, bluez,
                 requests, external, crossed>>

\* A Pair without a time limit.
PairNeverTimesOut == FALSE /\ UNCHANGED vars

\* Pair waits for the user, but no longer than 25 s; its reply would be ignored then
\* and is not sent.
PairTimesOut ==
  /\ mainWorker = "waiting" /\ call = "Pair" /\ NoReply(socket)
  /\ Return(FALSE)
  /\ UNCHANGED connection

-----------------------------------------------------------------------------
(* BlueZ.  A property change is signalled before or after the reply.        *)

Serve(cmd) ==
  /\ mainWorker = "called" /\ call = cmd /\ mainWorker' = "waiting"
  /\ UNCHANGED <<core, channels, call, worker, mutex, incoming, requests, external>>

Answers(signals) ==
  \/ socket' = socket \o signals \o <<Reply(TRUE)>>
  \/ socket' = socket \o <<Reply(TRUE)>> \o signals

Refuse ==
  /\ socket' = Append(socket, Reply(FALSE))
  /\ UNCHANGED <<bluez, crossed>>

RefuseCrossed ==
  /\ socket' = Append(socket, Reply(FALSE)) /\ crossed' = TRUE
  /\ UNCHANGED bluez

PowerSignals(on) ==
  <<Msg("Powered", on)>> \o (IF discovering THEN <<Msg("Discovering", FALSE)>> ELSE <<>>)

\* Setting Powered to what it is succeeds and changes nothing.
SetPower(on) ==
  /\ Serve(IF on THEN "PowerOn" ELSE "PowerOff")
  /\ \/ powered # on /\ Refuse
     \/ /\ powered' = on /\ discovering' = (discovering /\ powered = on)
        /\ Answers(IF powered = on THEN <<>> ELSE PowerSignals(on))
        /\ UNCHANGED <<paired, pairing, crossed>>

StartDiscovery ==
  /\ Serve("StartDiscovery")
  /\ \/ ~ discovering /\ Refuse
     \/ discovering /\ RefuseCrossed
     \/ /\ powered /\ ~ discovering /\ discovering' = TRUE
        /\ Answers(<<Msg("Discovering", TRUE)>>)
        /\ UNCHANGED <<powered, paired, pairing, crossed>>

StopDiscovery ==
  /\ Serve("StopDiscovery")
  /\ \/ discovering /\ Refuse
     \/ /\ discovering /\ discovering' = FALSE
        /\ Answers(<<Msg("Discovering", FALSE)>>)
        /\ UNCHANGED <<powered, paired, pairing, crossed>>
     \/ ~ discovering /\ RefuseCrossed

\* Pairing fails, just works, or BlueZ asks its agent and replies only when it
\* knows the answer.
Pair ==
  /\ Serve("Pair")
  /\ \/ Refuse
     \/ /\ ~ paired /\ ~ pairing /\ paired' = TRUE
        /\ Answers(<<Msg("Paired", TRUE)>>)
        /\ UNCHANGED <<powered, discovering, pairing, crossed>>
     \/ /\ ~ paired /\ ~ pairing /\ pairing' = TRUE
        /\ socket' = Append(socket, Msg("RequestConfirmation", TRUE))
        /\ UNCHANGED <<powered, discovering, paired, crossed>>

\* An error would end the process, for the exception leaves MainWorker's thread: that
\* is a crash of Devices.
GetManagedObjects ==
  /\ Serve("GetManagedObjects")
  /\ socket' = Append(socket, Msg("Objects", Objects))
  /\ UNCHANGED <<bluez, crossed>>

\* Somebody else switches the adapter, or the device gives up the pairing.
External ==
  /\ external < MaxExternal /\ external' = external + 1
  /\ UNCHANGED <<core, channels, mainWorker, call, worker, mutex, incoming,
                 requests, crossed>>

ExternalPower ==
  /\ External
  /\ powered' = ~ powered /\ discovering' = FALSE
  /\ socket' = socket \o PowerSignals(~ powered)
  /\ UNCHANGED <<paired, pairing>>

\* The call that asked for it is answered, unless that one has timed out and another
\* been refused since.
PairingFails ==
  /\ External
  /\ pairing /\ pairing' = FALSE
  /\ socket' = IF mainWorker = "waiting" /\ call = "Pair" /\ NoReply(socket)
               THEN Append(socket, Reply(FALSE)) ELSE socket
  /\ UNCHANGED <<powered, discovering, paired>>

-----------------------------------------------------------------------------
(* BluetoothWorker                                                          *)

\* poll sees the socket, not libdbus' queue.
Poll ==
  /\ worker = "poll" /\ socket # <<>> /\ worker' = "awake"
  /\ UNCHANGED <<core, channels, mainWorker, call, mutex, connection, bluez,
                 requests, external, crossed>>

\* No reply is there: it is read by the call that holds the mutex.
ReadWrite ==
  /\ worker = "awake" /\ mutex = "nobody"
  /\ worker' = "dispatching" /\ mutex' = "BluetoothWorker"
  /\ socket' = <<>> /\ incoming' = incoming \o socket
  /\ UNCHANGED <<core, channels, mainWorker, call, bluez, requests, external, crossed>>

\* A handler may make blocking calls of its own, which read the socket.
Dispatch(kind, noti) ==
  /\ worker = "dispatching" /\ incoming # <<>> /\ Head(incoming).kind = kind
  /\ toCore' = Append(toCore, noti)
  /\ \/ incoming' = Tail(incoming) /\ UNCHANGED socket
     \/ incoming' = Tail(incoming) \o socket /\ socket' = <<>>
  /\ UNCHANGED <<core, toHardware, mainWorker, call, worker, mutex, bluez,
                 requests, external, crossed>>

PowerChanged       == Dispatch("Powered", PowerNoti(Head(incoming).value))
DiscoveringChanged == Dispatch("Discovering", ScanNoti(Head(incoming).value))

\* Not the signal's value: GetAll asks for the current one.
DeviceChanged == Dispatch("Paired", Noti("PROPERTY_CHANGE", paired))

HandleRequestConfirmation ==
  Dispatch("RequestConfirmation", Noti("REQUEST_CONFIRMATION", TRUE))

\* A worker that goes back to poll with the mutex locked.
DispatchedForgets ==
  /\ worker = "dispatching" /\ incoming = <<>>
  /\ worker' = "poll"
  /\ UNCHANGED <<core, channels, mainWorker, call, mutex, connection, bluez,
                 requests, external, crossed>>

Dispatched ==
  /\ worker = "dispatching" /\ incoming = <<>>
  /\ worker' = "poll" /\ mutex' = "nobody"
  /\ UNCHANGED <<core, channels, mainWorker, call, connection, bluez,
                 requests, external, crossed>>

-----------------------------------------------------------------------------
Client == \/ StartScanBTDevice \/ StopScanBTDevice \/ BluetoothPowerOn
          \/ BluetoothPowerOff \/ PairBTDevice \/ Join
          \/ \E cmd \in {"Accept", "Reject"} : AnswerConfirmation(cmd)

CoreStep == \/ StartScanBTDeviceNOTI \/ StopScanBTDeviceNOTI
            \/ BluetoothPowerOnNOTI \/ BluetoothPowerOffNOTI \/ PairBTDeviceNOTI
            \/ ScanningBTDeviceFoundNOTI \/ BtDevicePropertyChangeNOTI
            \/ BtDeviceRequestConfirmationNOTI

MainWorkerStep == \/ \E cmd \in BluezCalls : CallBluez(cmd)
                  \/ \E cmd \in {"Accept", "Reject"} : ConfirmRequest(cmd)
                  \/ ReadReply \/ ReadOther \/ PairTimesOut

BluezStep == \/ \E on \in BOOLEAN : SetPower(on)
             \/ StartDiscovery \/ StopDiscovery \/ Pair \/ GetManagedObjects

WorkerStep == \/ Poll \/ ReadWrite \/ Dispatched
              \/ PowerChanged \/ DiscoveringChanged \/ DeviceChanged
              \/ HandleRequestConfirmation

Next == \/ Client \/ CoreStep \/ MainWorkerStep \/ BluezStep \/ WorkerStep
        \/ ExternalPower \/ PairingFails

\* The threads are scheduled, BlueZ answers its calls and 25 s pass.  Nobody has
\* to ask for anything.
Fairness == /\ WF_vars(CoreStep) /\ WF_vars(MainWorkerStep)
            /\ WF_vars(BluezStep) /\ WF_vars(WorkerStep)

Spec     == Init /\ [][Next]_vars
FairSpec == Spec /\ Fairness

-----------------------------------------------------------------------------
(* Properties                                                              *)

Notis == [cmd : {"POWER_ON", "POWER_OFF", "START_SCAN", "STOP_SCAN", "PAIR",
                 "FOUND", "PROPERTY_CHANGE", "REQUEST_CONFIRMATION"}, ok : BOOLEAN]
Msgs  == [kind : {"Powered", "Discovering", "Paired", "RequestConfirmation", "Reply"},
          value : BOOLEAN]
         \cup [kind : {"Objects"}, value : [powered : BOOLEAN, discovering : BOOLEAN,
                                           paired : BOOLEAN]]

TypeOK ==
  /\ powerState \in {"OFF", "ON", "PROCESSING"}
  /\ scanState \in {"IDLE", "SCANNING", "PROCESSING"}
  /\ view \in [paired : BOOLEAN, prompt : BOOLEAN]
  /\ toHardware \in Seq(BluezCalls \cup {"Accept", "Reject"}) /\ toCore \in Seq(Notis)
  /\ socket \in Seq(Msgs) /\ incoming \in Seq(Msgs)
  /\ mainWorker \in {"idle", "called", "waiting"} /\ call \in BluezCalls \cup {"none"}
  /\ worker \in {"poll", "awake", "dispatching"}
  /\ mutex = IF mainWorker # "idle" THEN "MainWorker"
             ELSE IF worker = "dispatching" THEN "BluetoothWorker" ELSE "nobody"
  /\ powered \in BOOLEAN /\ discovering \in BOOLEAN
  /\ paired \in BOOLEAN /\ pairing \in BOOLEAN
  /\ requests \in 0 .. MaxRequests /\ external \in 0 .. MaxExternal
  /\ crossed \in BOOLEAN

\* Nothing is on its way any more, nor forgotten in libdbus' queue.
Quiet == /\ toHardware = <<>> /\ toCore = <<>> /\ mainWorker = "idle"
         /\ socket = <<>> /\ incoming = <<>>

\* However requests, failures, listings and changes made by others cross,
\* HardwareHandler ends up with the power state the adapter has, and not in
\* PROCESSING.  The same goes for scanning, as long as no stop reaches BlueZ after
\* the scan has ended by itself and no start while it runs: HardwareHandler takes
\* the refusal of such a stop for a scan that goes on, and that of such a start for
\* one that does not, until the next client joins.
AdapterAgrees ==
  Quiet => /\ powerState = IF powered THEN "ON" ELSE "OFF"
           /\ ~ crossed => scanState = IF discovering THEN "SCANNING" ELSE "IDLE"

\* The blocking call has read signals which BluetoothWorker's poll cannot see.
Stranded == /\ incoming # <<>> /\ socket = <<>> /\ worker = "poll"
            /\ mainWorker = "idle" /\ toHardware = <<>>

\* A request to switch the adapter or the scan is answered in the end, and the
\* clients hear of a device that has been paired ("The result will come via
\* PropertiesChanged signal"), unless the answer is stranded until BlueZ sends
\* something else.  MainWorker gets out of every call for that, also of the one that
\* waits for the user: the question is dispatched by BluetoothWorker, which needs the
\* mutex of the call, and the answer is taken by MainWorker itself.
RequestsAnswered ==
  /\ (powerState = "PROCESSING") ~> (powerState # "PROCESSING" \/ Stranded)
  /\ (scanState = "PROCESSING") ~> (scanState # "PROCESSING" \/ Stranded)
  /\ paired ~> (view.paired \/ Stranded)
=============================================================================
