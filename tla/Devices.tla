------------------------------ MODULE Devices ------------------------------
(***************************************************************************)
(* The list of Bluetooth devices a client shows, and the power state of    *)
(* the core manager, against what BlueZ has: through connecting,           *)
(* disconnecting and unpairing, automatic trust, changes made by others,   *)
(* clients that come and go, and crashes of either daemon.                 *)
(*                                                                         *)
(* The core manager keeps no list.  A client that joins makes it send      *)
(* INITIALIZE_BLUETOOTH, on which the hardware manager lists all devices   *)
(* again; so it does when it starts, and only then subscribes to BlueZ's   *)
(* signals and, last, to the core manager's commands.  What is sent to a   *)
(* process that is not subscribed is lost.                                 *)
(*                                                                         *)
(* The mutex of the connection to BlueZ makes one call or one handler      *)
(* exclude the others, as in Calls, and so is each a step; the handler of  *)
(* a property change is two, since BlueZ may act between its calls.        *)
(* signals is the connection from BlueZ with libdbus' queue, toHardware    *)
(* and toCore are the system bus followed by the receiver's event queue.   *)
(* Scanning, pairing and requests for power belong to Bluetooth.           *)
(* Every call to BlueZ may fail or time out, except that GetManagedObjects *)
(* is answered or, since nobody catches what initializeAdapter throws,     *)
(* ends the process, as CrashHardware does.                                *)
(***************************************************************************)
EXTENDS Naturals, Sequences, SequencesExt

CONSTANTS Addresses,   \* of devices
          MaxRequests, \* bound: what a client asks for in a run
          MaxJoins,    \* bound: how often a client joins
          MaxExternal, \* bound: things BlueZ does that nobody here asked for
          MaxCrashes   \* bound: times a daemon dies

ASSUME BoundsAreNat == {MaxRequests, MaxJoins, MaxExternal, MaxCrashes} \subseteq Nat
\* Of the devices BlueZ has there is a list, and an address is written in digits.
ASSUME AddressesAreFinite == IsFiniteSet(Addresses)
ASSUME AddressesAreOfDevices == "none" \notin Addresses /\ "adapter" \notin Addresses

VARIABLES
  powerState,  \* StateView::BLUETOOTH_POWER_STATE
  joined,      \* a client is connected
  shown,       \* address -> what that client shows of the device
  toHardware,  \* on its way to, or queued in, the hardware manager
  toCore,      \* on its way to HardwareHandler
  manager,     \* how far the hardware manager has started
  inspected,   \* the device BluetoothWorker asks about, and the answer
  signals,     \* sent by BlueZ, not dispatched
  device,      \* address -> the properties BlueZ's device has that are true
  powered,     \* property of BlueZ's adapter
  requests, joins, external, crashes, \* how many there have been
  asked,       \* history: requests nobody has answered
  missed,      \* history: objects whose last signal was lost or came to nothing
  stale,       \* history: those of them not signalled or listed since
  deaf         \* history: the INITIALIZE_BLUETOOTH of the client was lost

client  == <<joined, shown>>
bluez   == <<device, powered>>
count   == <<requests, joins, external, crashes>>
history == <<asked, missed, stale, deaf>>
vars == <<powerState, client, toHardware, toCore, manager, inspected, signals, bluez,
          count, history>>

NoDevice == {"none"}
Nothing  == [dev |-> "none", props |-> NoDevice]
Objects  == Addresses \cup {"adapter"}

Message(kind, dev, props) == [kind |-> kind, dev |-> dev, props |-> props]
Request(cmd, dev) == Message(cmd, dev, {})
Power(on) == Message(IF on THEN "POWER_ON" ELSE "POWER_OFF", "adapter", {})

Present    == {d \in Addresses : device[d] # NoDevice}
Seen(props) == IF props = NoDevice THEN NoDevice ELSE props \cap {"paired", "connected"}

Known      == SUBSET {"paired", "connected", "trusted"}

\* Everything has started with the devices there are; no client has joined yet.
Init ==
  /\ powered \in BOOLEAN /\ powerState = IF powered THEN "ON" ELSE "OFF"
  /\ joined = FALSE /\ shown = [d \in Addresses |-> NoDevice]
  /\ toHardware = <<>> /\ toCore = <<>> /\ manager = "running"
  /\ inspected = Nothing /\ signals = <<>>
  /\ device \in [Addresses -> Known \cup {NoDevice}]
  /\ requests = 0 /\ joins = 0 /\ external = 0 /\ crashes = 0
  /\ asked = {} /\ missed = Present /\ stale = {} /\ deaf = FALSE

-----------------------------------------------------------------------------
(* The client and HardwareHandler                                          *)

\* A signal to a process that is not subscribed is dropped by the bus.
SendToHardware(message) ==
  toHardware' = IF manager = "running" THEN Append(toHardware, message) ELSE toHardware

\* A server that leaves it to BlueZ to speak up.
JoinSilently ==
  /\ ~ joined /\ joined' = TRUE
  /\ joins < MaxJoins /\ joins' = joins + 1
  /\ UNCHANGED <<powerState, shown, toHardware, toCore, manager, inspected, signals,
                 bluez, requests, external, crashes, history>>

Join ==
  /\ ~ joined /\ joined' = TRUE
  /\ joins < MaxJoins /\ joins' = joins + 1
  /\ SendToHardware(Request("INITIALIZE_BLUETOOTH", "adapter"))
  /\ deaf' = (manager # "running")
  /\ UNCHANGED <<powerState, shown, toCore, manager, inspected, signals, bluez,
                 requests, external, crashes, asked, missed, stale>>

NoClient == /\ joined' = FALSE /\ shown' = [d \in Addresses |-> NoDevice]
            /\ asked' = {}

Leave ==
  /\ joined /\ NoClient
  /\ UNCHANGED <<powerState, toHardware, toCore, manager, inspected, signals, bluez,
                 count, missed, stale, deaf>>

\* pairBTDevice is in Bluetooth.  Nobody answers a request that is lost.
Ask(cmd, d) ==
  /\ joined /\ shown[d] # NoDevice
  /\ requests < MaxRequests /\ requests' = requests + 1
  /\ SendToHardware(Request(cmd, d))
  /\ asked' = IF manager = "running" THEN asked \cup {<<cmd, d>>} ELSE asked
  /\ UNCHANGED <<powerState, client, toCore, manager, inspected, signals, bluez,
                 joins, external, crashes, missed, stale, deaf>>

ConnectBTDevice(d)    == Ask("CONNECT", d)
DisconnectBTDevice(d) == Ask("DISCONNECT", d)
UnpairBTDevice(d)     == Ask("UNPAIR", d)

Receive(kinds) ==
  /\ toCore # <<>> /\ Head(toCore).kind \in kinds
  /\ toCore' = Tail(toCore)
  /\ UNCHANGED <<joined, toHardware, manager, inspected, signals, bluez, count, missed,
                 stale, deaf>>

Broadcast(d, props) ==
  /\ shown' = IF joined THEN [shown EXCEPT ![d] = Seen(props)] ELSE shown
  /\ asked' = {request \in asked : request[2] # d}
  /\ UNCHANGED powerState

\* scanningBTDeviceFoundNOTI and btDevicePropertyChangeNOTI give the whole device.
DeviceNOTI       == Receive({"FOUND", "PROPERTY_CHANGE"})
                    /\ Broadcast(Head(toCore).dev, Head(toCore).props)
DeviceDeleteNOTI == Receive({"DELETE"}) /\ Broadcast(Head(toCore).dev, NoDevice)

\* unpair-, connect- and disconnectBTDeviceNOTI only ever report a failure.
FailureNOTI ==
  /\ Receive({"CONNECT", "DISCONNECT", "UNPAIR"})
  /\ asked' = asked \ {<<Head(toCore).kind, Head(toCore).dev>>}
  /\ UNCHANGED <<powerState, shown>>

BluetoothPowerNOTI ==
  /\ Receive({"POWER_ON", "POWER_OFF"})
  /\ powerState' = IF Head(toCore).kind = "POWER_ON" THEN "ON" ELSE "OFF"
  /\ UNCHANGED <<shown, asked>>

-----------------------------------------------------------------------------
(* BlueZ's signals                                                         *)

\* BlueZ signals what happened to an object; without a subscription nobody hears.
SignalAll(messages, dev) ==
  IF manager \in {"subscribed", "running"}
  THEN /\ signals' = signals \o messages
       /\ missed' = missed \ {dev} /\ stale' = stale \ {dev}
  ELSE /\ UNCHANGED signals
       /\ missed' = missed \cup {dev} /\ stale' = stale \cup {dev}

Occurs(q, S) == \E i \in 1 .. Len(q) : q[i] \in S
Changed(d)   == {Message("PropertiesChanged", d, {})}

Signal(kind, dev, props) == SignalAll(<<Message(kind, dev, props)>>, dev)

-----------------------------------------------------------------------------
(* The hardware manager's MainWorker                                        *)

Take(cmd, d) ==
  /\ manager = "running" /\ inspected = Nothing
  /\ toHardware # <<>> /\ Head(toHardware) = Request(cmd, d)
  /\ toHardware' = Tail(toHardware)
  /\ UNCHANGED <<powerState, client, manager, inspected, count, asked>>

\* An error that is only logged.
ConnectFailsSilently(d) ==
  /\ Take("CONNECT", d)
  /\ UNCHANGED <<toCore, signals, bluez, missed, stale, deaf>>

Fail(cmd, d) == toCore' = Append(toCore, Request(cmd, d))

ConnectFails(d) ==
  /\ Take("CONNECT", d) /\ Fail("CONNECT", d)
  /\ UNCHANGED <<signals, bluez, missed, stale, deaf>>

\* BlueZ refuses to connect what is connected.  Success shows in a signal.
ConnectDevice(d) ==
  /\ Take("CONNECT", d)
  /\ d \in Present /\ "connected" \notin device[d]
  /\ device' = [device EXCEPT ![d] = @ \cup {"connected"}]
  /\ Signal("PropertiesChanged", d, {})
  /\ UNCHANGED <<toCore, powered, deaf>>

DisconnectFails(d) ==
  /\ Take("DISCONNECT", d) /\ Fail("DISCONNECT", d)
  /\ UNCHANGED <<signals, bluez, missed, stale, deaf>>

DisconnectDevice(d) ==
  /\ Take("DISCONNECT", d)
  /\ d \in Present /\ "connected" \in device[d]
  /\ device' = [device EXCEPT ![d] = @ \ {"connected"}]
  /\ Signal("PropertiesChanged", d, {})
  /\ UNCHANGED <<toCore, powered, deaf>>

\* unpairDevice takes the trust away first, whatever comes of the rest.
Untrust(d) == IF "trusted" \in device[d] THEN <<Message("PropertiesChanged", d, {})>>
              ELSE <<>>

UnpairDevice(d) ==
  /\ Take("UNPAIR", d) /\ d \in Present
  /\ device' = [device EXCEPT ![d] = NoDevice]
  /\ SignalAll(Append(Untrust(d), Message("InterfacesRemoved", d, {})), d)
  /\ UNCHANGED <<toCore, powered, deaf>>

UnpairFails(d) ==
  /\ Take("UNPAIR", d) /\ Fail("UNPAIR", d)
  /\ \/ /\ "trusted" \in device[d]
        /\ device' = [device EXCEPT ![d] = @ \ {"trusted"}] /\ SignalAll(Untrust(d), d)
     \/ UNCHANGED <<device, signals, missed, stale>>
  /\ UNCHANGED <<powered, deaf>>

\* parseManagedObjects reports what there is, and never what there is not.
List ==
  LET found == SetToSeq(Present)
  IN  /\ toCore' = Append(toCore, Power(powered))
                   \o [i \in 1 .. Len(found) |->
                        Message("FOUND", found[i], device[found[i]])]
      /\ stale' = stale \ (Present \cup {"adapter"})
      /\ deaf' = FALSE
      /\ UNCHANGED <<signals, bluez, missed>>

InitializeBluetooth == Take("INITIALIZE_BLUETOOTH", "adapter") /\ List

-----------------------------------------------------------------------------
(* BluetoothWorker                                                          *)

Dispatch(kind) ==
  /\ manager = "running" /\ inspected = Nothing
  /\ signals # <<>> /\ Head(signals).kind = kind
  /\ UNCHANGED <<powerState, client, toHardware, manager, count, asked, deaf>>

Forward(kind) ==
  /\ toCore' = Append(toCore, [Head(signals) EXCEPT !.kind = kind])
  /\ signals' = Tail(signals)
  /\ UNCHANGED <<inspected, bluez, missed, stale>>

HandleInterfacesAdded   == Dispatch("InterfacesAdded") /\ Forward("FOUND")
HandleInterfacesRemoved == Dispatch("InterfacesRemoved") /\ Forward("DELETE")

HandleAdapterChanged ==
  /\ Dispatch("PoweredChanged")
  /\ Forward(IF Head(signals).props = {} THEN "POWER_OFF" ELSE "POWER_ON")

\* A worker that does not look at the answer.
GetAllDevicePropertiesUnchecked ==
  /\ Dispatch("PropertiesChanged")
  /\ LET d == Head(signals).dev IN inspected' = [dev |-> d, props |-> device[d]]
  /\ signals' = Tail(signals)
  /\ UNCHANGED <<toCore, bluez, missed, stale>>

\* handlePropertiesChanged asks for all properties, as they are by now ...
GetAllDeviceProperties ==
  /\ Dispatch("PropertiesChanged")
  /\ LET d == Head(signals).dev
     IN  d \in Present /\ inspected' = [dev |-> d, props |-> device[d]]
  /\ signals' = Tail(signals)
  /\ UNCHANGED <<toCore, bluez, missed, stale>>

\* ... and lets the signal go if it gets no answer, or none in time, be the device gone
\* or not.  It is made good if BlueZ has said something more of the device.
GetAllFails ==
  /\ Dispatch("PropertiesChanged")
  /\ LET d == Head(signals).dev
         later == Tail(signals)
     IN  /\ signals' = later
         /\ missed' = IF Occurs(later, Changed(d)) THEN missed ELSE missed \cup {d}
         /\ stale' = IF \E i \in 1 .. Len(later) : later[i].dev = d THEN stale
                     ELSE stale \cup {d}
  /\ UNCHANGED <<inspected, toCore, bluez>>

Inspecting ==
  /\ inspected # Nothing /\ inspected' = Nothing
  /\ toCore' = Append(toCore, Message("PROPERTY_CHANGE", inspected.dev, inspected.props))
  /\ UNCHANGED <<powerState, client, toHardware, manager, powered, count, asked, deaf>>

\* A worker that trusts nobody.
TrustAndNotifyNever ==
  /\ Inspecting
  /\ UNCHANGED <<device, signals, missed, stale>>

\* An answer is passed on, and before that the device is trusted if it is paired and
\* connected by that answer; which does nothing if it is gone ...
TrustAndNotify ==
  /\ Inspecting
  /\ LET d == inspected.dev
     IN  IF {"paired", "connected"} = inspected.props /\ d \in Present
         THEN /\ device' = [device EXCEPT ![d] = @ \cup {"trusted"}]
              /\ IF "trusted" \in device[d] THEN UNCHANGED <<signals, missed, stale>>
                 ELSE Signal("PropertiesChanged", d, {})
         ELSE UNCHANGED <<device, signals, missed, stale>>

\* ... or BlueZ refuses it, or does not answer: trustDevice logs that, and no more.
TrustFails ==
  /\ Inspecting
  /\ LET d == inspected.dev
     IN  /\ {"paired", "connected"} = inspected.props /\ d \in Present
         /\ missed' = IF Occurs(signals, Changed(d)) THEN missed ELSE missed \cup {d}
  /\ UNCHANGED <<device, signals, stale>>

-----------------------------------------------------------------------------
(* BlueZ: devices come and go, and others use them                         *)

External ==
  /\ external < MaxExternal /\ external' = external + 1
  /\ UNCHANGED <<powerState, client, toHardware, toCore, manager, inspected, requests,
                 joins, crashes, asked, deaf>>

Appears(d) ==
  /\ External /\ d \notin Present
  /\ device' = [device EXCEPT ![d] = {}]
  /\ Signal("InterfacesAdded", d, {})
  /\ UNCHANGED powered

Changes(d) ==
  /\ External /\ d \in Present
  /\ \E p \in {"paired", "connected", "trusted"} :
       device' = [device EXCEPT ![d] = IF p \in @ THEN @ \ {p} ELSE @ \cup {p}]
  /\ Signal("PropertiesChanged", d, {})
  /\ UNCHANGED powered

Disappears(d) ==
  /\ External /\ d \in Present
  /\ device' = [device EXCEPT ![d] = NoDevice]
  /\ Signal("InterfacesRemoved", d, {})
  /\ UNCHANGED powered

SwitchAdapter ==
  /\ External /\ powered' = ~ powered
  /\ Signal("PoweredChanged", "adapter", IF powered THEN {} ELSE {"powered"})
  /\ UNCHANGED device

-----------------------------------------------------------------------------
(* Crashes, and how the hardware manager starts again                      *)

Crash == crashes < MaxCrashes /\ crashes' = crashes + 1
         /\ UNCHANGED <<bluez, requests, joins, external>>

\* StateView is what it was at the start; the web sockets close.
CrashCore ==
  /\ Crash /\ NoClient
  /\ powerState' = "OFF" /\ toCore' = <<>>
  /\ UNCHANGED <<toHardware, manager, inspected, signals, missed, stale, deaf>>

CrashHardware ==
  /\ Crash /\ manager' = "down"
  /\ toHardware' = <<>> /\ inspected' = Nothing /\ signals' = <<>>
  /\ LET lost == {signals[i].dev : i \in 1 .. Len(signals)}
                 \cup ({inspected.dev} \ {"none"})
     IN  missed' = missed \cup lost /\ stale' = stale \cup lost
  /\ asked' = {}
  /\ UNCHANGED <<powerState, client, toCore, deaf>>

StartStep(from, to) ==
  /\ manager = from /\ manager' = to
  /\ UNCHANGED <<powerState, client, toHardware, inspected, count, asked>>

\* The constructor of BluezDBus lists and then adds the match rules; that of
\* DBusReceiver adds the one for commands.
ListAtStart == StartStep("down", "listed") /\ List
AddMatchRules ==
  StartStep("listed", "subscribed") /\ UNCHANGED <<toCore, signals, bluez, missed, stale, deaf>>
StartReceiver ==
  StartStep("subscribed", "running") /\ UNCHANGED <<toCore, signals, bluez, missed, stale, deaf>>

-----------------------------------------------------------------------------
ClientStep == \/ Join \/ Leave
              \/ \E d \in Addresses : \/ ConnectBTDevice(d) \/ DisconnectBTDevice(d)
                                      \/ UnpairBTDevice(d)

CoreStep == DeviceNOTI \/ DeviceDeleteNOTI \/ FailureNOTI \/ BluetoothPowerNOTI

MainWorkerStep ==
  \/ InitializeBluetooth
  \/ \E d \in Addresses : \/ ConnectDevice(d) \/ ConnectFails(d) \/ DisconnectDevice(d)
                          \/ DisconnectFails(d) \/ UnpairDevice(d) \/ UnpairFails(d)

WorkerStep == \/ HandleInterfacesAdded \/ HandleInterfacesRemoved \/ HandleAdapterChanged
              \/ GetAllDeviceProperties \/ GetAllFails
              \/ TrustAndNotify \/ TrustFails

BluezStep == \/ \E d \in Addresses : Appears(d) \/ Changes(d) \/ Disappears(d)
             \/ SwitchAdapter

StartUp == ListAtStart \/ AddMatchRules \/ StartReceiver

Next == \/ ClientStep \/ CoreStep \/ MainWorkerStep \/ WorkerStep \/ BluezStep
        \/ CrashCore \/ CrashHardware \/ StartUp

Spec == Init /\ [][Next]_vars

-----------------------------------------------------------------------------
(* Properties                                                              *)

TypeOK ==
  /\ powerState \in {"ON", "OFF"} /\ joined \in BOOLEAN
  /\ shown \in [Addresses -> (SUBSET {"paired", "connected"}) \cup {NoDevice}]
  /\ \A i \in 1 .. Len(toHardware) :
       \/ toHardware[i] = Request("INITIALIZE_BLUETOOTH", "adapter")
       \/ \E cmd \in {"CONNECT", "DISCONNECT", "UNPAIR"}, d \in Addresses :
            toHardware[i] = Request(cmd, d)
  /\ \A i \in 1 .. Len(toCore) :
       \/ /\ toCore[i].kind \in {"FOUND", "PROPERTY_CHANGE", "DELETE", "CONNECT",
                                 "DISCONNECT", "UNPAIR"}
          /\ toCore[i].dev \in Addresses /\ toCore[i].props \in Known
       \/ toCore[i].kind \in {"POWER_ON", "POWER_OFF"} /\ toCore[i].dev = "adapter"
  /\ manager \in {"down", "listed", "subscribed", "running"}
  /\ inspected \in [dev : Addresses, props : Known] \cup {Nothing}
  /\ \A i \in 1 .. Len(signals) :
       /\ signals[i].kind \in {"InterfacesAdded", "InterfacesRemoved",
                               "PropertiesChanged", "PoweredChanged"}
       /\ signals[i].dev = "adapter" <=> signals[i].kind = "PoweredChanged"
  /\ device \in [Addresses -> Known \cup {NoDevice}] /\ powered \in BOOLEAN
  /\ requests \in 0 .. MaxRequests /\ joins \in 0 .. MaxJoins
  /\ external \in 0 .. MaxExternal /\ crashes \in 0 .. MaxCrashes
  /\ asked \subseteq {"CONNECT", "DISCONNECT", "UNPAIR"} \X Addresses
  /\ stale \subseteq missed /\ missed \subseteq Objects /\ deaf \in BOOLEAN

Quiet == /\ toHardware = <<>> /\ toCore = <<>> /\ signals = <<>> /\ inspected = Nothing
         /\ manager = "running"

\* Whenever it joined, and whatever crossed or crashed, what a client ends up with is
\* what BlueZ has: the power state, and each device with its state and no other
\* device.  Not so for an object that changed while nobody was subscribed, or whose
\* properties BlueZ would not give at its last change, if nothing more is signalled or
\* listed of it since; nor for a client whose INITIALIZE_BLUETOOTH met a hardware
\* manager that had listed the devices and did not listen yet.
ListAgrees ==
  Quiet /\ joined /\ ~ deaf =>
    /\ \A d \in Addresses \ stale : shown[d] = Seen(device[d])
    /\ "adapter" \notin stale => powerState = IF powered THEN "ON" ELSE "OFF"

\* "Auto-trust device on first successful connection after pairing": a device that
\* is paired and connected ends up trusted, although the answer on which
\* BluetoothWorker decides is old when it does, and although somebody, or a failed
\* unpairDevice, may take the trust away again; unless its last signal was lost, or
\* BlueZ failed a call that came of it, GetAll or Set Trusted: nobody tries again
\* before the next change, and a listing trusts nobody.
TrustFollows ==
  Quiet => \A d \in Present \ missed :
             {"paired", "connected"} \subseteq device[d] => "trusted" \in device[d]

\* A request that reached a hardware manager which lived on gets an answer, even if the
\* device is gone by then: a failure is reported by the call, a success only by the
\* signal that follows it.  So it is forgotten if BlueZ then does not give the
\* device's properties, and nothing more is said of the device.
NoRequestForgotten == Quiet => \A request \in asked : request[2] \in stale
=============================================================================
