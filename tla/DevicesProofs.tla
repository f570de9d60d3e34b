---------------------------- MODULE DevicesProofs ----------------------------
(***************************************************************************)
(* Proofs about Devices for any addresses, requests, joins, changes and    *)
(* crashes: the types, that a client ends up with the devices BlueZ has,   *)
(* that requests are answered, and that trust follows a connection.        *)
(*                                                                         *)
(* What BlueZ has of a device, or of the adapter, comes to a client by     *)
(* three stages: a signal that has not been dispatched, the answer that    *)
(* BluetoothWorker inspects, and the messages to HardwareHandler.  The     *)
(* invariant (Agreed) says that the last word about each of them, wherever *)
(* it is, is the truth, and if there is no word, what is shown is; unless  *)
(* the last signal met nobody, or a listing is still to come.              *)
(***************************************************************************)
EXTENDS Devices, SequenceTheorems, FiniteSetTheorems, TLAPS

USE BoundsAreNat, AddressesAreFinite, AddressesAreOfDevices
    DEF BoundsAreNat, AddressesAreFinite, AddressesAreOfDevices

Shapes   == SUBSET {"paired", "connected"}
Commands == {"CONNECT", "DISCONNECT", "UNPAIR"}
Switched == {{}, {"powered"}}

Initialize == Request("INITIALIZE_BLUETOOTH", "adapter")

Orders  == [kind : Commands, dev : Addresses, props : {{}}] \cup {Initialize}

DeviceNotis == [kind : Commands \cup {"FOUND", "PROPERTY_CHANGE", "DELETE"}, dev : Addresses,
                props : Known]
PowerNotis  == [kind : {"POWER_ON", "POWER_OFF"}, dev : {"adapter"}, props : Switched]
Notis       == DeviceNotis \cup PowerNotis

DeviceSignals == [kind : {"InterfacesAdded", "InterfacesRemoved", "PropertiesChanged"},
                  dev : Addresses, props : Known]
PowerSignals  == [kind : {"PoweredChanged"}, dev : {"adapter"}, props : Switched]
Signals       == DeviceSignals \cup PowerSignals

Types ==
  /\ powerState \in {"ON", "OFF"} /\ joined \in BOOLEAN
  /\ shown \in [Addresses -> Shapes \cup {NoDevice}]
  /\ toHardware \in Seq(Orders) /\ toCore \in Seq(Notis) /\ signals \in Seq(Signals)
  /\ manager \in {"down", "listed", "subscribed", "running"}
  /\ inspected \in [dev : Addresses, props : Known] \cup {Nothing}
  /\ device \in [Addresses -> Known \cup {NoDevice}] /\ powered \in BOOLEAN
  /\ requests \in 0 .. MaxRequests /\ joins \in 0 .. MaxJoins
  /\ external \in 0 .. MaxExternal /\ crashes \in 0 .. MaxCrashes
  /\ asked \subseteq Commands \X Addresses
  /\ stale \subseteq missed /\ missed \subseteq Objects /\ deaf \in BOOLEAN

-----------------------------------------------------------------------------
(* Messages and devices.                                                    *)

\* A counter below its bound may be counted up.
LEMMA CountedUp ==
  \A m \in Nat : \A n \in 0 .. m : \A k \in {n, n + 1} : (k = n \/ n < m) => k \in 0 .. m
OBVIOUS

LEMMA MessagesTyped ==
  /\ \A cmd \in Commands, d \in Addresses :
       Request(cmd, d) \in Orders /\ Request(cmd, d) \in Notis
  /\ Initialize \in Orders
  /\ \A on \in BOOLEAN : Power(on) \in Notis
  /\ \A d \in Addresses, props \in Known :
       /\ Message("FOUND", d, props) \in Notis /\ Message("PROPERTY_CHANGE", d, props) \in Notis
       /\ \A kind \in {"InterfacesAdded", "InterfacesRemoved", "PropertiesChanged"} :
            Message(kind, d, props) \in Signals
  /\ \A props \in Switched : Message("PoweredChanged", "adapter", props) \in Signals
<1>1. {} \in Known /\ {} \in Switched
  BY DEF Known, Switched
<1>2. QED
  BY <1>1 DEF Message, Request, Power, Commands, Orders, Notis, DeviceNotis, PowerNotis,
              Signals, DeviceSignals, PowerSignals, Initialize

\* A device that is there shows some of its properties, one that is not shows none.
LEMMA SeenIs ==
  /\ NoDevice \notin Known /\ NoDevice \notin Shapes
  /\ \A props \in Known : Seen(props) \in Shapes
  /\ Seen(NoDevice) = NoDevice
  /\ \A props \in Known : Seen(props \cup {"trusted"}) = Seen(props)
                          /\ Seen(props \ {"trusted"}) = Seen(props)
<1>1. NoDevice \notin Known /\ NoDevice \notin Shapes
  BY DEF NoDevice, Known, Shapes
<1>2. Seen(NoDevice) = NoDevice
  BY DEF Seen
<1>3. \A props \in Known : /\ props \cup {"trusted"} \in Known /\ props \ {"trusted"} \in Known
                           /\ Seen(props) = props \cap {"paired", "connected"}
  BY <1>1 DEF Seen, Known
<1>4. \A props \in Known : Seen(props) \in Shapes
  BY <1>3 DEF Shapes
<1>5. ASSUME NEW props \in Known
      PROVE  /\ Seen(props \cup {"trusted"}) = Seen(props)
             /\ Seen(props \ {"trusted"}) = Seen(props)
  <2>1. /\ (props \cup {"trusted"}) \cap {"paired", "connected"} = props \cap {"paired", "connected"}
        /\ (props \ {"trusted"}) \cap {"paired", "connected"} = props \cap {"paired", "connected"}
    OBVIOUS
  <2>2. QED BY <1>3, <2>1
<1>6. QED BY <1>1, <1>2, <1>4, <1>5

LEMMA PresentIs ==
  ASSUME device \in [Addresses -> Known \cup {NoDevice}]
  PROVE  /\ IsFiniteSet(Present) /\ Present \subseteq Addresses
         /\ \A d \in Addresses : d \in Present <=> device[d] \in Known
         /\ \A d \in Addresses \ Present : device[d] = NoDevice
<1>1. Present \subseteq Addresses
  BY DEF Present
<1>2. IsFiniteSet(Present)
  BY <1>1, FS_Subset
<1>3. QED BY <1>1, <1>2, SeenIs DEF Present

\* SetToSeq lists every element of a finite set once.
LEMMA SetToSeqLists ==
  ASSUME NEW S, IsFiniteSet(S), NEW q, q = SetToSeq(S)
  PROVE  /\ q \in Seq(S)
         /\ \A i, j \in 1 .. Len(q) : q[i] = q[j] => i = j
         /\ \A x \in S : \E i \in 1 .. Len(q) : q[i] = x
<1> DEFINE n == Cardinality(S)
<1>1. n \in Nat /\ ExistsBijection(1 .. n, S)
  BY FS_CardinalityType
<1>2. \E f \in [1 .. n -> S] : IsInjective(f)
  BY <1>1 DEF ExistsBijection, Bijection, Injection
<1>3. q \in [1 .. n -> S] /\ IsInjective(q)
  BY <1>2 DEF SetToSeq
<1>4. q \in Seq(S) /\ Len(q) = n
  BY <1>1, <1>3
<1>5. \A i, j \in 1 .. Len(q) : q[i] = q[j] => i = j
  BY <1>3, <1>4 DEF IsInjective
<1>6. Cardinality(1 .. n) = n
  BY <1>1, FS_Interval
<1>7. q \in Surjection(1 .. n, S)
  <2>1. q \in Injection(1 .. n, S)
    BY <1>3 DEF Injection
  <2>2. QED BY <1>6, <2>1, FS_Injection
<1>8. \A x \in S : \E i \in 1 .. Len(q) : q[i] = x
  BY <1>4, <1>7 DEF Surjection
<1>9. QED BY <1>4, <1>5, <1>8

\* One more element at the end, one taken from the front, several added.
LEMMA QueueTypes ==
  ASSUME NEW M
  PROVE  /\ <<>> \in Seq(M)
         /\ \A s \in Seq(M), m \in M : Append(s, m) \in Seq(M) /\ <<m>> \in Seq(M)
         /\ \A s \in Seq(M) : s # <<>> => Head(s) \in M /\ Tail(s) \in Seq(M)
         /\ \A s, t \in Seq(M) : s \o t \in Seq(M)
<1>1. \A s, t \in Seq(M) : s \o t \in Seq(M)
  BY ConcatProperties
<1>2. QED BY <1>1, EmptySeq, HeadTailProperties

LEMMA Queues ==
  /\ \A s \in Seq(Orders), m \in Orders : Append(s, m) \in Seq(Orders)
  /\ \A s \in Seq(Orders) : s # <<>> => Head(s) \in Orders /\ Tail(s) \in Seq(Orders)
  /\ \A s \in Seq(Notis), m \in Notis : Append(s, m) \in Seq(Notis)
  /\ \A s \in Seq(Notis) : s # <<>> => Head(s) \in Notis /\ Tail(s) \in Seq(Notis)
  /\ \A s, t \in Seq(Notis) : s \o t \in Seq(Notis)
  /\ \A s \in Seq(Signals), m \in Signals : Append(s, m) \in Seq(Signals) /\ <<m>> \in Seq(Signals)
  /\ \A s \in Seq(Signals) : s # <<>> => Head(s) \in Signals /\ Tail(s) \in Seq(Signals)
  /\ \A s, t \in Seq(Signals) : s \o t \in Seq(Signals)
BY QueueTypes

-----------------------------------------------------------------------------
(* The types.                                                              *)

LEMMA TypesInit == Init => Types
<1> SUFFICES ASSUME Init
             PROVE  Types
  OBVIOUS
<1>1. /\ powerState \in {"ON", "OFF"} /\ shown \in [Addresses -> Shapes \cup {NoDevice}]
      /\ inspected = Nothing /\ manager = "running"
      /\ device \in [Addresses -> Known \cup {NoDevice}] /\ asked = {} /\ stale = {}
      /\ missed \subseteq Objects
  BY DEF Init, Objects, Present
<1>2. toHardware \in Seq(Orders) /\ toCore \in Seq(Notis) /\ signals \in Seq(Signals)
  BY QueueTypes DEF Init
<1>3. /\ requests \in 0 .. MaxRequests /\ joins \in 0 .. MaxJoins
      /\ external \in 0 .. MaxExternal /\ crashes \in 0 .. MaxCrashes
  BY DEF Init
<1>4. powered \in BOOLEAN /\ joined \in BOOLEAN /\ deaf \in BOOLEAN
  BY Zenon DEF Init
<1>5. /\ asked \subseteq Commands \X Addresses /\ stale \subseteq missed
      /\ inspected \in [dev : Addresses, props : Known] \cup {Nothing}
      /\ manager \in {"down", "listed", "subscribed", "running"}
  BY <1>1
<1>6. QED BY <1>1, <1>2, <1>3, <1>4, <1>5, Zenon DEF Types


LEMMA TypesClient == Types /\ ClientStep => Types'
<1> SUFFICES ASSUME Types, ClientStep
             PROVE  Types'
  OBVIOUS
<1> USE DEF ClientStep, Join, Leave, ConnectBTDevice, DisconnectBTDevice, UnpairBTDevice, Ask,
            NoClient, SendToHardware, client, bluez, count, history
<1>1. UNCHANGED <<powerState, toCore, manager, inspected, signals, device, powered, external, crashes,
                  missed, stale>>
  OBVIOUS
<1>2. joined' \in BOOLEAN /\ deaf' \in BOOLEAN
  BY Zenon DEF Types
<1>3. shown' \in [Addresses -> Shapes \cup {NoDevice}]
  BY DEF Types
<1>4. toHardware' \in Seq(Orders) /\ asked' \subseteq Commands \X Addresses
  <2>1. CASE Join
    <3>1. Append(toHardware, Initialize) \in Seq(Orders)
      BY Queues, MessagesTyped DEF Types
    <3>2. toHardware' \in {toHardware, Append(toHardware, Initialize)} /\ asked' = asked
      BY <2>1 DEF Initialize
    <3>3. QED BY <3>1, <3>2 DEF Types
  <2>4. CASE Leave
    BY <2>4 DEF Types
  <2>2. ASSUME NEW d \in Addresses, NEW cmd \in Commands, Ask(cmd, d)
        PROVE  toHardware' \in Seq(Orders) /\ asked' \subseteq Commands \X Addresses
    <3>1. Request(cmd, d) \in Orders
      BY MessagesTyped
    <3>2. QED BY <2>2, <3>1, Queues DEF Types
  <2>3. QED BY <2>1, <2>2, <2>4 DEF Commands
<1>5. /\ requests' \in {requests, requests + 1} /\ (requests' = requests \/ requests < MaxRequests)
      /\ joins' \in {joins, joins + 1} /\ (joins' = joins \/ joins < MaxJoins)
  OBVIOUS
<1>6. requests' \in 0 .. MaxRequests /\ joins' \in 0 .. MaxJoins
  BY <1>5, CountedUp, Zenon DEF Types
<1>7. QED BY <1>1, <1>2, <1>3, <1>4, <1>6, Zenon DEF Types

LEMMA TypesCore == Types /\ CoreStep => Types'
<1> SUFFICES ASSUME Types, CoreStep
             PROVE  Types'
  OBVIOUS
<1> USE DEF CoreStep, DeviceNOTI, DeviceDeleteNOTI, FailureNOTI, BluetoothPowerNOTI, Receive,
            Broadcast, bluez, count
<1>1. UNCHANGED <<joined, toHardware, manager, inspected, signals, device, powered, requests, joins,
                  external, crashes, missed, stale, deaf>>
  OBVIOUS
<1>2. Head(toCore) \in Notis /\ toCore' \in Seq(Notis)
  BY Queues DEF Types
<1>3. powerState' \in {"ON", "OFF"} /\ asked' \subseteq Commands \X Addresses
  BY DEF Types
<1>4. shown' \in [Addresses -> Shapes \cup {NoDevice}]
  <2>1. CASE DeviceNOTI
    <3>1. Head(toCore).dev \in Addresses /\ Head(toCore).props \in Known
      BY <1>2, <2>1 DEF Notis, DeviceNotis, PowerNotis
    <3>2. Seen(Head(toCore).props) \in Shapes
      BY <3>1, SeenIs
    <3>3. QED BY <2>1, <3>1, <3>2 DEF Types
  <2>2. CASE DeviceDeleteNOTI
    BY <2>2, SeenIs DEF Types
  <2>3. CASE FailureNOTI \/ BluetoothPowerNOTI
    BY <2>3 DEF Types
  <2>4. QED BY <2>1, <2>2, <2>3
<1>5. QED BY <1>1, <1>2, <1>3, <1>4, Zenon DEF Types

\* What BlueZ signals, heard or not.
LEMMA TypesSignalled ==
  ASSUME Types, NEW messages \in Seq(Signals), NEW o \in Objects, SignalAll(messages, o)
  PROVE  /\ signals' \in Seq(Signals) /\ stale' \subseteq missed' /\ missed' \subseteq Objects
         /\ manager \in {"subscribed", "running"} => signals' = signals \o messages
<1>1. signals \in Seq(Signals) /\ signals \o messages \in Seq(Signals)
  BY Queues DEF Types
<1>2. signals' \in {signals, signals \o messages}
  BY DEF SignalAll
<1>3. /\ stale' \subseteq missed' /\ missed' \subseteq Objects
      /\ manager \in {"subscribed", "running"} => signals' = signals \o messages
  BY DEF SignalAll, Types
<1>4. QED BY <1>1, <1>2, <1>3

\* What the hardware manager lists.
LEMMA ListIs ==
  ASSUME Types, List
  PROVE  \E l \in Seq(Notis) :
           /\ toCore' = Append(toCore, Power(powered)) \o l
           /\ \A i \in 1 .. Len(l) : \E d \in Present : l[i] = Message("FOUND", d, device[d])
           /\ \A d \in Present : \E i \in 1 .. Len(l) :
                /\ l[i] = Message("FOUND", d, device[d])
                /\ \A j \in 1 .. Len(l) : l[j].dev = d => j = i
<1> DEFINE found == SetToSeq(Present)
           l == [i \in 1 .. Len(found) |-> Message("FOUND", found[i], device[found[i]])]
<1>1. toCore' = Append(toCore, Power(powered)) \o l
  BY DEF List
<1>2. /\ IsFiniteSet(Present) /\ Present \subseteq Addresses
      /\ \A d \in Present : device[d] \in Known
  BY PresentIs DEF Types
<1>3. /\ found \in Seq(Present)
      /\ \A i, j \in 1 .. Len(found) : found[i] = found[j] => i = j
      /\ \A d \in Present : \E i \in 1 .. Len(found) : found[i] = d
  <2>1. IsFiniteSet(Present)
    BY <1>2
  <2>2. \A q : q = SetToSeq(Present) =>
          /\ q \in Seq(Present)
          /\ \A i, j \in 1 .. Len(q) : q[i] = q[j] => i = j
          /\ \A d \in Present : \E i \in 1 .. Len(q) : q[i] = d
    <3> HIDE DEF found
    <3>1. QED BY <2>1, SetToSeqLists
  <2>3. QED BY <2>2
<1> HIDE DEF found
<1>4. \A i \in 1 .. Len(found) : found[i] \in Present /\ Message("FOUND", found[i], device[found[i]]) \in Notis
  <2>1. \A i \in 1 .. Len(found) : found[i] \in Present
    BY <1>3
  <2>2. \A d \in Present : Message("FOUND", d, device[d]) \in Notis
    BY <1>2, MessagesTyped
  <2>3. QED BY <2>1, <2>2
<1>5. l \in Seq(Notis) /\ Len(l) = Len(found) /\ Len(found) \in Nat
  BY <1>3, <1>4
<1>6. \A i \in 1 .. Len(l) : l[i] = Message("FOUND", found[i], device[found[i]])
  BY <1>5
<1>7. \A i \in 1 .. Len(l) : l[i].dev = found[i]
  BY <1>6 DEF Message
<1>8. \A d \in Present : \E i \in 1 .. Len(l) :
        /\ l[i] = Message("FOUND", d, device[d])
        /\ \A j \in 1 .. Len(l) : l[j].dev = d => j = i
  <2> SUFFICES ASSUME NEW d \in Present
               PROVE  \E i \in 1 .. Len(l) : /\ l[i] = Message("FOUND", d, device[d])
                                             /\ \A j \in 1 .. Len(l) : l[j].dev = d => j = i
    OBVIOUS
  <2> HIDE DEF l
  <2>1. PICK i \in 1 .. Len(found) : found[i] = d
    BY <1>3
  <2>2. \A j \in 1 .. Len(l) : l[j].dev = d => j = i
    BY <1>3, <1>5, <1>7, <2>1
  <2>3. QED BY <1>5, <1>6, <2>1, <2>2
<1>9. \A i \in 1 .. Len(l) : \E d \in Present : l[i] = Message("FOUND", d, device[d])
  <2> HIDE DEF l
  <2>1. QED BY <1>4, <1>5, <1>6
<1>10. QED
  <2> HIDE DEF l
  <2>1. QED BY <1>1, <1>5, <1>8, <1>9

LEMMA TypesListed ==
  ASSUME Types, List
  PROVE  /\ toCore' \in Seq(Notis) /\ stale' \subseteq missed' /\ missed' \subseteq Objects
         /\ deaf' = FALSE /\ UNCHANGED <<signals, device, powered>>
<1>1. Power(powered) \in Notis
  BY MessagesTyped DEF Types
<1>2. Append(toCore, Power(powered)) \in Seq(Notis)
  BY <1>1, Queues DEF Types
<1>3. toCore' \in Seq(Notis)
  BY <1>2, ListIs, Queues
<1>4. QED BY <1>3 DEF List, Types, bluez

LEMMA TypesMainWorker == Types /\ MainWorkerStep => Types'
<1> SUFFICES ASSUME Types, MainWorkerStep
             PROVE  Types'
  OBVIOUS
<1> USE DEF client, bluez, count
<1>1. ASSUME NEW cmd, NEW d, Take(cmd, d)
      PROVE  /\ UNCHANGED <<powerState, joined, shown, manager, inspected, requests, joins, external,
                            crashes, asked>>
             /\ toHardware' \in Seq(Orders)
  BY <1>1, Queues DEF Take, Types
<1>2. CASE InitializeBluetooth
  <2>1. List
    BY <1>2 DEF InitializeBluetooth
  <2>2. powered' = powered /\ deaf' \in BOOLEAN
    BY <2>1, TypesListed
  <2>3. QED BY <1>1, <1>2, <2>1, <2>2, TypesListed, Zenon DEF InitializeBluetooth, Types
<1>3. ASSUME NEW d \in Addresses, ConnectFails(d) \/ DisconnectFails(d)
      PROVE  Types'
  <2>1. PICK cmd \in Commands : Take(cmd, d) /\ Fail(cmd, d)
    BY <1>3 DEF ConnectFails, DisconnectFails, Commands
  <2>2. toCore' \in Seq(Notis)
    BY <2>1, MessagesTyped, Queues DEF Fail, Types
  <2>3. UNCHANGED <<signals, device, missed, stale>> /\ powered' = powered /\ deaf' = deaf
    BY <1>3 DEF ConnectFails, DisconnectFails
  <2>4. QED BY <1>1, <2>1, <2>2, <2>3, Zenon DEF Types
<1>4. ASSUME NEW d \in Addresses, ConnectDevice(d) \/ DisconnectDevice(d) \/ UnpairDevice(d)
      PROVE  Types'
  <2>1. PICK cmd : Take(cmd, d)
    BY <1>4 DEF ConnectDevice, DisconnectDevice, UnpairDevice
  <2>2. device[d] \in Known /\ {} \in Known
    BY <1>4, PresentIs DEF ConnectDevice, DisconnectDevice, UnpairDevice, Types, Known
  <2>3. device' \in [Addresses -> Known \cup {NoDevice}]
    <3>1. device[d] \cup {"connected"} \in Known /\ device[d] \ {"connected"} \in Known
      BY <2>2 DEF Known
    <3>2. QED BY <1>4, <3>1 DEF ConnectDevice, DisconnectDevice, UnpairDevice, Types
  <2>4. d \in Objects
    BY DEF Objects
  <2>5. \E messages \in Seq(Signals) : SignalAll(messages, d)
    <3>1. /\ Message("PropertiesChanged", d, {}) \in Signals
          /\ Message("InterfacesRemoved", d, {}) \in Signals
      BY <2>2, MessagesTyped
    <3>2. <<Message("PropertiesChanged", d, {})>> \in Seq(Signals) /\ Untrust(d) \in Seq(Signals)
      BY <3>1, Queues DEF Untrust
    <3>3. Append(Untrust(d), Message("InterfacesRemoved", d, {})) \in Seq(Signals)
      BY <3>1, <3>2, Queues
    <3>4. QED BY <1>4, <3>2, <3>3 DEF ConnectDevice, DisconnectDevice, UnpairDevice, Signal
  <2>6. toCore' = toCore /\ powered' = powered /\ deaf' = deaf
    BY <1>4 DEF ConnectDevice, DisconnectDevice, UnpairDevice
  <2>7. signals' \in Seq(Signals) /\ stale' \subseteq missed' /\ missed' \subseteq Objects
    BY <2>4, <2>5, TypesSignalled
  <2>8. QED BY <1>1, <2>1, <2>3, <2>6, <2>7, Zenon DEF Types
<1>5. ASSUME NEW d \in Addresses, UnpairFails(d)
      PROVE  Types'
  <2>1. Take("UNPAIR", d) /\ Fail("UNPAIR", d) /\ powered' = powered /\ deaf' = deaf
    BY <1>5 DEF UnpairFails
  <2>2. toCore' \in Seq(Notis)
    BY <2>1, MessagesTyped, Queues DEF Fail, Types, Commands
  <2>3. /\ device' \in [Addresses -> Known \cup {NoDevice}]
        /\ signals' \in Seq(Signals) /\ stale' \subseteq missed' /\ missed' \subseteq Objects
    <3>1. CASE UNCHANGED <<device, signals, missed, stale>>
      BY <3>1 DEF Types
    <3>2. CASE "trusted" \in device[d] /\ device' = [device EXCEPT ![d] = @ \ {"trusted"}]
               /\ SignalAll(Untrust(d), d)
      <4>1. device[d] \in Known /\ device[d] \ {"trusted"} \in Known /\ {} \in Known
        BY <3>2 DEF Types, Known, NoDevice
      <4>2. Message("PropertiesChanged", d, {}) \in Signals
        BY <4>1, MessagesTyped
      <4>3. Untrust(d) \in Seq(Signals) /\ d \in Objects
        BY <4>2, Queues DEF Untrust, Objects
      <4>4. QED BY <3>2, <4>1, <4>3, TypesSignalled DEF Types
    <3>3. QED BY <1>5, <3>1, <3>2 DEF UnpairFails
  <2>4. QED BY <1>1, <2>1, <2>2, <2>3, Zenon DEF Types
<1>6. QED BY <1>2, <1>3, <1>4, <1>5 DEF MainWorkerStep

LEMMA TypesWorker == Types /\ WorkerStep => Types'
<1> SUFFICES ASSUME Types, WorkerStep
             PROVE  Types'
  OBVIOUS
<1> USE DEF client, bluez, count
<1>1. ASSUME NEW kind, Dispatch(kind)
      PROVE  /\ UNCHANGED <<powerState, joined, shown, toHardware, manager, requests, joins, external,
                            crashes, asked>>
             /\ deaf' = deaf /\ Head(signals) \in Signals /\ Head(signals).kind = kind
             /\ Tail(signals) \in Seq(Signals)
  BY <1>1, Queues DEF Dispatch, Types
<1>2. ASSUME NEW kind, Forward(kind), [Head(signals) EXCEPT !.kind = kind] \in Notis,
             Tail(signals) \in Seq(Signals)
      PROVE  /\ toCore' \in Seq(Notis) /\ signals' \in Seq(Signals)
             /\ UNCHANGED <<inspected, device, missed, stale>> /\ powered' = powered
  BY <1>2, Queues DEF Forward, Types
<1>3. CASE HandleInterfacesAdded \/ HandleInterfacesRemoved
  <2>1. PICK k \in {"InterfacesAdded", "InterfacesRemoved"}, kind \in {"FOUND", "DELETE"} :
               Dispatch(k) /\ Forward(kind)
    BY <1>3 DEF HandleInterfacesAdded, HandleInterfacesRemoved
  <2>2. Head(signals) \in DeviceSignals
    BY <1>1, <2>1 DEF Signals, PowerSignals
  <2>3. [Head(signals) EXCEPT !.kind = kind] \in Notis
    BY <2>2 DEF DeviceSignals, Notis, DeviceNotis
  <2>4. QED BY <1>1, <1>2, <2>1, <2>3, Zenon DEF Types
<1>4. CASE HandleAdapterChanged
  <2>1. PICK kind \in {"POWER_ON", "POWER_OFF"} : Dispatch("PoweredChanged") /\ Forward(kind)
    BY <1>4 DEF HandleAdapterChanged
  <2>2. Head(signals) \in PowerSignals
    BY <1>1, <2>1 DEF Signals, DeviceSignals
  <2>3. [Head(signals) EXCEPT !.kind = kind] \in Notis
    BY <2>2 DEF PowerSignals, Notis, PowerNotis
  <2>4. QED BY <1>1, <1>2, <2>1, <2>3, Zenon DEF Types
<1>5. CASE GetAllDeviceProperties
  <2>1. Dispatch("PropertiesChanged") /\ signals' = Tail(signals)
        /\ UNCHANGED <<toCore, device, missed, stale>> /\ powered' = powered
    BY <1>5 DEF GetAllDeviceProperties
  <2>2. inspected' \in [dev : Addresses, props : Known] \cup {Nothing}
    BY <1>5, PresentIs DEF GetAllDeviceProperties, Types
  <2>3. QED BY <1>1, <2>1, <2>2, Zenon DEF Types
<1>8. CASE GetAllFails
  <2>1. Dispatch("PropertiesChanged") /\ signals' = Tail(signals)
        /\ UNCHANGED <<inspected, toCore, device>> /\ powered' = powered
    BY <1>8 DEF GetAllFails
  <2>2. Head(signals).dev \in Objects
    BY <1>1, <2>1 DEF Signals, DeviceSignals, PowerSignals, Objects
  <2>3. stale' \subseteq missed' /\ missed' \subseteq Objects
    <3> DEFINE d == Head(signals).dev
    <3>1. /\ missed' \in {missed, missed \cup {d}} /\ stale' \in {stale, stale \cup {d}}
          /\ missed' = missed => Occurs(signals', Changed(d)) \/ d \in missed
          /\ Occurs(signals', Changed(d)) => stale' = stale
      <4>1. \A i \in 1 .. Len(signals') : signals'[i] \in Changed(d) => signals'[i].dev = d
        BY DEF Changed, Message
      <4> HIDE DEF d
      <4>2. QED BY <1>8, <2>1, <4>1 DEF GetAllFails, Occurs, d
    <3> HIDE DEF d
    <3>2. QED BY <2>2, <3>1 DEF Types, d
  <2>4. QED BY <1>1, <2>1, <2>3, Zenon DEF Types
<1>6. CASE TrustAndNotify \/ TrustFails
  <2>1. /\ UNCHANGED <<powerState, joined, shown, toHardware, manager, requests, joins, external,
                       crashes, asked>>
        /\ powered' = powered /\ deaf' = deaf /\ inspected' = Nothing
        /\ inspected.dev \in Addresses /\ inspected.props \in Known
        /\ toCore' = Append(toCore, Message("PROPERTY_CHANGE", inspected.dev, inspected.props))
    BY <1>6 DEF TrustAndNotify, TrustFails, Inspecting, Types
  <2>2. toCore' \in Seq(Notis)
    BY <2>1, MessagesTyped, Queues DEF Types
  <2>3. /\ device' \in [Addresses -> Known \cup {NoDevice}]
        /\ signals' \in Seq(Signals) /\ stale' \subseteq missed' /\ missed' \subseteq Objects
    <3> DEFINE d == inspected.dev
    <3>1. CASE UNCHANGED <<device, signals, missed, stale>>
      BY <3>1 DEF Types
    <3>4. CASE TrustFails
      <4>1. d \in Objects
        BY <2>1 DEF Objects
      <4>2. QED BY <3>4, <4>1 DEF TrustFails, Types
    <3>2. CASE TrustAndNotify /\ d \in Present
               /\ device' = [device EXCEPT ![d] = @ \cup {"trusted"}]
      <4>1. device[d] \in Known /\ device[d] \cup {"trusted"} \in Known /\ {} \in Known
        BY <3>2, PresentIs DEF Types, Known
      <4>2. device' \in [Addresses -> Known \cup {NoDevice}]
        BY <3>2, <4>1 DEF Types
      <4>3. <<Message("PropertiesChanged", d, {})>> \in Seq(Signals)
        BY <2>1, <4>1, MessagesTyped, Queues
      <4>4. d \in Objects
        BY <2>1 DEF Objects
      <4>5. \/ UNCHANGED <<signals, missed, stale>>
            \/ SignalAll(<<Message("PropertiesChanged", d, {})>>, d)
        BY <3>2 DEF TrustAndNotify, Signal
      <4> HIDE DEF d
      <4>6. QED BY <4>2, <4>3, <4>4, <4>5, TypesSignalled DEF Types
    <3>3. QED BY <1>6, <3>1, <3>2, <3>4 DEF TrustAndNotify
  <2>4. inspected' \in [dev : Addresses, props : Known] \cup {Nothing}
    BY <2>1
  <2>5. QED BY <2>1, <2>2, <2>3, <2>4, Zenon DEF Types
<1>7. QED BY <1>3, <1>4, <1>5, <1>6, <1>8 DEF WorkerStep

LEMMA TypesBluez == Types /\ BluezStep => Types'
<1> SUFFICES ASSUME Types, BluezStep
             PROVE  Types'
  OBVIOUS
<1> USE DEF client, count
<1>1. External
  BY DEF BluezStep, Appears, Changes, Disappears, SwitchAdapter
<1>2. /\ UNCHANGED <<powerState, joined, shown, toHardware, toCore, manager, inspected, requests,
                     joins, crashes, asked>>
      /\ deaf' = deaf /\ external < MaxExternal /\ external' = external + 1
  BY <1>1 DEF External
<1>3. external' \in 0 .. MaxExternal
  BY <1>2 DEF Types
<1>4. {} \in Known
  BY DEF Known
<1>5. ASSUME NEW d \in Addresses, Appears(d) \/ Changes(d) \/ Disappears(d)
      PROVE  Types'
  <2>1. device' \in [Addresses -> Known \cup {NoDevice}] /\ powered' = powered
    <3>1. CASE Appears(d) \/ Disappears(d)
      BY <1>4, <3>1 DEF Appears, Disappears, Types
    <3>2. CASE Changes(d)
      <4>1. device[d] \in Known
        BY <3>2, PresentIs DEF Changes, Types
      <4>2. \A p \in {"paired", "connected", "trusted"} :
              device[d] \ {p} \in Known /\ device[d] \cup {p} \in Known
        BY <4>1 DEF Known
      <4>3. QED BY <3>2, <4>2 DEF Changes, Types
    <3>3. QED BY <1>5, <3>1, <3>2
  <2>2. PICK kind \in {"InterfacesAdded", "InterfacesRemoved", "PropertiesChanged"} : Signal(kind, d, {})
    BY <1>5 DEF Appears, Changes, Disappears
  <2>3. <<Message(kind, d, {})>> \in Seq(Signals) /\ d \in Objects
    BY <1>4, MessagesTyped, Queues DEF Objects
  <2>4. signals' \in Seq(Signals) /\ stale' \subseteq missed' /\ missed' \subseteq Objects
    BY <2>2, <2>3, TypesSignalled DEF Signal
  <2>5. QED BY <1>2, <1>3, <2>1, <2>4, Zenon DEF Types
<1>6. CASE SwitchAdapter
  <2>1. device' = device /\ \E props \in Switched : Signal("PoweredChanged", "adapter", props)
    BY <1>6 DEF SwitchAdapter, Switched
  <2>2. powered' \in BOOLEAN
    BY <1>6 DEF SwitchAdapter
  <2>3. \A props \in Switched : <<Message("PoweredChanged", "adapter", props)>> \in Seq(Signals)
    BY MessagesTyped, Queues
  <2>4. "adapter" \in Objects
    BY DEF Objects
  <2>5. signals' \in Seq(Signals) /\ stale' \subseteq missed' /\ missed' \subseteq Objects
    BY <2>1, <2>3, <2>4, TypesSignalled DEF Signal
  <2>6. QED BY <1>2, <1>3, <2>1, <2>2, <2>5, Zenon DEF Types
<1>7. QED BY <1>5, <1>6 DEF BluezStep

LEMMA TypesLives == Types /\ (CrashCore \/ CrashHardware \/ StartUp) => Types'
<1> SUFFICES ASSUME Types, CrashCore \/ CrashHardware \/ StartUp
             PROVE  Types'
  OBVIOUS
<1> USE DEF client, bluez, count
<1>1. CASE CrashCore \/ CrashHardware
  <2> USE DEF CrashCore, CrashHardware, Crash, NoClient
  <2>1. /\ UNCHANGED <<device, requests, joins, external>> /\ powered' = powered /\ deaf' = deaf
        /\ crashes < MaxCrashes /\ crashes' = crashes + 1
    BY <1>1
  <2>2. crashes' \in 0 .. MaxCrashes
    BY <2>1 DEF Types
  <2>3. /\ toHardware' \in Seq(Orders) /\ toCore' \in Seq(Notis) /\ signals' \in Seq(Signals)
        /\ asked' = {} /\ powerState' \in {"ON", "OFF"}
        /\ manager' \in {"down", "listed", "subscribed", "running"}
        /\ inspected' \in [dev : Addresses, props : Known] \cup {Nothing}
        /\ shown' \in [Addresses -> Shapes \cup {NoDevice}]
    <3>1. <<>> \in Seq(Orders) /\ <<>> \in Seq(Notis) /\ <<>> \in Seq(Signals)
      BY QueueTypes
    <3>2. CASE CrashCore
      BY <3>1, <3>2 DEF Types
    <3>3. CASE CrashHardware
      BY <3>1, <3>3 DEF Types
    <3>4. QED BY <1>1, <3>2, <3>3
  <2>4. joined' \in BOOLEAN
    BY <1>1, Zenon DEF Types
  <2>5. stale' \subseteq missed' /\ missed' \subseteq Objects
    <3>1. CASE CrashCore
      BY <3>1 DEF Types
    <3>2. CASE CrashHardware
      <4>1. \A i \in 1 .. Len(signals) : signals[i].dev \in Objects
        BY DEF Types, Signals, DeviceSignals, PowerSignals, Objects
      <4>2. {inspected.dev} \ {"none"} \subseteq Objects
        BY DEF Types, Nothing, Objects
      <4>3. QED BY <3>2, <4>1, <4>2 DEF Types
    <3>3. QED BY <1>1, <3>1, <3>2
  <2>6. asked' \subseteq Commands \X Addresses
    BY <2>3
  <2>7. QED BY <2>1, <2>2, <2>3, <2>4, <2>5, <2>6, Zenon DEF Types
<1>2. CASE StartUp
  <2>1. /\ UNCHANGED <<powerState, joined, shown, toHardware, inspected, requests, joins, external,
                       crashes, asked>>
        /\ manager' \in {"down", "listed", "subscribed", "running"}
    BY <1>2 DEF StartUp, ListAtStart, AddMatchRules, StartReceiver, StartStep
  <2>2. CASE ListAtStart
    <3>1. List
      BY <2>2 DEF ListAtStart
    <3>2. powered' = powered /\ deaf' \in BOOLEAN
      BY <3>1, TypesListed
    <3>3. QED BY <2>1, <3>1, <3>2, TypesListed, Zenon DEF Types
  <2>3. CASE AddMatchRules \/ StartReceiver
    <3>1. UNCHANGED <<toCore, signals, device, missed, stale>> /\ powered' = powered /\ deaf' = deaf
      BY <2>3 DEF AddMatchRules, StartReceiver
    <3>2. QED BY <2>1, <3>1, Zenon DEF Types
  <2>4. QED BY <1>2, <2>2, <2>3 DEF StartUp
<1>3. QED BY <1>1, <1>2

LEMMA TypesStep == Types /\ [Next]_vars => Types'
<1> SUFFICES ASSUME Types, [Next]_vars
             PROVE  Types'
  OBVIOUS
<1>1. CASE UNCHANGED vars
  BY <1>1, Zenon DEF vars, client, bluez, count, history, Types
<1>2. QED
  BY <1>1, TypesClient, TypesCore, TypesMainWorker, TypesWorker, TypesBluez, TypesLives DEF Next

\* Every variable keeps its type: only requests about devices and listings are on their way to
\* the hardware manager, every notification is about a device or the adapter's power, and what
\* was missed includes what is stale.
THEOREM TypeCorrect == Spec => []TypeOK
<1>1. Types => TypeOK
  <2> SUFFICES ASSUME Types
               PROVE  TypeOK
    OBVIOUS
  <2>1. \A i \in 1 .. Len(toHardware) :
          \/ toHardware[i] = Request("INITIALIZE_BLUETOOTH", "adapter")
          \/ \E cmd \in {"CONNECT", "DISCONNECT", "UNPAIR"}, d \in Addresses :
               toHardware[i] = Request(cmd, d)
    <3>1. \A m \in Orders : m = Initialize \/ \E cmd \in Commands, d \in Addresses : m = Request(cmd, d)
      BY DEF Orders, Request, Message
    <3>2. \A i \in 1 .. Len(toHardware) : toHardware[i] \in Orders
      BY DEF Types
    <3>3. QED BY <3>1, <3>2 DEF Initialize, Commands
  <2>2. \A i \in 1 .. Len(toCore) :
          \/ /\ toCore[i].kind \in {"FOUND", "PROPERTY_CHANGE", "DELETE", "CONNECT",
                                    "DISCONNECT", "UNPAIR"}
             /\ toCore[i].dev \in Addresses /\ toCore[i].props \in Known
          \/ toCore[i].kind \in {"POWER_ON", "POWER_OFF"} /\ toCore[i].dev = "adapter"
    <3>1. \A i \in 1 .. Len(toCore) : toCore[i] \in Notis
      BY DEF Types
    <3>2. QED BY <3>1 DEF Notis, DeviceNotis, PowerNotis, Commands
  <2>3. \A i \in 1 .. Len(signals) :
          /\ signals[i].kind \in {"InterfacesAdded", "InterfacesRemoved",
                                  "PropertiesChanged", "PoweredChanged"}
          /\ signals[i].dev = "adapter" <=> signals[i].kind = "PoweredChanged"
    <3>1. \A i \in 1 .. Len(signals) : signals[i] \in Signals
      BY DEF Types
    <3>2. QED BY <3>1 DEF Signals, DeviceSignals, PowerSignals
  <2>4. shown \in [Addresses -> (SUBSET {"paired", "connected"}) \cup {NoDevice}]
    BY Zenon DEF Types, Shapes
  <2>5. asked \subseteq {"CONNECT", "DISCONNECT", "UNPAIR"} \X Addresses
    BY Zenon DEF Types, Commands
  <2>6. QED BY <2>1, <2>2, <2>3, <2>4, <2>5, Zenon DEF Types, TypeOK
<1>2. QED BY <1>1, TypesInit, TypesStep, PTL DEF Spec

-----------------------------------------------------------------------------
(* The last word about an object.                                          *)

\* A message that says something of object o, and the truth it has told once it is read: of a
\* property change no more than that the device is there, for the answer is asked for then.
About(m, o) == m.dev = o /\ m.kind \notin Commands

Right(m, truth) ==
  \/ m.kind \in {"DELETE", "InterfacesRemoved"} /\ truth = NoDevice
  \/ m.kind \in {"FOUND", "PROPERTY_CHANGE", "InterfacesAdded"} /\ truth = Seen(m.props)
  \/ m.kind = "PropertiesChanged" /\ truth \in Shapes
  \/ m.kind = "POWER_ON" /\ truth = "ON"
  \/ m.kind = "POWER_OFF" /\ truth = "OFF"
  \/ m.kind = "PoweredChanged" /\ truth = (IF m.props = {} THEN "OFF" ELSE "ON")

Silent(q, o) == \A i \in 1 .. Len(q) : ~ About(q[i], o)

LastSays(q, o, truth) ==
  \E i \in 1 .. Len(q) : /\ About(q[i], o) /\ Right(q[i], truth)
                         /\ \A j \in i + 1 .. Len(q) : ~ About(q[j], o)

\* A queue says something of an object or it does not.
LEMMA SaysOrSilent ==
  /\ \A o : Silent(<<>>, o)
  /\ \A q, o, t : LastSays(q, o, t) => ~ Silent(q, o)
BY DEF Silent, LastSays

LEMMA AppendedWord ==
  ASSUME NEW M, NEW q \in Seq(M), NEW m \in M, NEW o, NEW t
  PROVE  /\ About(m, o) /\ Right(m, t) => LastSays(Append(q, m), o, t)
         /\ ~ About(m, o) => /\ LastSays(q, o, t) => LastSays(Append(q, m), o, t)
                             /\ Silent(q, o) => Silent(Append(q, m), o)
<1> DEFINE r == Append(q, m)
<1>1. /\ Len(q) \in Nat /\ Len(r) = Len(q) + 1 /\ r[Len(r)] = m
      /\ \A i \in 1 .. Len(q) : r[i] = q[i]
  BY AppendProperties
<1> HIDE DEF r
<1>2. ASSUME About(m, o), Right(m, t)
      PROVE  LastSays(r, o, t)
  <2>1. Len(r) \in 1 .. Len(r) /\ \A j \in Len(r) + 1 .. Len(r) : FALSE
    BY <1>1
  <2>2. QED BY <1>1, <1>2, <2>1 DEF LastSays
<1>3. ASSUME ~ About(m, o), LastSays(q, o, t)
      PROVE  LastSays(r, o, t)
  <2>1. PICK i \in 1 .. Len(q) : /\ About(q[i], o) /\ Right(q[i], t)
                                 /\ \A j \in i + 1 .. Len(q) : ~ About(q[j], o)
    BY <1>3 DEF LastSays
  <2>2. i \in 1 .. Len(r) /\ \A j \in i + 1 .. Len(r) : j \in i + 1 .. Len(q) \/ j = Len(r)
    BY <1>1
  <2>3. i + 1 .. Len(q) \subseteq 1 .. Len(q)
    BY <1>1
  <2>4. QED BY <1>1, <1>3, <2>1, <2>2, <2>3 DEF LastSays
<1>4. ASSUME ~ About(m, o), Silent(q, o)
      PROVE  Silent(r, o)
  <2>1. \A i \in 1 .. Len(r) : i \in 1 .. Len(q) \/ i = Len(r)
    BY <1>1
  <2>2. QED BY <1>1, <1>4, <2>1 DEF Silent
<1>5. QED BY <1>2, <1>3, <1>4 DEF r

LEMMA RemovedWord ==
  ASSUME NEW M, NEW q \in Seq(M), q # <<>>, NEW o, NEW t
  PROVE  /\ Silent(q, o) => Silent(Tail(q), o) /\ ~ About(Head(q), o)
         /\ LastSays(q, o, t) => \/ LastSays(Tail(q), o, t)
                                 \/ Silent(Tail(q), o) /\ About(Head(q), o) /\ Right(Head(q), t)
<1> DEFINE r == Tail(q)
<1>1. /\ Len(r) \in Nat /\ Len(q) = Len(r) + 1 /\ Head(q) = q[1]
      /\ \A i \in 1 .. Len(r) : r[i] = q[i + 1]
  BY HeadTailProperties, EmptySeq
<1>2. /\ \A i \in 1 .. Len(r) : i + 1 \in 1 .. Len(q)
      /\ 1 \in 1 .. Len(q)
  BY <1>1
<1> HIDE DEF r
<1>3. Silent(q, o) => Silent(r, o) /\ ~ About(Head(q), o)
  BY <1>1, <1>2 DEF Silent
<1>4. ASSUME LastSays(q, o, t)
      PROVE  LastSays(r, o, t) \/ (Silent(r, o) /\ About(Head(q), o) /\ Right(Head(q), t))
  <2>1. PICK i \in 1 .. Len(q) : /\ About(q[i], o) /\ Right(q[i], t)
                                 /\ \A j \in i + 1 .. Len(q) : ~ About(q[j], o)
    BY <1>4 DEF LastSays
  <2>2. CASE i = 1
    <3>1. \A j \in 1 .. Len(r) : j + 1 \in i + 1 .. Len(q)
      BY <1>1, <2>2
    <3>2. \A j \in 1 .. Len(r) : ~ About(r[j], o)
      BY <1>1, <2>1, <3>1
    <3>3. QED BY <1>1, <2>1, <2>2, <3>2 DEF Silent
  <2>3. CASE i # 1
    <3>1. /\ i - 1 \in 1 .. Len(r) /\ (i - 1) + 1 = i
          /\ \A j \in (i - 1) + 1 .. Len(r) : j \in 1 .. Len(r) /\ j + 1 \in i + 1 .. Len(q)
      BY <1>1, <2>3
    <3>2. r[i - 1] = q[i] /\ \A j \in (i - 1) + 1 .. Len(r) : ~ About(r[j], o)
      BY <1>1, <2>1, <3>1
    <3>3. QED BY <2>1, <3>1, <3>2 DEF LastSays
  <2>4. QED BY <2>2, <2>3
<1>5. QED BY <1>3, <1>4 DEF r

LEMMA JoinedWords ==
  ASSUME NEW M, NEW q \in Seq(M), NEW r \in Seq(M), NEW o, NEW t
  PROVE  /\ LastSays(r, o, t) => LastSays(q \o r, o, t)
         /\ Silent(r, o) => /\ LastSays(q, o, t) => LastSays(q \o r, o, t)
                            /\ Silent(q, o) => Silent(q \o r, o)
<1> DEFINE s == q \o r
<1>1. /\ Len(q) \in Nat /\ Len(r) \in Nat /\ Len(s) = Len(q) + Len(r)
      /\ \A i \in 1 .. Len(q) : s[i] = q[i]
      /\ \A i \in 1 .. Len(r) : s[Len(q) + i] = r[i]
  BY ConcatProperties
<1> HIDE DEF s
<1>2. \A i \in 1 .. Len(s) : i \in 1 .. Len(q) \/ (i - Len(q) \in 1 .. Len(r) /\ Len(q) + (i - Len(q)) = i)
  BY <1>1
<1>3. ASSUME LastSays(r, o, t)
      PROVE  LastSays(s, o, t)
  <2>1. PICK i \in 1 .. Len(r) : /\ About(r[i], o) /\ Right(r[i], t)
                                 /\ \A j \in i + 1 .. Len(r) : ~ About(r[j], o)
    BY <1>3 DEF LastSays
  <2>2. Len(q) + i \in 1 .. Len(s)
    BY <1>1
  <2>3. \A j \in Len(q) + i + 1 .. Len(s) :
          j - Len(q) \in i + 1 .. Len(r) /\ j - Len(q) \in 1 .. Len(r) /\ Len(q) + (j - Len(q)) = j
    BY <1>1
  <2>4. \A j \in Len(q) + i + 1 .. Len(s) : ~ About(s[j], o)
    <3> SUFFICES ASSUME NEW j \in Len(q) + i + 1 .. Len(s)
                 PROVE  ~ About(s[j], o)
      OBVIOUS
    <3>1. s[j] = r[j - Len(q)]
      BY <1>1, <2>3
    <3>2. QED BY <2>1, <2>3, <3>1
  <2>5. s[Len(q) + i] = r[i]
    BY <1>1
  <2>6. QED BY <2>1, <2>2, <2>4, <2>5 DEF LastSays
<1>4. ASSUME Silent(r, o), LastSays(q, o, t)
      PROVE  LastSays(s, o, t)
  <2>1. PICK i \in 1 .. Len(q) : /\ About(q[i], o) /\ Right(q[i], t)
                                 /\ \A j \in i + 1 .. Len(q) : ~ About(q[j], o)
    BY <1>4 DEF LastSays
  <2>2. i \in 1 .. Len(s)
    BY <1>1
  <2>3. \A j \in i + 1 .. Len(s) : ~ About(s[j], o)
    <3> SUFFICES ASSUME NEW j \in i + 1 .. Len(s)
                 PROVE  ~ About(s[j], o)
      OBVIOUS
    <3>1. CASE j \in i + 1 .. Len(q)
      <4>1. j \in 1 .. Len(q)
        BY <1>1, <3>1
      <4>2. QED BY <1>1, <2>1, <3>1, <4>1
    <3>2. CASE j \notin i + 1 .. Len(q)
      <4>1. j \in 1 .. Len(s) /\ j \notin 1 .. Len(q)
        BY <1>1, <3>2
      <4>2. j - Len(q) \in 1 .. Len(r) /\ Len(q) + (j - Len(q)) = j
        BY <1>2, <4>1
      <4>3. s[j] = r[j - Len(q)]
        BY <1>1, <4>2
      <4>4. QED BY <1>4, <4>2, <4>3 DEF Silent
    <3>3. QED BY <3>1, <3>2
  <2>4. s[i] = q[i]
    BY <1>1
  <2>5. QED BY <2>1, <2>2, <2>3, <2>4 DEF LastSays
<1>5. ASSUME Silent(r, o), Silent(q, o)
      PROVE  Silent(s, o)
  <2> SUFFICES ASSUME NEW i \in 1 .. Len(s)
               PROVE  ~ About(s[i], o)
    BY DEF Silent
  <2>1. CASE i \in 1 .. Len(q)
    BY <1>1, <1>5, <2>1 DEF Silent
  <2>2. CASE i \notin 1 .. Len(q)
    <3>1. i - Len(q) \in 1 .. Len(r) /\ Len(q) + (i - Len(q)) = i
      BY <1>2, <2>2
    <3>2. s[i] = r[i - Len(q)]
      BY <1>1, <3>1
    <3>3. QED BY <1>5, <3>1, <3>2 DEF Silent
  <2>3. QED BY <2>1, <2>2
<1>6. QED BY <1>3, <1>4, <1>5 DEF s

-----------------------------------------------------------------------------
(* What a client shows and what there is.                                  *)

Shows(o) == IF o = "adapter" THEN powerState ELSE shown[o]
Truth(o) == IF o = "adapter" THEN (IF powered THEN "ON" ELSE "OFF") ELSE Seen(device[o])

\* A client that has still to be told what there is.
ToBeTold ==
  \/ ~ joined \/ deaf \/ manager = "down"
  \/ \E i \in 1 .. Len(toHardware) : toHardware[i] = Initialize

\* A client shows the truth, or shall be told of what there is; of what is not, nobody tells it.
Settled(o) == Shows(o) = Truth(o) \/ ((o = "adapter" \/ Truth(o) # NoDevice) /\ ToBeTold)

Told(o) == \/ o \in stale
           \/ LastSays(toCore, o, Truth(o))
           \/ Silent(toCore, o) /\ Settled(o)

Agreed(o) ==
  \/ LastSays(signals, o, Truth(o))
  \/ Silent(signals, o) /\ inspected.dev = o /\ Truth(o) = Seen(inspected.props)
  \/ Silent(signals, o) /\ inspected.dev # o /\ Told(o)

\* Nothing is on its way through a manager that has not started.
Started ==
  /\ manager # "running" => inspected = Nothing /\ toHardware = <<>> /\ asked = {}
  /\ manager \in {"down", "listed"} => signals = <<>>
  /\ ~ joined => shown = [d \in Addresses |-> NoDevice]

LEMMA TruthIs ==
  ASSUME Types
  PROVE  /\ \A d \in Addresses : /\ d # "adapter" /\ Truth(d) = Seen(device[d])
                                 /\ d \in Present => Truth(d) \in Shapes /\ Truth(d) # NoDevice
                                 /\ d \notin Present => Truth(d) = NoDevice
                                 /\ Truth(d) \in Shapes => d \in Present
         /\ Truth("adapter") = IF powered THEN "ON" ELSE "OFF"
<1>1. \A d \in Addresses : d # "adapter"
  OBVIOUS
<1>2. \A d \in Addresses : Truth(d) = Seen(device[d])
  BY <1>1 DEF Truth
<1>3. \A d \in Addresses : d \in Present => Truth(d) \in Shapes
  BY <1>2, PresentIs, SeenIs DEF Types
<1>4. \A d \in Addresses : d \notin Present => Truth(d) = NoDevice
  BY <1>2, PresentIs, SeenIs DEF Types
<1>5. Truth("adapter") = IF powered THEN "ON" ELSE "OFF"
  BY DEF Truth
<1>6. QED BY <1>1, <1>2, <1>3, <1>4, <1>5, SeenIs

\* What happens to another object leaves the last word about this one.
LEMMA AgreedElsewhere ==
  ASSUME NEW o, Agreed(o), Truth(o)' = Truth(o),
         LastSays(signals, o, Truth(o)) => LastSays(signals', o, Truth(o)),
         Silent(signals, o) => Silent(signals', o),
         inspected' = inspected \/ (inspected.dev # o /\ inspected'.dev # o),
         Told(o) => Told(o)'
  PROVE  Agreed(o)'
BY DEF Agreed

LEMMA ToldElsewhere ==
  ASSUME NEW o, Told(o), Truth(o)' = Truth(o), o \in stale => o \in stale',
         LastSays(toCore, o, Truth(o)) => LastSays(toCore', o, Truth(o)),
         Silent(toCore, o) => Silent(toCore', o),
         Settled(o) => Settled(o)'
  PROVE  Told(o)'
BY DEF Told

LEMMA SettledElsewhere ==
  ASSUME NEW o, Settled(o), Truth(o)' = Truth(o), Shows(o)' = Shows(o), ToBeTold => ToBeTold'
  PROVE  Settled(o)'
BY DEF Settled

\* A listing that is still to come is not the request that is taken.
LEMMA StillToBeTold ==
  ASSUME Types, ToBeTold, joined' = joined, deaf' = deaf, manager' = manager,
         \/ toHardware' = toHardware \/ \E m : toHardware' = Append(toHardware, m)
         \/ toHardware # <<>> /\ Head(toHardware) # Initialize /\ toHardware' = Tail(toHardware)
  PROVE  ToBeTold'
<1>1. CASE ~ joined \/ deaf \/ manager = "down"
  BY <1>1, Zenon DEF ToBeTold
<1>2. ASSUME NEW i \in 1 .. Len(toHardware), toHardware[i] = Initialize
      PROVE  ToBeTold'
  <2>1. CASE toHardware' = toHardware
    BY <1>2, <2>1 DEF ToBeTold
  <2>2. ASSUME NEW m, toHardware' = Append(toHardware, m)
        PROVE  ToBeTold'
    <3>1. i \in 1 .. Len(toHardware') /\ toHardware'[i] = Initialize
      BY <1>2, <2>2 DEF Types
    <3>2. QED BY <3>1 DEF ToBeTold
  <2>3. CASE toHardware # <<>> /\ Head(toHardware) # Initialize /\ toHardware' = Tail(toHardware)
    <3>1. /\ toHardware \in Seq(Orders) /\ Head(toHardware) = toHardware[1]
          /\ Len(Tail(toHardware)) = Len(toHardware) - 1
          /\ \A j \in 1 .. Len(Tail(toHardware)) : Tail(toHardware)[j] = toHardware[j + 1]
      BY <2>3, HeadTailProperties DEF Types
    <3>2. i # 1 /\ Len(toHardware) \in Nat
      <4>1. Len(toHardware) \in Nat
        BY <3>1, LenProperties
      <4>2. toHardware[1] # Initialize
        BY <2>3, <3>1, Zenon
      <4>3. QED BY <1>2, <4>1, <4>2
    <3>3. i - 1 \in 1 .. Len(Tail(toHardware)) /\ (i - 1) + 1 = i
      BY <1>2, <3>1, <3>2
    <3>4. Tail(toHardware)[i - 1] = toHardware[(i - 1) + 1]
      BY <3>1, <3>3
    <3>5. Tail(toHardware)[i - 1] = Initialize
      BY <1>2, <3>3, <3>4
    <3>6. QED BY <2>3, <3>3, <3>5 DEF ToBeTold
  <2>4. QED BY <2>1, <2>2, <2>3
<1>3. QED BY <1>1, <1>2 DEF ToBeTold

\* A client that comes or goes is told, or shows nothing.
LEMMA SettledClient ==
  ASSUME Types, Started, NEW o \in Objects, ClientStep, Settled(o)
  PROVE  Settled(o)'
<1>1. Truth(o)' = Truth(o)
  BY DEF ClientStep, Join, Leave, ConnectBTDevice, DisconnectBTDevice, UnpairBTDevice, Ask, bluez, Truth
<1>2. CASE Join
  <2>1. Shows(o)' = Shows(o)
    BY <1>2 DEF Join, Shows
  <2>2. ToBeTold'
    <3>1. CASE manager # "running"
      BY <1>2, <3>1, Zenon DEF Join, ToBeTold
    <3>2. CASE manager = "running"
      <4>1. toHardware' = Append(toHardware, Initialize)
        BY <1>2, <3>2 DEF Join, SendToHardware, Initialize
      <4>2. Len(toHardware') \in 1 .. Len(toHardware') /\ toHardware'[Len(toHardware')] = Initialize
        BY <4>1 DEF Types
      <4>3. QED BY <4>2 DEF ToBeTold
    <3>3. QED BY <3>1, <3>2
  <2>3. QED BY <1>1, <2>1, <2>2, SettledElsewhere
<1>3. CASE Leave
  <2>1. ToBeTold' /\ powerState' = powerState /\ shown' = [d \in Addresses |-> NoDevice]
    BY <1>3, Zenon DEF Leave, NoClient, ToBeTold
  <2>2. o # "adapter" => Shows(o)' = NoDevice
    BY <2>1 DEF Shows, Objects
  <2>3. QED BY <2>1, <2>2 DEF Settled
<1>4. ASSUME NEW cmd, NEW d, Ask(cmd, d)
      PROVE  Settled(o)'
  <2>1. Shows(o)' = Shows(o)
    BY <1>4 DEF Ask, client, Shows
  <2>2. joined' = joined /\ deaf' = deaf /\ manager' = manager
    BY <1>4 DEF Ask, client
  <2>3. toHardware' = toHardware \/ \E m : toHardware' = Append(toHardware, m)
    BY <1>4 DEF Ask, SendToHardware
  <2>4. ToBeTold => ToBeTold'
    BY <2>2, <2>3, StillToBeTold
  <2>5. QED BY <1>1, <2>1, <2>4, SettledElsewhere
<1>5. QED
  BY <1>2, <1>3, <1>4 DEF ClientStep, ConnectBTDevice, DisconnectBTDevice, UnpairBTDevice

LEMMA AgreedClient ==
  ASSUME Types, Started, NEW o \in Objects, ClientStep, Agreed(o)
  PROVE  Agreed(o)'
<1>1. UNCHANGED <<signals, inspected, toCore, stale, device, powered>>
  BY DEF ClientStep, Join, Leave, ConnectBTDevice, DisconnectBTDevice, UnpairBTDevice, Ask, bluez
<1>2. Truth(o)' = Truth(o)
  BY <1>1 DEF Truth
<1>3. Told(o) => Told(o)'
  BY <1>1, <1>2, SettledClient, ToldElsewhere
<1>4. QED BY <1>1, <1>2, <1>3, AgreedElsewhere

\* HardwareHandler shows what it is told.
LEMMA ToldCore ==
  ASSUME Types, Started, NEW o \in Objects, CoreStep, Told(o)
  PROVE  Told(o)'
<1> DEFINE m == Head(toCore)
<1>1. /\ UNCHANGED <<joined, toHardware, manager, device, powered, stale>> /\ deaf' = deaf
      /\ toCore # <<>> /\ toCore' = Tail(toCore)
  BY DEF CoreStep, DeviceNOTI, DeviceDeleteNOTI, FailureNOTI, BluetoothPowerNOTI, Receive, bluez
<1>2. Truth(o)' = Truth(o)
  BY <1>1 DEF Truth
<1>3. ToBeTold' <=> ToBeTold
  BY <1>1 DEF ToBeTold
<1>4. toCore \in Seq(Notis) /\ m \in Notis
  BY <1>1, Queues DEF Types
<1>5. CASE o \in stale
  BY <1>1, <1>5 DEF Told
<1>6. CASE LastSays(toCore, o, Truth(o)) /\ LastSays(Tail(toCore), o, Truth(o))
  BY <1>1, <1>2, <1>6 DEF Told
<1>7. CASE Silent(Tail(toCore), o) /\ About(m, o) /\ Right(m, Truth(o))
  <2>1. CASE o = "adapter"
    <3>1. m.dev = "adapter" /\ m \in PowerNotis
      BY <1>4, <1>7, <2>1 DEF About, Notis, DeviceNotis
    <3>2. m.kind \in {"POWER_ON", "POWER_OFF"}
      BY <3>1 DEF PowerNotis
    <3>3. powerState' = IF m.kind = "POWER_ON" THEN "ON" ELSE "OFF"
      BY <3>2 DEF CoreStep, DeviceNOTI, DeviceDeleteNOTI, FailureNOTI, BluetoothPowerNOTI, Receive,
                  Commands
    <3>4. powerState' = Truth(o)
      BY <1>7, <3>2, <3>3 DEF Right
    <3>5. QED BY <1>1, <1>2, <1>7, <2>1, <3>4 DEF Told, Settled, Shows
  <2>2. CASE o # "adapter"
    <3>1. o \in Addresses /\ m.dev = o
      BY <1>7, <2>2 DEF Objects, About
    <3>2. m \in DeviceNotis /\ m.kind \in {"FOUND", "PROPERTY_CHANGE", "DELETE"} /\ m.props \in Known
      <4>1. m \in DeviceNotis
        BY <1>4, <2>2, <3>1 DEF Notis, PowerNotis
      <4>2. QED BY <1>7, <4>1 DEF DeviceNotis, About
    <3>3. \/ m.kind = "DELETE" /\ DeviceDeleteNOTI
          \/ m.kind # "DELETE" /\ DeviceNOTI
      BY <3>2 DEF CoreStep, DeviceNOTI, DeviceDeleteNOTI, FailureNOTI, BluetoothPowerNOTI, Receive
    <3>4. joined => shown'[o] = Truth(o)
      <4>1. CASE m.kind = "DELETE"
        <5>1. Truth(o) = NoDevice
          BY <1>7, <4>1 DEF Right
        <5>2. joined => shown' = [shown EXCEPT ![o] = NoDevice]
          BY <3>1, <3>3, <4>1, SeenIs DEF DeviceDeleteNOTI, Broadcast
        <5>3. QED BY <3>1, <5>1, <5>2 DEF Types
      <4>2. CASE m.kind # "DELETE"
        <5>1. Truth(o) = Seen(m.props)
          BY <1>7, <3>2, <4>2 DEF Right
        <5>2. joined => shown' = [shown EXCEPT ![o] = Seen(m.props)]
          BY <3>1, <3>3, <4>2 DEF DeviceNOTI, Broadcast
        <5>3. QED BY <3>1, <5>1, <5>2 DEF Types
      <4>3. QED BY <4>1, <4>2
    <3>5. ~ joined => shown'[o] = NoDevice
      BY <3>1, <3>3 DEF DeviceDeleteNOTI, DeviceNOTI, Broadcast, Started
    <3>6. Settled(o)'
      <4>1. CASE joined
        BY <1>2, <2>2, <3>4, <4>1 DEF Settled, Shows
      <4>2. CASE ~ joined
        <5>1. ToBeTold'
          BY <1>1, <4>2, Zenon DEF ToBeTold
        <5>2. QED BY <1>2, <2>2, <3>5, <4>2, <5>1 DEF Settled, Shows
      <4>3. QED BY <4>1, <4>2
    <3>7. QED BY <1>1, <1>7, <3>6 DEF Told
  <2>3. QED BY <2>1, <2>2
<1>8. CASE Silent(toCore, o) /\ Settled(o)
  <2>1. Silent(Tail(toCore), o) /\ ~ About(m, o)
    BY <1>1, <1>4, <1>8, RemovedWord
  <2>2. Shows(o)' = Shows(o)
    <3>1. CASE m.kind \in Commands
      BY <3>1 DEF CoreStep, DeviceNOTI, DeviceDeleteNOTI, FailureNOTI, BluetoothPowerNOTI, Receive,
                  Commands, Shows
    <3>2. CASE m.kind \notin Commands
      <4>1. m.dev # o
        BY <2>1, <3>2 DEF About
      <4>2. CASE DeviceNOTI \/ DeviceDeleteNOTI
        <5>1. powerState' = powerState
          BY <4>2 DEF DeviceNOTI, DeviceDeleteNOTI, Broadcast
        <5>2. o # "adapter" => shown'[o] = shown[o]
          <6>1. \E x : shown' = IF joined THEN [shown EXCEPT ![m.dev] = x] ELSE shown
            BY <4>2 DEF DeviceNOTI, DeviceDeleteNOTI, Broadcast
          <6>2. QED BY <4>1, <6>1 DEF Types, Objects
        <5>3. QED BY <5>1, <5>2 DEF Shows
      <4>3. CASE FailureNOTI
        BY <4>3 DEF FailureNOTI, Shows
      <4>4. CASE BluetoothPowerNOTI
        <5>1. m.dev = "adapter" /\ shown' = shown
          BY <1>4, <4>4 DEF BluetoothPowerNOTI, Receive, Notis, DeviceNotis, PowerNotis, Commands
        <5>2. QED BY <4>1, <5>1 DEF Shows
      <4>5. QED BY <4>2, <4>3, <4>4 DEF CoreStep
    <3>3. QED BY <3>1, <3>2
  <2>3. Settled(o)'
    BY <1>2, <1>3, <1>8, <2>2, SettledElsewhere
  <2>4. QED BY <1>1, <2>1, <2>3 DEF Told
<1>9. QED
  <2>1. LastSays(toCore, o, Truth(o)) =>
          \/ LastSays(Tail(toCore), o, Truth(o))
          \/ Silent(Tail(toCore), o) /\ About(m, o) /\ Right(m, Truth(o))
    BY <1>1, <1>4, RemovedWord
  <2>2. QED BY <1>5, <1>6, <1>7, <1>8, <2>1 DEF Told

LEMMA AgreedCore ==
  ASSUME Types, Started, NEW o \in Objects, CoreStep, Agreed(o)
  PROVE  Agreed(o)'
<1>1. UNCHANGED <<signals, inspected, device, powered>>
  BY DEF CoreStep, DeviceNOTI, DeviceDeleteNOTI, FailureNOTI, BluetoothPowerNOTI, Receive, bluez
<1>2. Truth(o)' = Truth(o)
  BY <1>1 DEF Truth
<1>3. QED BY <1>1, <1>2, ToldCore, AgreedElsewhere

\* A signal is the last word about its object, or meets nobody.
LEMMA AgreedSignalled ==
  ASSUME Types, Started, NEW o \in Objects, NEW messages \in Seq(Signals),
         SignalAll(messages, o), LastSays(messages, o, Truth(o)'),
         manager = "running" \/ inspected' = inspected
  PROVE  Agreed(o)'
<1>1. signals \in Seq(Signals)
  BY DEF Types
<1>2. CASE manager \in {"subscribed", "running"}
  <2>1. signals' = signals \o messages
    BY <1>2 DEF SignalAll
  <2>2. LastSays(signals \o messages, o, Truth(o)')
    BY <1>1, JoinedWords
  <2>3. QED BY <2>1, <2>2 DEF Agreed
<1>3. CASE manager \notin {"subscribed", "running"}
  <2>1. manager \in {"down", "listed"} /\ manager # "running"
    BY <1>3 DEF Types
  <2>2. signals = <<>> /\ inspected = Nothing
    BY <2>1 DEF Started
  <2>3. signals' = signals /\ o \in stale'
    BY <1>3 DEF SignalAll
  <2>4. inspected' = Nothing
    BY <2>1, <2>2
  <2>5. inspected'.dev # o
    BY <2>4 DEF Nothing, Objects
  <2>6. Silent(signals', o)
    BY <2>2, <2>3, SaysOrSilent
  <2>7. Told(o)'
    BY <2>3 DEF Told
  <2>8. QED BY <2>5, <2>6, <2>7 DEF Agreed
<1>4. QED BY <1>2, <1>3

LEMMA SignalledElsewhere ==
  ASSUME Types, NEW d, NEW o, o # d, NEW messages \in Seq(Signals),
         SignalAll(messages, d), Silent(messages, o)
  PROVE  /\ \A t : LastSays(signals, o, t) => LastSays(signals', o, t)
         /\ Silent(signals, o) => Silent(signals', o)
         /\ o \in stale => o \in stale'
<1>1. signals \in Seq(Signals)
  BY DEF Types
<1>2. signals' \in {signals, signals \o messages}
  BY DEF SignalAll
<1>3. \A t : LastSays(signals, o, t) => LastSays(signals', o, t)
  BY <1>1, <1>2, JoinedWords
<1>4. Silent(signals, o) => Silent(signals', o)
  BY <1>1, <1>2, JoinedWords
<1>5. QED BY <1>3, <1>4 DEF SignalAll

\* The three kinds of signals a change of a device gives, and that of the adapter.
LEMMA SignalsSay ==
  ASSUME NEW d \in Objects, NEW t, NEW m \in Signals, m.dev = d, Right(m, t)
  PROVE  /\ <<m>> \in Seq(Signals) /\ LastSays(<<m>>, d, t)
         /\ \A o : o # d => Silent(<<m>>, o)
         /\ \A q \in Seq(Signals) : (\A o : o # d => Silent(q, o)) =>
              /\ Append(q, m) \in Seq(Signals) /\ LastSays(Append(q, m), d, t)
              /\ \A o : o # d => Silent(Append(q, m), o)
<1>1. About(m, d) /\ \A o : o # d => ~ About(m, o)
  BY DEF About, Signals, DeviceSignals, PowerSignals, Commands
<1>2. ASSUME NEW q \in Seq(Signals), \A o : o # d => Silent(q, o)
      PROVE  /\ Append(q, m) \in Seq(Signals) /\ LastSays(Append(q, m), d, t)
             /\ \A o : o # d => Silent(Append(q, m), o)
  BY <1>1, <1>2, AppendedWord, Queues
<1>3. <<>> \in Seq(Signals) /\ \A o : Silent(<<>>, o)
  BY SaysOrSilent, QueueTypes
<1>4. <<m>> = Append(<<>>, m)
  OBVIOUS
<1>5. QED BY <1>2, <1>3, <1>4

\* A change of one object leaves the truth about the others.
LEMMA TruthElsewhere ==
  ASSUME Types, NEW d \in Addresses, NEW x, device' = [device EXCEPT ![d] = x], powered' = powered
  PROVE  /\ \A o \in Objects : o # d => Truth(o)' = Truth(o)
         /\ Truth(d)' = Seen(x)
<1>1. \A o \in Addresses : o # d => device'[o] = device[o]
  BY DEF Types
<1>2. device'[d] = x
  BY DEF Types
<1>3. QED BY <1>1, <1>2 DEF Truth, Objects

\* What happens to device d and its signals, with whoever did it.
LEMMA DeviceSignalled ==
  ASSUME Types, Started, NEW d \in Addresses, NEW x \in Known \cup {NoDevice},
         device' = [device EXCEPT ![d] = x], powered' = powered, NEW messages \in Seq(Signals),
         SignalAll(messages, d), LastSays(messages, d, Seen(x)),
         \A o : o # d => Silent(messages, o),
         inspected' = inspected \/ (manager = "running" /\ inspected'.dev = "none" /\ inspected.dev = d),
         \A o \in Objects \ {d} :
           /\ LastSays(toCore, o, Truth(o)) => LastSays(toCore', o, Truth(o))
           /\ Silent(toCore, o) => Silent(toCore', o),
         UNCHANGED <<powerState, shown>>, ToBeTold => ToBeTold'
  PROVE  \A o \in Objects : Agreed(o) => Agreed(o)'
<1>1. d \in Objects /\ \A o \in Objects : o # "none"
  BY DEF Objects
<1>2. Agreed(d)'
  BY <1>1, TruthElsewhere, AgreedSignalled
<1>3. ASSUME NEW o \in Objects, o # d, Agreed(o)
      PROVE  Agreed(o)'
  <2>1. Truth(o)' = Truth(o)
    BY <1>3, TruthElsewhere
  <2>2. Shows(o)' = Shows(o)
    BY DEF Shows
  <2>3. Settled(o) => Settled(o)'
    BY <2>1, <2>2, SettledElsewhere
  <2>4. /\ LastSays(signals, o, Truth(o)) => LastSays(signals', o, Truth(o))
        /\ Silent(signals, o) => Silent(signals', o)
        /\ o \in stale => o \in stale'
    BY <1>3, SignalledElsewhere
  <2>5. Told(o) => Told(o)'
    BY <1>3, <2>1, <2>3, <2>4, ToldElsewhere
  <2>6. inspected' = inspected \/ (inspected.dev # o /\ inspected'.dev # o)
    BY <1>1, <1>3
  <2>7. QED BY <1>3, <2>1, <2>4, <2>5, <2>6, AgreedElsewhere
<1>4. QED BY <1>2, <1>3

\* A failure says nothing of a device.
LEMMA FailureSaysNothing ==
  ASSUME Types, NEW cmd \in Commands, NEW d \in Addresses, toCore' = Append(toCore, Request(cmd, d)),
         NEW o, NEW t
  PROVE  /\ LastSays(toCore, o, t) => LastSays(toCore', o, t)
         /\ Silent(toCore, o) => Silent(toCore', o)
<1>1. Request(cmd, d) \in Notis /\ toCore \in Seq(Notis)
  BY MessagesTyped DEF Types
<1>2. ~ About(Request(cmd, d), o)
  BY DEF About, Request, Message
<1>3. QED BY <1>1, <1>2, AppendedWord

\* A listing is the last word about all there is, and none about what there is not.
LEMMA AgreedListed ==
  ASSUME Types, List, UNCHANGED <<inspected, powerState, shown>>, NEW o \in Objects, Agreed(o)
  PROVE  Agreed(o)'
<1> DEFINE q == Append(toCore, Power(powered))
<1>1. /\ UNCHANGED <<signals, device, powered>>
      /\ stale' = stale \ (Present \cup {"adapter"})
  BY DEF List, bluez
<1>2. Truth(o)' = Truth(o)
  BY <1>1 DEF Truth
<1>3. PICK l \in Seq(Notis) :
        /\ toCore' = q \o l
        /\ \A i \in 1 .. Len(l) : \E d \in Present : l[i] = Message("FOUND", d, device[d])
        /\ \A d \in Present : \E i \in 1 .. Len(l) :
             /\ l[i] = Message("FOUND", d, device[d])
             /\ \A j \in 1 .. Len(l) : l[j].dev = d => j = i
  BY ListIs
<1>4. /\ toCore \in Seq(Notis) /\ Power(powered) \in Notis /\ q \in Seq(Notis)
      /\ powered \in BOOLEAN
  BY MessagesTyped, Queues DEF Types
<1>5. ASSUME NEW i \in 1 .. Len(l)
      PROVE  l[i].dev \in Present
  <2>1. PICK d \in Present : l[i] = Message("FOUND", d, device[d])
    BY <1>3
  <2>2. QED BY <2>1 DEF Message
<1>6. o \notin Present => Silent(l, o)
  BY <1>5 DEF Silent, About
<1>7. \A e : About(Power(powered), e) => e = "adapter"
  BY DEF About, Power, Message
<1>8. Present \subseteq Addresses
  BY DEF Present
<1>9. Told(o) => Told(o)'
  <2>1. CASE o = "adapter"
    <3>1. o \notin Present
      BY <1>8, <2>1
    <3>2. About(Power(powered), o) /\ Right(Power(powered), Truth(o))
      BY <1>4, <2>1 DEF About, Right, Power, Message, Truth, Commands
    <3>3. LastSays(q, o, Truth(o))
      BY <1>4, <3>2, AppendedWord
    <3> HIDE DEF q
    <3>4. LastSays(q \o l, o, Truth(o))
      BY <1>4, <1>6, <3>1, <3>3, JoinedWords
    <3>5. QED BY <1>2, <1>3, <3>4 DEF Told
  <2>2. CASE o \in Present
    <3>1. PICK i \in 1 .. Len(l) : /\ l[i] = Message("FOUND", o, device[o])
                                   /\ \A j \in 1 .. Len(l) : l[j].dev = o => j = i
      BY <1>3, <2>2
    <3>2. Truth(o) = Seen(device[o])
      BY <1>8, <2>2, TruthIs
    <3>3. About(l[i], o) /\ Right(l[i], Truth(o))
      BY <3>1, <3>2 DEF About, Right, Message, Commands
    <3>4. \A j \in i + 1 .. Len(l) : j \in 1 .. Len(l) /\ j # i
      BY <1>3, <3>1
    <3>5. \A j \in i + 1 .. Len(l) : ~ About(l[j], o)
      BY <3>1, <3>4 DEF About
    <3>6. LastSays(l, o, Truth(o))
      BY <3>3, <3>5 DEF LastSays
    <3> HIDE DEF q
    <3>7. LastSays(q \o l, o, Truth(o))
      BY <1>4, <3>6, JoinedWords
    <3>8. QED BY <1>2, <1>3, <3>7 DEF Told
  <2>3. ASSUME o # "adapter", o \notin Present, Told(o)
        PROVE  Told(o)'
    <3>1. o \in Addresses /\ Truth(o) = NoDevice
      BY <2>3, TruthIs DEF Objects
    <3>2. o \in stale => o \in stale'
      BY <1>1, <2>3
    <3>3. ~ About(Power(powered), o)
      BY <1>7, <2>3
    <3>4. /\ LastSays(toCore, o, Truth(o)) => LastSays(q, o, Truth(o))
          /\ Silent(toCore, o) => Silent(q, o)
      BY <1>4, <3>3, AppendedWord
    <3>5. /\ LastSays(toCore, o, Truth(o)) => LastSays(toCore', o, Truth(o))
          /\ Silent(toCore, o) => Silent(toCore', o)
      <4> HIDE DEF q
      <4>1. QED BY <1>3, <1>4, <1>6, <2>3, <3>4, JoinedWords
    <3>6. Settled(o) => Settled(o)'
      BY <1>2, <2>3, <3>1 DEF Settled, Shows
    <3>7. QED BY <1>2, <2>3, <3>2, <3>5, <3>6, ToldElsewhere
  <2>4. QED BY <2>1, <2>2, <2>3
<1>10. QED BY <1>1, <1>2, <1>9, AgreedElsewhere

LEMMA AgreedMainWorker ==
  ASSUME Types, Started, MainWorkerStep
  PROVE  \A o \in Objects : Agreed(o) => Agreed(o)'
<1>1. ASSUME NEW cmd, NEW d, Take(cmd, d)
      PROVE  /\ UNCHANGED <<powerState, shown, inspected>> /\ joined' = joined /\ manager' = manager
             /\ manager = "running" /\ inspected = Nothing
             /\ toHardware # <<>> /\ toHardware' = Tail(toHardware)
             /\ Head(toHardware) = Request(cmd, d)
  BY <1>1 DEF Take, client
<1>2. ASSUME NEW cmd \in Commands, NEW d, Take(cmd, d), deaf' = deaf
      PROVE  ToBeTold => ToBeTold'
  <2>1. Head(toHardware) # Initialize
    BY <1>1, <1>2 DEF Request, Message, Initialize, Commands
  <2>2. QED BY <1>1, <1>2, <2>1, StillToBeTold
<1>3. CASE InitializeBluetooth
  BY <1>1, <1>3, AgreedListed DEF InitializeBluetooth
<1>4. ASSUME NEW d \in Addresses, NEW cmd \in Commands, Take(cmd, d), Fail(cmd, d),
             UNCHANGED <<signals, device, stale>>, powered' = powered, deaf' = deaf,
             NEW o \in Objects, Agreed(o)
      PROVE  Agreed(o)'
  <2>1. Truth(o)' = Truth(o)
    BY <1>4 DEF Truth
  <2>2. Shows(o)' = Shows(o)
    BY <1>1, <1>4 DEF Shows
  <2>3. Settled(o) => Settled(o)'
    BY <1>2, <1>4, <2>1, <2>2, SettledElsewhere
  <2>4. /\ LastSays(toCore, o, Truth(o)) => LastSays(toCore', o, Truth(o))
        /\ Silent(toCore, o) => Silent(toCore', o)
    BY <1>4, FailureSaysNothing DEF Fail
  <2>5. Told(o) => Told(o)'
    BY <1>4, <2>1, <2>3, <2>4, ToldElsewhere
  <2>6. QED BY <1>1, <1>4, <2>1, <2>5, AgreedElsewhere
<1>5. ASSUME NEW d \in Addresses, ConnectFails(d) \/ DisconnectFails(d)
      PROVE  \A o \in Objects : Agreed(o) => Agreed(o)'
  <2>1. PICK cmd \in Commands : Take(cmd, d) /\ Fail(cmd, d)
    BY <1>5 DEF ConnectFails, DisconnectFails, Commands
  <2>2. UNCHANGED <<signals, device, stale>> /\ powered' = powered /\ deaf' = deaf
    BY <1>5 DEF ConnectFails, DisconnectFails, bluez
  <2>3. QED BY <1>4, <2>1, <2>2
<1>6. {} \in Known
  BY DEF Known
<1>7. ASSUME NEW d \in Addresses
      PROVE  /\ d \in Objects /\ Untrust(d) \in Seq(Signals) /\ \A o : o # d => Silent(Untrust(d), o)
             /\ "trusted" \in device[d] =>
                  \A t \in Shapes : LastSays(Untrust(d), d, t)
             /\ \A t \in Shapes : Right(Message("PropertiesChanged", d, {}), t)
             /\ Right(Message("InterfacesRemoved", d, {}), NoDevice)
             /\ Message("PropertiesChanged", d, {}) \in Signals
             /\ Message("InterfacesRemoved", d, {}) \in Signals
             /\ Message("PropertiesChanged", d, {}).dev = d
             /\ Message("InterfacesRemoved", d, {}).dev = d
  <2>1. /\ Message("PropertiesChanged", d, {}) \in Signals
        /\ Message("InterfacesRemoved", d, {}) \in Signals
    BY <1>6, MessagesTyped
  <2>2. d \in Objects
    BY DEF Objects
  <2>3. /\ \A t \in Shapes : Right(Message("PropertiesChanged", d, {}), t)
        /\ Right(Message("InterfacesRemoved", d, {}), NoDevice)
        /\ Message("PropertiesChanged", d, {}).dev = d
        /\ Message("InterfacesRemoved", d, {}).dev = d
    BY DEF Right, Message
  <2>4. CASE "trusted" \in device[d]
    <3>1. Untrust(d) = <<Message("PropertiesChanged", d, {})>>
      BY <2>4 DEF Untrust
    <3>2. ASSUME NEW t \in Shapes
          PROVE  /\ Untrust(d) \in Seq(Signals) /\ LastSays(Untrust(d), d, t)
                 /\ \A o : o # d => Silent(Untrust(d), o)
      <4> DEFINE m == Message("PropertiesChanged", d, {})
      <4>1. m \in Signals /\ m.dev = d /\ Right(m, t) /\ Untrust(d) = <<m>>
        BY <2>1, <2>3, <3>1
      <4> HIDE DEF m
      <4>2. QED BY <2>2, <4>1, SignalsSay
    <3>3. {} \in Shapes
      BY DEF Shapes
    <3>4. QED BY <2>1, <2>2, <2>3, <3>2, <3>3
  <2>5. CASE "trusted" \notin device[d]
    <3>1. Untrust(d) = <<>>
      BY <2>5 DEF Untrust
    <3>2. QED BY <2>1, <2>2, <2>3, <2>5, <3>1, SaysOrSilent, QueueTypes
  <2>6. QED BY <2>4, <2>5
<1>8. ASSUME NEW d \in Addresses, ConnectDevice(d) \/ DisconnectDevice(d)
      PROVE  \A o \in Objects : Agreed(o) => Agreed(o)'
  <2> DEFINE messages == <<Message("PropertiesChanged", d, {})>>
  <2>1. PICK cmd \in Commands : Take(cmd, d)
    BY <1>8 DEF ConnectDevice, DisconnectDevice, Commands
  <2>2. deaf' = deaf /\ powered' = powered /\ toCore' = toCore /\ d \in Present
        /\ SignalAll(messages, d)
    BY <1>8 DEF ConnectDevice, DisconnectDevice, Signal
  <2>3. PICK x \in Known : device' = [device EXCEPT ![d] = x]
    <3>1. device[d] \in Known
      BY <2>2, PresentIs DEF Types
    <3>2. device[d] \cup {"connected"} \in Known /\ device[d] \ {"connected"} \in Known
      BY <3>1 DEF Known
    <3>3. QED BY <1>8, <3>2 DEF ConnectDevice, DisconnectDevice
  <2>4. Seen(x) \in Shapes
    BY <2>3, SeenIs
  <2>5. /\ messages \in Seq(Signals) /\ LastSays(messages, d, Seen(x))
        /\ \A o : o # d => Silent(messages, o)
    BY <1>7, <2>4, SignalsSay
  <2>6. ToBeTold => ToBeTold'
    BY <1>2, <2>1, <2>2
  <2> HIDE DEF messages
  <2>7. QED BY <1>1, <2>1, <2>2, <2>3, <2>5, <2>6, DeviceSignalled
<1>9. ASSUME NEW d \in Addresses, UnpairDevice(d)
      PROVE  \A o \in Objects : Agreed(o) => Agreed(o)'
  <2> DEFINE messages == Append(Untrust(d), Message("InterfacesRemoved", d, {}))
  <2>1. Take("UNPAIR", d) /\ "UNPAIR" \in Commands
    BY <1>9 DEF UnpairDevice, Commands
  <2>2. deaf' = deaf /\ powered' = powered /\ toCore' = toCore
        /\ device' = [device EXCEPT ![d] = NoDevice] /\ SignalAll(messages, d)
    BY <1>9 DEF UnpairDevice
  <2>3. Seen(NoDevice) = NoDevice
    BY SeenIs
  <2>4. /\ messages \in Seq(Signals) /\ LastSays(messages, d, NoDevice)
        /\ \A o : o # d => Silent(messages, o)
    BY <1>7, SignalsSay
  <2>5. ToBeTold => ToBeTold'
    BY <1>2, <2>1, <2>2
  <2> HIDE DEF messages
  <2>6. QED BY <1>1, <2>1, <2>2, <2>3, <2>4, <2>5, DeviceSignalled
<1>10. ASSUME NEW d \in Addresses, UnpairFails(d)
       PROVE  \A o \in Objects : Agreed(o) => Agreed(o)'
  <2>1. Take("UNPAIR", d) /\ Fail("UNPAIR", d) /\ "UNPAIR" \in Commands
        /\ powered' = powered /\ deaf' = deaf
    BY <1>10 DEF UnpairFails, Commands
  <2>2. CASE UNCHANGED <<device, signals, missed, stale>>
    BY <1>4, <2>1, <2>2
  <2>3. CASE "trusted" \in device[d] /\ device' = [device EXCEPT ![d] = @ \ {"trusted"}]
             /\ SignalAll(Untrust(d), d)
    <3> DEFINE x == device[d] \ {"trusted"}
    <3>1. device[d] \in Known
      BY <2>3 DEF Types, NoDevice
    <3>2. x \in Known /\ device' = [device EXCEPT ![d] = x]
      BY <2>3, <3>1 DEF Known
    <3> HIDE DEF x
    <3>3. Seen(x) \in Shapes
      BY <3>2, SeenIs
    <3>4. \A o : /\ LastSays(toCore, o, Truth(o)) => LastSays(toCore', o, Truth(o))
                 /\ Silent(toCore, o) => Silent(toCore', o)
      BY <2>1, FailureSaysNothing DEF Fail
    <3>5. ToBeTold => ToBeTold'
      BY <1>2, <2>1
    <3>6. LastSays(Untrust(d), d, Seen(x))
      BY <1>7, <2>3, <3>3
    <3>7. QED BY <1>1, <1>7, <2>1, <2>3, <3>2, <3>4, <3>5, <3>6, DeviceSignalled
  <2>4. QED BY <1>10, <2>2, <2>3 DEF UnpairFails
<1>11. QED BY <1>3, <1>5, <1>8, <1>9, <1>10 DEF MainWorkerStep

SignalsOf(d) == {m \in Signals : m.dev = d}

\* Something is said of a device if a signal of it occurs.
LEMMA SilentIs ==
  ASSUME NEW q \in Seq(Signals), NEW d
  PROVE  Silent(q, d) <=> ~ Occurs(q, SignalsOf(d))
<1>1. \A i \in 1 .. Len(q) : q[i] \in Signals
  OBVIOUS
<1>2. \A m \in Signals : About(m, d) <=> m \in SignalsOf(d)
  BY DEF About, SignalsOf, Signals, DeviceSignals, PowerSignals, Commands
<1>3. QED BY <1>1, <1>2 DEF Silent, Occurs

\* A worker's answer to a signal, and what it passes on, keep the last word.
LEMMA AgreedDispatched ==
  ASSUME Types, NEW kind, Dispatch(kind), signals' = Tail(signals), NEW o \in Objects, Agreed(o),
         UNCHANGED <<device, powered>>, stale \subseteq stale',
         Head(signals).dev # o =>
           /\ inspected'.dev # o
           /\ LastSays(toCore, o, Truth(o)) => LastSays(toCore', o, Truth(o))
           /\ Silent(toCore, o) => Silent(toCore', o),
         Head(signals).dev = o /\ Right(Head(signals), Truth(o)) /\ Silent(Tail(signals), o) =>
           \/ inspected'.dev = o /\ Truth(o) = Seen(inspected'.props)
           \/ inspected'.dev # o /\ (o \in stale' \/ LastSays(toCore', o, Truth(o)))
  PROVE  Agreed(o)'
<1>1. /\ UNCHANGED <<powerState, shown, toHardware, manager>> /\ joined' = joined /\ deaf' = deaf
      /\ signals # <<>> /\ inspected = Nothing
  BY DEF Dispatch, client
<1>2. Truth(o)' = Truth(o) /\ Shows(o)' = Shows(o)
  BY <1>1 DEF Truth, Shows
<1>3. Settled(o) => Settled(o)'
  <2>1. ToBeTold => ToBeTold'
    BY <1>1, StillToBeTold
  <2>2. QED BY <1>2, <2>1, SettledElsewhere
<1>4. signals \in Seq(Signals) /\ Head(signals) \in Signals
  BY <1>1, Queues DEF Types
<1>5. About(Head(signals), o) <=> Head(signals).dev = o
  BY <1>4 DEF About, Signals, DeviceSignals, PowerSignals, Commands
<1>6. inspected.dev # o
  BY <1>1 DEF Nothing, Objects
<1>7. CASE LastSays(Tail(signals), o, Truth(o))
  BY <1>2, <1>7 DEF Agreed
<1>8. CASE Silent(Tail(signals), o) /\ About(Head(signals), o) /\ Right(Head(signals), Truth(o))
  BY <1>2, <1>5, <1>8 DEF Agreed, Told
<1>9. CASE Silent(signals, o) /\ Told(o)
  <2>1. Silent(Tail(signals), o) /\ Head(signals).dev # o
    BY <1>1, <1>4, <1>5, <1>9, RemovedWord
  <2>2. Told(o)'
    BY <1>2, <1>3, <1>9, <2>1, ToldElsewhere
  <2>3. QED BY <2>1, <2>2 DEF Agreed
<1>10. QED
  <2>1. LastSays(signals, o, Truth(o)) =>
          \/ LastSays(Tail(signals), o, Truth(o))
          \/ Silent(Tail(signals), o) /\ About(Head(signals), o) /\ Right(Head(signals), Truth(o))
    BY <1>1, <1>4, RemovedWord
  <2>2. QED BY <1>6, <1>7, <1>8, <1>9, <2>1 DEF Agreed

\* A signal that is forwarded tells HardwareHandler what it told BluetoothWorker.
LEMMA AgreedForwarded ==
  ASSUME Types, Started,
         HandleInterfacesAdded \/ HandleInterfacesRemoved \/ HandleAdapterChanged,
         NEW o \in Objects, Agreed(o)
  PROVE  Agreed(o)'
<1> DEFINE m == Head(signals)
<1>1. PICK from, kind : /\ Dispatch(from) /\ Forward(kind)
                        /\ \/ from = "InterfacesAdded" /\ kind = "FOUND"
                           \/ from = "InterfacesRemoved" /\ kind = "DELETE"
                           \/ from = "PoweredChanged"
                              /\ kind = IF m.props = {} THEN "POWER_OFF" ELSE "POWER_ON"
  BY DEF HandleInterfacesAdded, HandleInterfacesRemoved, HandleAdapterChanged
<1>2. signals # <<>> /\ m.kind = from /\ inspected = Nothing
  BY <1>1 DEF Dispatch
<1>3. m \in Signals /\ signals \in Seq(Signals)
  BY <1>2, Queues DEF Types
<1> DEFINE n == [m EXCEPT !.kind = kind]
<1>4. /\ toCore' = Append(toCore, n) /\ signals' = Tail(signals)
      /\ UNCHANGED <<inspected, device, powered, stale>>
  BY <1>1 DEF Forward, bluez
<1>5. n.dev = m.dev /\ n.kind = kind /\ n.props = m.props
  BY <1>3 DEF Signals, DeviceSignals, PowerSignals
<1>6. n \in Notis
  <2>1. CASE from = "PoweredChanged"
    <3>1. m \in PowerSignals
      BY <1>2, <1>3, <2>1 DEF Signals, DeviceSignals
    <3>2. QED BY <1>1, <2>1, <3>1 DEF PowerSignals, Notis, PowerNotis
  <2>2. CASE from # "PoweredChanged"
    <3>1. m \in DeviceSignals
      BY <1>2, <1>3, <2>2 DEF Signals, PowerSignals
    <3>2. QED BY <1>1, <2>2, <3>1 DEF DeviceSignals, Notis, DeviceNotis
  <2>3. QED BY <2>1, <2>2
<1>7. About(n, o) <=> m.dev = o
  <2>1. kind \notin Commands
    BY <1>1 DEF Commands
  <2>2. QED BY <1>5, <2>1 DEF About
<1>8. Right(m, Truth(o)) => Right(n, Truth(o))
  BY <1>1, <1>2, <1>5 DEF Right
<1>9. toCore \in Seq(Notis)
  BY DEF Types
<1> HIDE DEF n
<1>10. inspected'.dev # o
  BY <1>2, <1>4 DEF Nothing, Objects
<1>11. m.dev # o => /\ LastSays(toCore, o, Truth(o)) => LastSays(toCore', o, Truth(o))
                    /\ Silent(toCore, o) => Silent(toCore', o)
  BY <1>4, <1>6, <1>7, <1>9, AppendedWord
<1>12. m.dev = o /\ Right(m, Truth(o)) => LastSays(toCore', o, Truth(o))
  BY <1>4, <1>6, <1>7, <1>8, <1>9, AppendedWord
<1> HIDE DEF m
<1>13. QED BY <1>1, <1>4, <1>10, <1>11, <1>12, AgreedDispatched DEF m

\* The answer to a property change is the truth when it is given.
LEMMA AgreedInspected ==
  ASSUME Types, Started, GetAllDeviceProperties, NEW o \in Objects, Agreed(o)
  PROVE  Agreed(o)'
<1> DEFINE d == Head(signals).dev
<1>1. /\ Dispatch("PropertiesChanged") /\ signals' = Tail(signals)
      /\ UNCHANGED <<toCore, device, powered, stale>>
      /\ inspected' = [dev |-> d, props |-> device[d]]
  BY DEF GetAllDeviceProperties, bluez
<1>2. Head(signals) \in Signals /\ Head(signals).kind = "PropertiesChanged"
  BY <1>1, Queues DEF Dispatch, Types
<1>3. d \in Addresses
  BY <1>2 DEF Signals, DeviceSignals, PowerSignals
<1>4. d # o => inspected'.dev # o
  BY <1>1
<1>5. ASSUME d = o, Right(Head(signals), Truth(o))
      PROVE  inspected'.dev = o /\ Truth(o) = Seen(inspected'.props)
  <2>1. Truth(o) \in Shapes
    BY <1>2, <1>5 DEF Right
  <2>2. o \in Present /\ Truth(o) = Seen(device[o])
    BY <1>3, <1>5, <2>1, TruthIs
  <2>3. QED BY <1>1, <1>5, <2>2
<1>6. QED BY <1>1, <1>4, <1>5, AgreedDispatched

\* A property change that comes to nothing was not the last word, or the device is stale.
LEMMA AgreedDropped ==
  ASSUME Types, Started, GetAllFails, NEW o \in Objects, Agreed(o)
  PROVE  Agreed(o)'
<1> DEFINE d == Head(signals).dev
<1>1. /\ Dispatch("PropertiesChanged") /\ signals' = Tail(signals) /\ inspected = Nothing
      /\ UNCHANGED <<inspected, toCore, device, powered>> /\ stale \subseteq stale'
  BY DEF GetAllFails, Dispatch, bluez
<1>2. signals \in Seq(Signals) /\ Tail(signals) \in Seq(Signals)
  BY <1>1, Queues DEF Dispatch, Types
<1>3. inspected'.dev # o
  BY <1>1 DEF Nothing, Objects
<1>4. ASSUME d = o, Silent(Tail(signals), o)
      PROVE  o \in stale'
  <2>1. \A i \in 1 .. Len(Tail(signals)) : Tail(signals)[i].dev # d
    <3>1. ~ Occurs(Tail(signals), SignalsOf(o))
      BY <1>2, <1>4, SilentIs
    <3>2. \A i \in 1 .. Len(Tail(signals)) : Tail(signals)[i] \in Signals
      BY <1>2
    <3>3. QED BY <1>4, <3>1, <3>2 DEF Occurs, SignalsOf
  <2>2. QED BY <1>4, <2>1 DEF GetAllFails
<1>5. QED BY <1>1, <1>3, <1>4, AgreedDispatched

\* It is passed on before another signal is looked at; trusting gives a signal of its own.
LEMMA AgreedTrusted ==
  ASSUME Types, Started, TrustAndNotify \/ TrustFails
  PROVE  \A o \in Objects : Agreed(o) => Agreed(o)'
<1> DEFINE d == inspected.dev
           m == Message("PROPERTY_CHANGE", d, inspected.props)
<1>1. /\ UNCHANGED <<powerState, shown, toHardware, manager, powered>>
      /\ joined' = joined /\ deaf' = deaf /\ inspected # Nothing /\ inspected' = Nothing
      /\ toCore' = Append(toCore, m)
  BY DEF TrustAndNotify, TrustFails, Inspecting, client
<1>2. inspected \in [dev : Addresses, props : Known] /\ d \in Addresses /\ inspected.props \in Known
  BY <1>1 DEF Types
<1>3. manager = "running"
  BY <1>1 DEF Started
<1>4. m \in Notis /\ toCore \in Seq(Notis) /\ m.dev = d /\ m.props = inspected.props
      /\ m.kind = "PROPERTY_CHANGE"
  BY <1>2, MessagesTyped DEF Types, Message
<1>5. \A o : About(m, o) <=> o = d
  BY <1>4 DEF About, Commands
<1> HIDE DEF m
<1>6. \A o : o # d => /\ LastSays(toCore, o, Truth(o)) => LastSays(toCore', o, Truth(o))
                      /\ Silent(toCore, o) => Silent(toCore', o)
  BY <1>1, <1>4, <1>5, AppendedWord
<1>7. ToBeTold => ToBeTold'
  BY <1>1, StillToBeTold
<1>8. inspected'.dev = "none"
  BY <1>1 DEF Nothing
<1>9. ASSUME d \in Present, device' = [device EXCEPT ![d] = @ \cup {"trusted"}],
             Signal("PropertiesChanged", d, {})
      PROVE  \A o \in Objects : Agreed(o) => Agreed(o)'
  <2> DEFINE x == device[d] \cup {"trusted"}
             s == Message("PropertiesChanged", d, {})
  <2>1. x \in Known
    <3>1. device[d] \in Known
      BY <1>9, PresentIs DEF Types
    <3>2. QED BY <3>1 DEF Known
  <2>2. device' = [device EXCEPT ![d] = x] /\ SignalAll(<<s>>, d)
    BY <1>9 DEF Signal
  <2>3. Right(s, Seen(x)) /\ s.dev = d
    BY <2>1, SeenIs DEF Right, Message
  <2>4. s \in Signals /\ d \in Objects
    <3>1. {} \in Known
      BY DEF Known
    <3>2. QED BY <1>2, <3>1, MessagesTyped DEF Objects
  <2> HIDE DEF x, s
  <2>5. /\ <<s>> \in Seq(Signals) /\ LastSays(<<s>>, d, Seen(x))
        /\ \A o : o # d => Silent(<<s>>, o)
    BY <2>3, <2>4, SignalsSay
  <2> HIDE DEF d
  <2>6. QED BY <1>1, <1>2, <1>3, <1>6, <1>7, <1>8, <2>1, <2>2, <2>5, DeviceSignalled DEF d
<1>10. ASSUME UNCHANGED <<signals, stale>>,
              \/ device' = device
              \/ /\ d \in Present /\ "trusted" \in device[d]
                 /\ device' = [device EXCEPT ![d] = @ \cup {"trusted"}],
              NEW o \in Objects, Agreed(o)
       PROVE  Agreed(o)'
  <2>1. Truth(o)' = Truth(o)
    <3>1. CASE device' = device
      BY <1>1, <3>1 DEF Truth
    <3>2. CASE d \in Present /\ "trusted" \in device[d]
               /\ device' = [device EXCEPT ![d] = @ \cup {"trusted"}]
      <4>1. device[d] \cup {"trusted"} = device[d]
        BY <3>2
      <4>2. device' = device
        BY <1>2, <3>2, <4>1 DEF Types
      <4>3. QED BY <3>1, <4>2
    <3>3. QED BY <1>10, <3>1, <3>2
  <2>2. CASE o # d
    <3>1. Shows(o)' = Shows(o)
      BY <1>1 DEF Shows
    <3>2. Settled(o) => Settled(o)'
      BY <1>7, <2>1, <3>1, SettledElsewhere
    <3>3. Told(o) => Told(o)'
      BY <1>6, <1>10, <2>1, <2>2, <3>2, ToldElsewhere
    <3>4. inspected.dev # o /\ inspected'.dev # o
      BY <1>8, <2>2 DEF Objects
    <3>5. QED BY <1>10, <2>1, <3>3, <3>4, AgreedElsewhere
  <2>3. CASE o = d
    <3>1. CASE LastSays(signals, o, Truth(o))
      BY <1>10, <2>1, <3>1 DEF Agreed
    <3>2. CASE Silent(signals, o) /\ Truth(o) = Seen(inspected.props)
      <4>1. Right(m, Truth(o))
        BY <1>4, <3>2 DEF Right
      <4>2. LastSays(toCore', o, Truth(o))
        BY <1>1, <1>4, <1>5, <2>3, <4>1, AppendedWord
      <4>3. Told(o)'
        BY <2>1, <4>2 DEF Told
      <4>4. inspected'.dev # o
        BY <1>8 DEF Objects
      <4>5. QED BY <1>10, <3>2, <4>3, <4>4 DEF Agreed
    <3>3. QED BY <1>10, <2>3, <3>1, <3>2 DEF Agreed
  <2>4. QED BY <2>2, <2>3
<1>11. QED BY <1>9, <1>10 DEF TrustAndNotify, TrustFails

LEMMA AgreedWorker ==
  ASSUME Types, Started, WorkerStep
  PROVE  \A o \in Objects : Agreed(o) => Agreed(o)'
BY AgreedForwarded, AgreedInspected, AgreedDropped, AgreedTrusted DEF WorkerStep

LEMMA AgreedBluez ==
  ASSUME Types, Started, BluezStep
  PROVE  \A o \in Objects : Agreed(o) => Agreed(o)'
<1>1. /\ UNCHANGED <<powerState, shown, toHardware, toCore, manager, inspected>>
      /\ joined' = joined /\ deaf' = deaf
  BY DEF BluezStep, Appears, Changes, Disappears, SwitchAdapter, External, client
<1>2. ToBeTold => ToBeTold'
  BY <1>1, StillToBeTold
<1>3. {} \in Known
  BY DEF Known
<1>4. ASSUME NEW d \in Addresses, Appears(d) \/ Changes(d) \/ Disappears(d)
      PROVE  \A o \in Objects : Agreed(o) => Agreed(o)'
  <2>1. PICK x \in Known \cup {NoDevice}, s \in Signals :
               /\ device' = [device EXCEPT ![d] = x]
               /\ s.dev = d /\ Right(s, Seen(x)) /\ SignalAll(<<s>>, d)
    <3>1. CASE Appears(d)
      <4> DEFINE s == Message("InterfacesAdded", d, {})
      <4>1. device' = [device EXCEPT ![d] = {}] /\ SignalAll(<<s>>, d)
        BY <3>1 DEF Appears, Signal
      <4>2. s \in Signals /\ s.dev = d /\ Right(s, Seen({}))
        BY <1>3, MessagesTyped DEF Message, Right
      <4> HIDE DEF s
      <4>3. QED BY <1>3, <4>1, <4>2
    <3>2. CASE Changes(d)
      <4> DEFINE s == Message("PropertiesChanged", d, {})
      <4>1. device[d] \in Known
        BY <3>2, PresentIs DEF Changes, Types
      <4>2. PICK p \in {"paired", "connected", "trusted"} :
                   device' = [device EXCEPT ![d] = IF p \in @ THEN @ \ {p} ELSE @ \cup {p}]
        BY <3>2 DEF Changes
      <4>3. device[d] \ {p} \in Known /\ device[d] \cup {p} \in Known
        BY <4>1 DEF Known
      <4>4. PICK x \in Known : device' = [device EXCEPT ![d] = x]
        BY <4>2, <4>3
      <4>5. s \in Signals
        BY <1>3, MessagesTyped
      <4>6. s.dev = d /\ Right(s, Seen(x))
        BY SeenIs DEF Message, Right
      <4>7. SignalAll(<<s>>, d)
        BY <3>2 DEF Changes, Signal
      <4> HIDE DEF s
      <4>8. QED BY <4>4, <4>5, <4>6, <4>7
    <3>3. CASE Disappears(d)
      <4> DEFINE s == Message("InterfacesRemoved", d, {})
      <4>1. device' = [device EXCEPT ![d] = NoDevice] /\ SignalAll(<<s>>, d)
        BY <3>3 DEF Disappears, Signal
      <4>2. s \in Signals /\ s.dev = d /\ Right(s, Seen(NoDevice))
        BY <1>3, MessagesTyped, SeenIs DEF Message, Right
      <4> HIDE DEF s
      <4>3. QED BY <4>1, <4>2
    <3>4. QED BY <1>4, <3>1, <3>2, <3>3
  <2>2. powered' = powered
    BY <1>4 DEF Appears, Changes, Disappears
  <2>3. d \in Objects
    BY DEF Objects
  <2>4. /\ <<s>> \in Seq(Signals) /\ LastSays(<<s>>, d, Seen(x))
        /\ \A o : o # d => Silent(<<s>>, o)
    BY <2>1, <2>3, SignalsSay
  <2>5. QED BY <1>1, <1>2, <2>1, <2>2, <2>4, DeviceSignalled
<1>5. CASE SwitchAdapter
  <2> DEFINE s == Message("PoweredChanged", "adapter", IF powered THEN {} ELSE {"powered"})
  <2>1. device' = device /\ powered' = ~ powered /\ SignalAll(<<s>>, "adapter")
    BY <1>5 DEF SwitchAdapter, Signal
  <2>2. "adapter" \in Objects /\ s \in Signals /\ s.dev = "adapter"
    BY MessagesTyped DEF Objects, Switched, Message
  <2>3. Truth("adapter")' = (IF powered THEN "OFF" ELSE "ON")
    BY <2>1 DEF Truth
  <2>4. Right(s, Truth("adapter")')
    BY <2>3 DEF Right, Message
  <2> HIDE DEF s
  <2>5. /\ <<s>> \in Seq(Signals) /\ LastSays(<<s>>, "adapter", Truth("adapter")')
        /\ \A o : o # "adapter" => Silent(<<s>>, o)
    BY <2>2, <2>4, SignalsSay
  <2>6. Agreed("adapter")'
    BY <1>1, <2>1, <2>2, <2>5, AgreedSignalled
  <2>7. ASSUME NEW o \in Objects, o # "adapter", Agreed(o)
        PROVE  Agreed(o)'
    <3>1. Truth(o)' = Truth(o) /\ Shows(o)' = Shows(o)
      BY <1>1, <2>1, <2>7 DEF Truth, Shows
    <3>2. /\ LastSays(signals, o, Truth(o)) => LastSays(signals', o, Truth(o))
          /\ Silent(signals, o) => Silent(signals', o)
          /\ o \in stale => o \in stale'
      <4>1. SignalAll(<<s>>, "adapter") /\ <<s>> \in Seq(Signals) /\ Silent(<<s>>, o)
        BY <2>1, <2>5, <2>7
      <4>2. QED BY <2>7, <4>1, SignalledElsewhere
    <3>3. Settled(o) => Settled(o)'
      BY <1>2, <3>1, SettledElsewhere
    <3>4. Told(o) => Told(o)'
      BY <1>1, <3>1, <3>2, <3>3, ToldElsewhere
    <3>5. QED BY <1>1, <2>7, <3>1, <3>2, <3>4, AgreedElsewhere
  <2>8. QED BY <2>6, <2>7
<1>6. QED BY <1>4, <1>5 DEF BluezStep

\* A daemon that dies loses what it was told, and with it the clients or the signals it was to
\* tell; what it says when it starts is the truth.
LEMMA AgreedLives ==
  ASSUME Types, Started, CrashCore \/ CrashHardware \/ StartUp, NEW o \in Objects, Agreed(o)
  PROVE  Agreed(o)'
<1>1. CASE CrashCore
  <2>1. /\ UNCHANGED <<device, powered, signals, inspected, stale>> /\ toCore' = <<>>
        /\ joined' = FALSE /\ shown' = [d \in Addresses |-> NoDevice]
    BY <1>1 DEF CrashCore, Crash, NoClient, bluez
  <2>2. Truth(o)' = Truth(o)
    BY <2>1 DEF Truth
  <2>3. ToBeTold'
    BY <2>1, Zenon DEF ToBeTold
  <2>4. o # "adapter" => Shows(o)' = NoDevice
    BY <2>1 DEF Shows, Objects
  <2>5. Settled(o)'
    BY <2>2, <2>3, <2>4 DEF Settled
  <2>6. Told(o)'
    BY <2>1, <2>5, SaysOrSilent DEF Told
  <2>7. QED BY <2>1, <2>2, <2>6, AgreedElsewhere
<1>2. CASE CrashHardware
  <2> DEFINE lost == {signals[i].dev : i \in 1 .. Len(signals)} \cup ({inspected.dev} \ {"none"})
  <2>1. /\ UNCHANGED <<device, powered, powerState, shown, toCore>> /\ signals' = <<>>
        /\ inspected' = Nothing /\ manager' = "down" /\ stale' = stale \cup lost
    BY <1>2 DEF CrashHardware, Crash, client, bluez
  <2>2. Truth(o)' = Truth(o) /\ Shows(o)' = Shows(o)
    BY <2>1 DEF Truth, Shows
  <2>3. ToBeTold'
    BY <2>1 DEF ToBeTold
  <2>4. Silent(signals', o) /\ inspected'.dev # o
    BY <2>1, SaysOrSilent DEF Nothing, Objects
  <2>5. CASE o \in lost
    BY <2>1, <2>4, <2>5 DEF Agreed, Told
  <2>6. CASE o \notin lost
    <3>1. inspected.dev # o
      BY <2>6 DEF Objects
    <3>2. Silent(signals, o)
      BY <2>6 DEF Silent, About
    <3>3. Told(o)
      BY <3>1, <3>2, SaysOrSilent DEF Agreed
    <3>4. Settled(o) => Settled(o)'
      BY <2>2, <2>3, SettledElsewhere
    <3>5. Told(o)'
      <4> HIDE DEF lost
      <4>1. QED BY <2>1, <2>2, <3>3, <3>4, ToldElsewhere
    <3>6. QED BY <2>4, <3>5 DEF Agreed
  <2>7. QED BY <2>5, <2>6
<1>3. CASE StartUp
  <2>1. /\ UNCHANGED <<powerState, shown, toHardware, inspected>> /\ joined' = joined
    BY <1>3 DEF StartUp, ListAtStart, AddMatchRules, StartReceiver, StartStep, client
  <2>2. CASE ListAtStart
    BY <2>1, <2>2, AgreedListed DEF ListAtStart
  <2>3. CASE AddMatchRules \/ StartReceiver
    <3>1. UNCHANGED <<toCore, signals, device, powered, stale>> /\ deaf' = deaf
          /\ manager # "down" /\ manager' # "down"
      BY <2>3 DEF AddMatchRules, StartReceiver, StartStep, bluez
    <3>2. Truth(o)' = Truth(o) /\ Shows(o)' = Shows(o)
      BY <2>1, <3>1 DEF Truth, Shows
    <3>3. ToBeTold => ToBeTold'
      BY <2>1, <3>1, Zenon DEF ToBeTold
    <3>4. Told(o) => Told(o)'
      BY <3>1, <3>2, <3>3, SettledElsewhere, ToldElsewhere
    <3>5. QED BY <2>1, <3>1, <3>2, <3>4, AgreedElsewhere
  <2>4. QED BY <1>3, <2>2, <2>3 DEF StartUp
<1>4. QED BY <1>1, <1>2, <1>3

\* Only a manager that runs takes requests and looks at signals; only a client shows something.
LEMMA StartedStep == Types /\ Started /\ [Next]_vars => Started'
<1> SUFFICES ASSUME Types, Started, [Next]_vars
             PROVE  Started'
  OBVIOUS
<1> USE DEF client, bluez, count
<1>1. CASE UNCHANGED vars
  BY <1>1 DEF vars, history, Started
<1>2. CASE ClientStep
  <2>1. UNCHANGED <<manager, inspected, signals>>
    BY <1>2 DEF ClientStep, Join, Leave, ConnectBTDevice, DisconnectBTDevice, UnpairBTDevice, Ask
  <2>2. manager # "running" => toHardware' = toHardware /\ asked' \in {asked, {}}
    BY <1>2 DEF ClientStep, Join, Leave, NoClient, ConnectBTDevice, DisconnectBTDevice, UnpairBTDevice,
                Ask, SendToHardware
  <2>3. ~ joined' => shown' = [d \in Addresses |-> NoDevice]
    BY <1>2 DEF ClientStep, Join, Leave, NoClient, ConnectBTDevice, DisconnectBTDevice, UnpairBTDevice, Ask
  <2>4. QED BY <2>1, <2>2, <2>3 DEF Started
<1>3. CASE CoreStep
  <2>1. UNCHANGED <<joined, toHardware, manager, inspected, signals>>
    BY <1>3 DEF CoreStep, DeviceNOTI, DeviceDeleteNOTI, FailureNOTI, BluetoothPowerNOTI, Receive
  <2>2. ~ joined => shown' = shown
    BY <1>3 DEF CoreStep, DeviceNOTI, DeviceDeleteNOTI, FailureNOTI, BluetoothPowerNOTI, Receive, Broadcast
  <2>3. asked' \subseteq asked
    BY <1>3 DEF CoreStep, DeviceNOTI, DeviceDeleteNOTI, FailureNOTI, BluetoothPowerNOTI, Receive, Broadcast
  <2>4. QED BY <2>1, <2>2, <2>3 DEF Started
<1>4. CASE MainWorkerStep \/ WorkerStep
  <2>1. UNCHANGED <<joined, shown, manager>>
    BY <1>4 DEF MainWorkerStep, InitializeBluetooth, ConnectDevice, ConnectFails, DisconnectDevice,
                DisconnectFails, UnpairDevice, UnpairFails, Take, WorkerStep, HandleInterfacesAdded,
                HandleInterfacesRemoved, HandleAdapterChanged, GetAllDeviceProperties, GetAllFails,
                Dispatch, TrustAndNotify, TrustFails, Inspecting
  <2>2. manager = "running"
    BY <1>4 DEF MainWorkerStep, InitializeBluetooth, ConnectDevice, ConnectFails, DisconnectDevice,
                DisconnectFails, UnpairDevice, UnpairFails, Take, WorkerStep, HandleInterfacesAdded,
                HandleInterfacesRemoved, HandleAdapterChanged, GetAllDeviceProperties, GetAllFails,
                Dispatch, TrustAndNotify, TrustFails, Inspecting, Started
  <2>3. QED BY <2>1, <2>2 DEF Started
<1>5. CASE BluezStep
  <2>1. UNCHANGED <<joined, shown, manager, inspected, toHardware, asked>>
    BY <1>5 DEF BluezStep, Appears, Changes, Disappears, SwitchAdapter, External
  <2>2. manager \in {"down", "listed"} => signals' = signals
    BY <1>5 DEF BluezStep, Appears, Changes, Disappears, SwitchAdapter, Signal, SignalAll
  <2>3. QED BY <2>1, <2>2 DEF Started
<1>6. CASE CrashCore
  BY <1>6 DEF CrashCore, Crash, NoClient, Started
<1>7. CASE CrashHardware
  BY <1>7 DEF CrashHardware, Crash, Started
<1>8. CASE StartUp
  <2>1. /\ UNCHANGED <<joined, shown, toHardware, inspected, asked, signals>>
        /\ manager # "running" /\ manager' \in {"listed", "subscribed", "running"}
        /\ manager' = "listed" => manager = "down"
    BY <1>8 DEF StartUp, ListAtStart, AddMatchRules, StartReceiver, StartStep, List
  <2>2. QED BY <2>1 DEF Started
<1>9. QED
  BY <1>1, <1>2, <1>3, <1>4, <1>5, <1>6, <1>7, <1>8 DEF Next

AllAgreed == \A o \in Objects : Agreed(o)

LEMMA AgreedInit == Init => Started /\ AllAgreed
<1> SUFFICES ASSUME Init
             PROVE  Started /\ AllAgreed
  OBVIOUS
<1>1. Types
  BY TypesInit
<1>2. Started
  BY DEF Init, Started
<1>3. ASSUME NEW o \in Objects
      PROVE  Agreed(o)
  <2>1. Silent(signals, o) /\ Silent(toCore, o) /\ inspected.dev # o
    BY SaysOrSilent DEF Init, Nothing, Objects
  <2>2. Settled(o)
    <3>1. CASE o = "adapter"
      BY <3>1 DEF Init, Settled, Shows, Truth
    <3>2. CASE o \in Addresses /\ o # "adapter"
      <4>1. Shows(o) = NoDevice
        BY <3>2 DEF Init, Shows
      <4>2. ToBeTold
        BY Zenon DEF Init, ToBeTold
      <4>3. QED BY <3>2, <4>1, <4>2 DEF Settled
    <3>3. QED BY <3>1, <3>2 DEF Objects
  <2>3. QED BY <2>1, <2>2 DEF Agreed, Told
<1>4. QED BY <1>2, <1>3 DEF AllAgreed

LEMMA AgreedStep == Types /\ Started /\ AllAgreed /\ [Next]_vars => AllAgreed'
<1> SUFFICES ASSUME Types, Started, AllAgreed, [Next]_vars
             PROVE  AllAgreed'
  OBVIOUS
<1>1. Objects' = Objects
  BY DEF Objects
<1>2. ASSUME NEW o \in Objects, UNCHANGED vars, Agreed(o)
      PROVE  Agreed(o)'
  <2>1. /\ UNCHANGED <<powerState, shown, toHardware, toCore, manager, inspected, signals, device, powered,
                       stale>>
        /\ joined' = joined /\ deaf' = deaf
    BY <1>2 DEF vars, client, bluez, count, history
  <2>2. Truth(o)' = Truth(o) /\ Shows(o)' = Shows(o)
    BY <2>1 DEF Truth, Shows
  <2>3. ToBeTold => ToBeTold'
    BY <2>1, StillToBeTold
  <2>4. Told(o) => Told(o)'
    BY <2>1, <2>2, <2>3, SettledElsewhere, ToldElsewhere
  <2>5. QED BY <1>2, <2>1, <2>2, <2>4, AgreedElsewhere
<1>3. ASSUME NEW o \in Objects, Agreed(o)
      PROVE  Agreed(o)'
  BY <1>2, <1>3, AgreedClient, AgreedCore, AgreedMainWorker, AgreedWorker, AgreedBluez, AgreedLives DEF Next
<1>4. QED BY <1>1, <1>3 DEF AllAgreed

LEMMA Agreement == Spec => [](Types /\ Started /\ AllAgreed)
BY TypesInit, TypesStep, StartedStep, AgreedInit, AgreedStep, PTL DEF Spec

\* When nothing is on its way, a client that joined and was heard shows the power state and exactly
\* the devices BlueZ has, as they are, through whatever crossed, crashed or started again: all but
\* an object that changed while nobody was subscribed and has not been listed since.
THEOREM ClientsSeeTheDevices == Spec => []ListAgrees
<1>1. Types /\ Started /\ AllAgreed => ListAgrees
  <2> SUFFICES ASSUME Types, AllAgreed, Quiet, joined, ~ deaf
               PROVE  /\ \A d \in Addresses \ stale : shown[d] = Seen(device[d])
                      /\ "adapter" \notin stale => powerState = IF powered THEN "ON" ELSE "OFF"
    BY DEF ListAgrees
  <2>1. ~ ToBeTold
    <3>1. manager # "down" /\ ~ \E i \in 1 .. Len(toHardware) : toHardware[i] = Initialize
      BY DEF Quiet
    <3>2. QED BY <3>1, Zenon DEF ToBeTold
  <2>2. ASSUME NEW o \in Objects, o \notin stale
        PROVE  Shows(o) = Truth(o)
    <3>1. Silent(signals, o) /\ Silent(toCore, o) /\ inspected.dev # o
      BY SaysOrSilent DEF Quiet, Nothing, Objects
    <3>2. Settled(o)
      BY <2>2, <3>1, SaysOrSilent DEF AllAgreed, Agreed, Told
    <3>3. QED BY <2>1, <3>2 DEF Settled
  <2>3. QED BY <2>2 DEF Objects, Shows, Truth
<1>2. QED BY <1>1, Agreement, PTL

-----------------------------------------------------------------------------
(* Requests and trust.                                                     *)

LEMMA OccursAppended ==
  ASSUME NEW M, NEW q \in Seq(M), NEW m \in M, NEW S
  PROVE  /\ Occurs(q, S) => Occurs(Append(q, m), S)
         /\ m \in S => Occurs(Append(q, m), S)
<1>1. /\ Len(q) \in Nat /\ Len(Append(q, m)) = Len(q) + 1 /\ Append(q, m)[Len(q) + 1] = m
      /\ \A i \in 1 .. Len(q) : Append(q, m)[i] = q[i]
  BY AppendProperties
<1>2. Len(q) + 1 \in 1 .. Len(Append(q, m)) /\ \A i \in 1 .. Len(q) : i \in 1 .. Len(Append(q, m))
  BY <1>1
<1>3. QED BY <1>1, <1>2 DEF Occurs

LEMMA OccursJoined ==
  ASSUME NEW M, NEW q \in Seq(M), NEW r \in Seq(M), NEW S
  PROVE  Occurs(q, S) \/ Occurs(r, S) => Occurs(q \o r, S)
<1>1. /\ Len(q) \in Nat /\ Len(r) \in Nat /\ Len(q \o r) = Len(q) + Len(r)
      /\ \A i \in 1 .. Len(q) : (q \o r)[i] = q[i]
      /\ \A i \in 1 .. Len(r) : (q \o r)[Len(q) + i] = r[i]
  BY ConcatProperties
<1>2. /\ \A i \in 1 .. Len(q) : i \in 1 .. Len(q \o r)
      /\ \A i \in 1 .. Len(r) : Len(q) + i \in 1 .. Len(q \o r)
  BY <1>1
<1>3. QED BY <1>1, <1>2 DEF Occurs

LEMMA OccursLater ==
  ASSUME NEW M, NEW q \in Seq(M), NEW S, Occurs(q, S)
  PROVE  q # <<>> /\ (Head(q) \in S \/ Occurs(Tail(q), S))
<1>1. PICK i \in 1 .. Len(q) : q[i] \in S
  BY DEF Occurs
<1>2. q # <<>>
  BY <1>1
<1>3. /\ Len(Tail(q)) \in Nat /\ Len(q) = Len(Tail(q)) + 1 /\ Head(q) = q[1]
      /\ \A j \in 1 .. Len(Tail(q)) : Tail(q)[j] = q[j + 1]
  BY <1>2, HeadTailProperties, EmptySeq
<1>4. CASE i = 1
  BY <1>1, <1>2, <1>3, <1>4
<1>5. CASE i # 1
  <2>1. i - 1 \in 1 .. Len(Tail(q)) /\ (i - 1) + 1 = i
    BY <1>3, <1>5
  <2>2. Tail(q)[i - 1] = q[(i - 1) + 1]
    BY <1>3, <2>1
  <2>3. Tail(q)[i - 1] \in S
    BY <1>1, <2>1, <2>2
  <2>4. QED BY <1>2, <2>1, <2>3 DEF Occurs
<1>6. QED BY <1>4, <1>5

AnswersTo(cmd, d) == {m \in Notis : m.dev = d /\ m.kind \in {cmd, "FOUND", "PROPERTY_CHANGE", "DELETE"}}

\* A request waits, or what answers it is on its way, or the last signal of the device came to
\* nothing.
Answering(cmd, d) ==
  \/ Occurs(toHardware, {Request(cmd, d)})
  \/ Occurs(signals, SignalsOf(d)) \/ inspected.dev = d
  \/ Occurs(toCore, AnswersTo(cmd, d)) \/ d \in stale

AllAnswered == \A request \in asked : Answering(request[1], request[2])

\* A device that should be trusted is about to be looked at.
Untrusted(d) == /\ d \in Present \ missed /\ {"paired", "connected"} \subseteq device[d]
                /\ "trusted" \notin device[d]
Trusting(d) == Occurs(signals, Changed(d)) \/ inspected = [dev |-> d, props |-> device[d]]
AllTrusted  == \A d \in Addresses : Untrusted(d) => Trusting(d)

\* What BlueZ signals is added to what there is.
LEMMA SignalledOccurs ==
  ASSUME Types, NEW d, NEW messages \in Seq(Signals), SignalAll(messages, d)
  PROVE  /\ \A S : Occurs(signals, S) => Occurs(signals', S)
         /\ manager \in {"subscribed", "running"} =>
              /\ \A S : Occurs(messages, S) => Occurs(signals', S)
              /\ missed' = missed \ {d} /\ stale' = stale \ {d}
         /\ manager \notin {"subscribed", "running"} =>
              missed' = missed \cup {d} /\ stale' = stale \cup {d}
<1>1. signals \in Seq(Signals)
  BY DEF Types
<1>2. \A S : Occurs(signals, S) \/ Occurs(messages, S) => Occurs(signals \o messages, S)
  BY <1>1, OccursJoined
<1>3. QED BY <1>2 DEF SignalAll

LEMMA AnsweringGrows ==
  ASSUME NEW cmd, NEW d, Answering(cmd, d), inspected' = inspected,
         Occurs(toHardware, {Request(cmd, d)}) =>
           \/ Occurs(toHardware', {Request(cmd, d)})
           \/ Occurs(signals', SignalsOf(d)) \/ Occurs(toCore', AnswersTo(cmd, d)),
         Occurs(signals, SignalsOf(d)) => Occurs(signals', SignalsOf(d)),
         Occurs(toCore, AnswersTo(cmd, d)) => Occurs(toCore', AnswersTo(cmd, d)),
         d \in stale =>
           d \in stale' \/ Occurs(signals', SignalsOf(d)) \/ Occurs(toCore', AnswersTo(cmd, d))
  PROVE  Answering(cmd, d)'
BY DEF Answering

\* A request that is sent waits at the hardware manager; a client that leaves waits for nothing.
LEMMA AnsweredClient ==
  ASSUME Types, AllAnswered, ClientStep
  PROVE  AllAnswered'
<1>1. UNCHANGED <<signals, inspected, toCore, stale>>
  BY DEF ClientStep, Join, Leave, ConnectBTDevice, DisconnectBTDevice, UnpairBTDevice, Ask
<1>2. toHardware \in Seq(Orders)
  BY DEF Types
<1>3. ASSUME NEW r \in asked, \A S : Occurs(toHardware, S) => Occurs(toHardware', S)
      PROVE  Answering(r[1], r[2])'
  <2>1. Answering(r[1], r[2])
    BY DEF AllAnswered
  <2>2. QED BY <1>1, <1>3, <2>1, AnsweringGrows
<1>4. CASE Join
  <2>1. \A S : Occurs(toHardware, S) => Occurs(toHardware', S)
    <3>1. toHardware' \in {toHardware, Append(toHardware, Initialize)}
      BY <1>4 DEF Join, SendToHardware, Initialize
    <3>2. Initialize \in Orders
      BY MessagesTyped
    <3>3. \A S : Occurs(toHardware, S) => Occurs(Append(toHardware, Initialize), S)
      BY <1>2, <3>2, OccursAppended
    <3>4. QED BY <3>1, <3>3
  <2>2. asked' = asked
    BY <1>4 DEF Join
  <2>3. QED BY <1>3, <2>1, <2>2 DEF AllAnswered
<1>5. CASE Leave
  BY <1>5 DEF Leave, NoClient, AllAnswered
<1>6. ASSUME NEW cmd \in Commands, NEW d \in Addresses, Ask(cmd, d)
      PROVE  AllAnswered'
  <2>1. Request(cmd, d) \in Orders
    BY MessagesTyped
  <2>2. CASE manager = "running"
    <3>1. toHardware' = Append(toHardware, Request(cmd, d)) /\ asked' = asked \cup {<<cmd, d>>}
      BY <1>6, <2>2 DEF Ask, SendToHardware
    <3>2. /\ \A S : Occurs(toHardware, S) => Occurs(toHardware', S)
          /\ Occurs(toHardware', {Request(cmd, d)})
      BY <1>2, <2>1, <3>1, OccursAppended
    <3>3. Answering(cmd, d)'
      BY <3>2 DEF Answering
    <3>4. ASSUME NEW r \in asked'
          PROVE  Answering(r[1], r[2])'
      <4>1. CASE r \in asked
        BY <1>3, <3>2, <4>1
      <4>2. CASE r = <<cmd, d>>
        BY <3>3, <4>2
      <4>3. QED BY <3>1, <4>1, <4>2
    <3>5. QED BY <3>4 DEF AllAnswered
  <2>3. CASE manager # "running"
    <3>1. toHardware' = toHardware /\ asked' = asked
      BY <1>6, <2>3 DEF Ask, SendToHardware
    <3>2. QED BY <1>3, <3>1 DEF AllAnswered
  <2>4. QED BY <2>2, <2>3
<1>7. QED
  BY <1>4, <1>5, <1>6 DEF ClientStep, ConnectBTDevice, DisconnectBTDevice, UnpairBTDevice, Commands

\* What HardwareHandler tells of a device answers all that was asked of it, a failure what failed.
LEMMA AnsweredCore ==
  ASSUME Types, AllAnswered, CoreStep
  PROVE  AllAnswered'
<1> DEFINE m == Head(toCore)
<1>1. UNCHANGED <<signals, inspected, toHardware, stale>> /\ toCore # <<>> /\ toCore' = Tail(toCore)
  BY DEF CoreStep, DeviceNOTI, DeviceDeleteNOTI, FailureNOTI, BluetoothPowerNOTI, Receive
<1>2. toCore \in Seq(Notis)
  BY DEF Types
<1>3. ASSUME NEW r \in asked'
      PROVE  Answering(r[1], r[2])'
  <2>1. r \in asked /\ asked \subseteq Commands \X Addresses
    BY <1>3 DEF CoreStep, DeviceNOTI, DeviceDeleteNOTI, FailureNOTI, BluetoothPowerNOTI, Receive,
                Broadcast, Types
  <2>2. r[1] \in Commands /\ r[2] \in Addresses /\ r = <<r[1], r[2]>>
    BY <2>1
  <2>3. ~ (m.dev = r[2] /\ m.kind \in {r[1], "FOUND", "PROPERTY_CHANGE", "DELETE"})
    <3>1. CASE DeviceNOTI \/ DeviceDeleteNOTI
      BY <1>3, <3>1 DEF DeviceNOTI, DeviceDeleteNOTI, Broadcast
    <3>2. CASE FailureNOTI
      <4>1. m.kind \in Commands /\ r # <<m.kind, m.dev>>
        BY <1>3, <3>2 DEF FailureNOTI, Receive, Commands
      <4>2. QED BY <2>2, <4>1 DEF Commands
    <3>3. CASE BluetoothPowerNOTI
      BY <2>2, <3>3 DEF BluetoothPowerNOTI, Receive, Commands
    <3>4. QED BY <3>1, <3>2, <3>3 DEF CoreStep
  <2>4. m \notin AnswersTo(r[1], r[2])
    BY <2>3 DEF AnswersTo
  <2>5. Occurs(toCore, AnswersTo(r[1], r[2])) => Occurs(toCore', AnswersTo(r[1], r[2]))
    BY <1>1, <1>2, <2>4, OccursLater
  <2>6. Answering(r[1], r[2])
    BY <2>1 DEF AllAnswered
  <2>7. QED BY <1>1, <2>5, <2>6, AnsweringGrows
<1>4. QED BY <1>3 DEF AllAnswered

\* A request that is taken fails, and says so, or shows in a signal.
LEMMA AnsweredTaken ==
  ASSUME Types, AllAnswered, NEW c, NEW e, Take(c, e),
         \A S : Occurs(signals, S) => Occurs(signals', S),
         \A S : Occurs(toCore, S) => Occurs(toCore', S),
         c \in Commands /\ e \in Addresses => Occurs(signals', SignalsOf(e)) \/ Occurs(toCore', AnswersTo(c, e)),
         \A d \in Addresses \cap stale :
           \/ d \in stale' \/ Occurs(signals', SignalsOf(d))
           \/ \A cmd \in Commands : Occurs(toCore', AnswersTo(cmd, d))
  PROVE  AllAnswered'
<1>1. /\ inspected' = inspected /\ asked' = asked
      /\ toHardware' = Tail(toHardware) /\ Head(toHardware) = Request(c, e)
  BY DEF Take
<1>2. toHardware \in Seq(Orders) /\ asked \subseteq Commands \X Addresses
  BY DEF Types
<1>3. ASSUME NEW r \in asked
      PROVE  Answering(r[1], r[2])'
  <2>1. Answering(r[1], r[2]) /\ r[1] \in Commands /\ r[2] \in Addresses
    BY <1>2 DEF AllAnswered
  <2>2. Head(toHardware) \in {Request(r[1], r[2])} => r[1] = c /\ r[2] = e
    BY <1>1 DEF Request, Message
  <2>3. Occurs(toHardware, {Request(r[1], r[2])}) =>
          \/ Occurs(toHardware', {Request(r[1], r[2])})
          \/ Occurs(signals', SignalsOf(r[2])) \/ Occurs(toCore', AnswersTo(r[1], r[2]))
    <3>1. Occurs(toHardware, {Request(r[1], r[2])}) =>
            Head(toHardware) \in {Request(r[1], r[2])} \/ Occurs(Tail(toHardware), {Request(r[1], r[2])})
      BY <1>2, OccursLater
    <3>2. CASE Head(toHardware) \in {Request(r[1], r[2])}
      BY <2>1, <2>2, <3>2
    <3>3. QED BY <1>1, <3>1, <3>2
  <2>4. QED BY <1>1, <2>1, <2>3, AnsweringGrows
<1>4. QED BY <1>1, <1>3 DEF AllAnswered

LEMMA AnsweredMainWorker ==
  ASSUME Types, AllAnswered, MainWorkerStep
  PROVE  AllAnswered'
<1>1. toCore \in Seq(Notis)
  BY DEF Types
<1>2. CASE InitializeBluetooth
  <2>1. Take("INITIALIZE_BLUETOOTH", "adapter") /\ List /\ signals' = signals
    BY <1>2 DEF InitializeBluetooth, List
  <2>2. PICK k \in Seq(Notis) :
               /\ toCore' = Append(toCore, Power(powered)) \o k
               /\ \A i \in 1 .. Len(k) : \E d \in Present : k[i] = Message("FOUND", d, device[d])
               /\ \A d \in Present : \E i \in 1 .. Len(k) :
                    /\ k[i] = Message("FOUND", d, device[d])
                    /\ \A j \in 1 .. Len(k) : k[j].dev = d => j = i
    BY <2>1, ListIs, Zenon
  <2>3. Power(powered) \in Notis /\ Append(toCore, Power(powered)) \in Seq(Notis)
    BY <1>1, MessagesTyped, Queues DEF Types
  <2>4. \A S : Occurs(toCore, S) => Occurs(Append(toCore, Power(powered)), S)
    BY <1>1, <2>3, OccursAppended
  <2>5. \A S : Occurs(toCore, S) => Occurs(toCore', S)
    <3> DEFINE q == Append(toCore, Power(powered))
    <3>1. q \in Seq(Notis) /\ toCore' = q \o k /\ \A S : Occurs(toCore, S) => Occurs(q, S)
      BY <2>2, <2>3, <2>4
    <3> HIDE DEF q
    <3>2. QED BY <3>1, OccursJoined
  <2>6. "INITIALIZE_BLUETOOTH" \notin Commands
    BY DEF Commands
  <2>7. ASSUME NEW d \in Addresses \cap stale, d \notin stale', NEW cmd \in Commands
        PROVE  Occurs(toCore', AnswersTo(cmd, d))
    <3>1. d \in Present
      BY <2>1, <2>7 DEF List
    <3>2. PICK i \in 1 .. Len(k) : k[i] = Message("FOUND", d, device[d])
      BY <2>2, <3>1
    <3>3. k[i] \in AnswersTo(cmd, d)
      <4>1. k[i] \in Notis
        BY <2>2, <3>2
      <4>2. QED BY <3>2, <4>1 DEF AnswersTo, Message
    <3>4. Occurs(k, AnswersTo(cmd, d))
      BY <3>2, <3>3 DEF Occurs
    <3> DEFINE q == Append(toCore, Power(powered))
    <3>5. q \in Seq(Notis) /\ toCore' = q \o k
      BY <2>2, <2>3
    <3> HIDE DEF q
    <3>6. QED BY <2>2, <3>4, <3>5, OccursJoined
  <2>8. QED BY <2>1, <2>5, <2>6, <2>7, AnsweredTaken
<1>3. ASSUME NEW cmd \in Commands, NEW d \in Addresses, Fail(cmd, d)
      PROVE  /\ \A S : Occurs(toCore, S) => Occurs(toCore', S)
             /\ Occurs(toCore', AnswersTo(cmd, d))
  <2>1. Request(cmd, d) \in Notis /\ Request(cmd, d) \in AnswersTo(cmd, d)
    BY MessagesTyped DEF AnswersTo, Request, Message
  <2>2. QED BY <1>1, <1>3, <2>1, OccursAppended DEF Fail
<1>4. ASSUME NEW d \in Addresses
      PROVE  /\ <<Message("PropertiesChanged", d, {})>> \in Seq(Signals) /\ Untrust(d) \in Seq(Signals)
             /\ Append(Untrust(d), Message("InterfacesRemoved", d, {})) \in Seq(Signals)
             /\ Occurs(<<Message("PropertiesChanged", d, {})>>, SignalsOf(d))
             /\ Occurs(Append(Untrust(d), Message("InterfacesRemoved", d, {})), SignalsOf(d))
  <2> DEFINE s == Message("PropertiesChanged", d, {})
             t == Message("InterfacesRemoved", d, {})
  <2>1. {} \in Known
    BY DEF Known
  <2>2. s \in Signals /\ t \in Signals
    BY <2>1, MessagesTyped
  <2>3. s \in SignalsOf(d) /\ t \in SignalsOf(d)
    BY <2>2 DEF SignalsOf, Message
  <2>4. Untrust(d) \in {<<>>, <<s>>}
    BY DEF Untrust
  <2> HIDE DEF s, t
  <2>5. <<>> \in Seq(Signals) /\ <<s>> \in Seq(Signals) /\ <<s>> = Append(<<>>, s)
    BY <2>2, Queues, QueueTypes
  <2>6. Occurs(<<s>>, SignalsOf(d)) /\ Occurs(Append(Untrust(d), t), SignalsOf(d))
    <3>1. Occurs(Append(<<>>, s), SignalsOf(d))
      BY <2>2, <2>3, <2>5, OccursAppended
    <3>2. Untrust(d) \in Seq(Signals)
      BY <2>4, <2>5
    <3>3. Occurs(Append(Untrust(d), t), SignalsOf(d))
      BY <2>2, <2>3, <3>2, OccursAppended
    <3>4. QED BY <2>5, <3>1, <3>3
  <2>7. QED BY <2>2, <2>4, <2>5, <2>6, Queues DEF s, t
<1>5. ASSUME NEW d \in Addresses, ConnectFails(d) \/ DisconnectFails(d) \/ UnpairFails(d)
      PROVE  AllAnswered'
  <2>1. PICK cmd \in Commands : Take(cmd, d) /\ Fail(cmd, d)
    BY <1>5 DEF ConnectFails, DisconnectFails, UnpairFails, Commands
  <2>2. signals' = signals \/ SignalAll(Untrust(d), d)
    BY <1>5 DEF ConnectFails, DisconnectFails, UnpairFails
  <2>3. \A S : Occurs(signals, S) => Occurs(signals', S)
    BY <1>4, <2>2, SignalledOccurs
  <2>4. \A o \in stale : o \in stale' \/ Occurs(signals', SignalsOf(o))
    <3>1. CASE stale' = stale
      BY <3>1
    <3>2. CASE Untrust(d) = <<Message("PropertiesChanged", d, {})>> /\ SignalAll(Untrust(d), d)
      <4>1. Occurs(Untrust(d), SignalsOf(d))
        BY <1>4, <3>2
      <4>2. QED BY <1>4, <3>2, <4>1, SignalledOccurs DEF SignalAll
    <3>3. QED BY <1>5, <3>1, <3>2 DEF ConnectFails, DisconnectFails, UnpairFails, Untrust
  <2>5. QED BY <1>3, <2>1, <2>3, <2>4, AnsweredTaken
<1>6. ASSUME NEW d \in Addresses, ConnectDevice(d) \/ DisconnectDevice(d) \/ UnpairDevice(d)
      PROVE  AllAnswered'
  <2>1. PICK cmd \in Commands : Take(cmd, d)
    BY <1>6 DEF ConnectDevice, DisconnectDevice, UnpairDevice, Commands
  <2>2. PICK messages \in Seq(Signals) :
               SignalAll(messages, d) /\ Occurs(messages, SignalsOf(d))
    BY <1>4, <1>6 DEF ConnectDevice, DisconnectDevice, UnpairDevice, Signal
  <2>3. manager = "running" /\ toCore' = toCore
    BY <1>6, <2>1 DEF Take, ConnectDevice, DisconnectDevice, UnpairDevice
  <2>4. /\ \A S : Occurs(signals, S) => Occurs(signals', S)
        /\ Occurs(signals', SignalsOf(d)) /\ stale' = stale \ {d}
    BY <2>2, <2>3, SignalledOccurs
  <2>5. QED BY <2>1, <2>3, <2>4, AnsweredTaken
<1>7. QED BY <1>2, <1>5, <1>6 DEF MainWorkerStep

\* A signal is passed on; if a property change comes to nothing, more is said of the device, or it is
\* stale.
LEMMA AnsweredWorker ==
  ASSUME Types, AllAnswered, WorkerStep
  PROVE  AllAnswered'
<1> DEFINE m == Head(signals)
<1>1. asked' = asked /\ toHardware' = toHardware /\ asked \subseteq Commands \X Addresses
  BY DEF WorkerStep, HandleInterfacesAdded, HandleInterfacesRemoved, HandleAdapterChanged,
         GetAllDeviceProperties, GetAllFails, Dispatch, TrustAndNotify, TrustFails, Inspecting, Types
<1>2. signals \in Seq(Signals) /\ toCore \in Seq(Notis)
  BY DEF Types
<1>3. \A r \in asked : r[1] \in Commands /\ r[2] \in Addresses /\ Answering(r[1], r[2])
  BY <1>1 DEF AllAnswered
<1>4. ASSUME NEW r \in asked, signals # <<>>, signals' = Tail(signals), inspected = Nothing,
             \A S : Occurs(toCore, S) => Occurs(toCore', S), stale \subseteq stale',
             m \in SignalsOf(r[2]) =>
               \/ Occurs(Tail(signals), SignalsOf(r[2])) \/ inspected'.dev = r[2] \/ r[2] \in stale'
               \/ Occurs(toCore', AnswersTo(r[1], r[2]))
      PROVE  Answering(r[1], r[2])'
  <2>1. inspected.dev # r[2]
    BY <1>3, <1>4 DEF Nothing
  <2>2. Occurs(signals, SignalsOf(r[2])) => m \in SignalsOf(r[2]) \/ Occurs(Tail(signals), SignalsOf(r[2]))
    BY <1>2, OccursLater
  <2>3. QED BY <1>1, <1>3, <1>4, <2>1, <2>2 DEF Answering
<1>5. ASSUME HandleInterfacesAdded \/ HandleInterfacesRemoved \/ HandleAdapterChanged,
             NEW r \in asked
      PROVE  Answering(r[1], r[2])'
  <2>1. PICK from, kind : /\ Dispatch(from) /\ Forward(kind)
                          /\ \/ from = "InterfacesAdded" /\ kind = "FOUND"
                             \/ from = "InterfacesRemoved" /\ kind = "DELETE"
                             \/ /\ from = "PoweredChanged"
                                /\ kind = IF m.props = {} THEN "POWER_OFF" ELSE "POWER_ON"
    BY <1>5 DEF HandleInterfacesAdded, HandleInterfacesRemoved, HandleAdapterChanged
  <2> DEFINE n == [m EXCEPT !.kind = kind]
  <2>2. /\ signals # <<>> /\ signals' = Tail(signals) /\ inspected = Nothing /\ m.kind = from
        /\ toCore' = Append(toCore, n) /\ stale' = stale
    BY <2>1 DEF Dispatch, Forward
  <2>3. m \in Signals
    BY <1>2, <2>2, Queues
  <2>4. n \in Notis
    <3>1. CASE from = "PoweredChanged"
      <4>1. m \in PowerSignals
        BY <2>2, <2>3, <3>1 DEF Signals, DeviceSignals
      <4>2. QED BY <2>1, <3>1, <4>1 DEF PowerSignals, Notis, PowerNotis
    <3>2. CASE from # "PoweredChanged"
      <4>1. m \in DeviceSignals
        BY <2>2, <2>3, <3>2 DEF Signals, PowerSignals
      <4>2. QED BY <2>1, <3>2, <4>1 DEF DeviceSignals, Notis, DeviceNotis
    <3>3. QED BY <3>1, <3>2
  <2>5. m \in SignalsOf(r[2]) => n \in AnswersTo(r[1], r[2])
    <3> SUFFICES ASSUME m.dev = r[2]
                 PROVE  n \in AnswersTo(r[1], r[2])
      BY DEF SignalsOf
    <3>1. r[2] \in Addresses
      BY <1>3, <1>5
    <3>2. m \in DeviceSignals
      BY <2>3, <3>1 DEF Signals, PowerSignals
    <3>3. kind \in {"FOUND", "DELETE"} /\ n.dev = r[2] /\ n.kind = kind
      BY <2>1, <2>2, <3>2 DEF DeviceSignals
    <3>4. QED BY <2>4, <3>3 DEF AnswersTo
  <2> HIDE DEF n
  <2>6. /\ \A S : Occurs(toCore, S) => Occurs(toCore', S)
        /\ m \in SignalsOf(r[2]) => Occurs(toCore', AnswersTo(r[1], r[2]))
    BY <1>2, <2>2, <2>4, <2>5, OccursAppended
  <2> HIDE DEF m
  <2>7. QED BY <1>4, <1>5, <2>2, <2>6
<1>6. ASSUME GetAllDeviceProperties \/ GetAllFails, NEW r \in asked
      PROVE  Answering(r[1], r[2])'
  <2>1. signals # <<>> /\ signals' = Tail(signals) /\ inspected = Nothing /\ toCore' = toCore
    BY <1>6 DEF GetAllDeviceProperties, GetAllFails, Dispatch
  <2>2. stale \subseteq stale'
    BY <1>6 DEF GetAllDeviceProperties, GetAllFails
  <2>3. ASSUME m \in SignalsOf(r[2])
        PROVE  \/ Occurs(Tail(signals), SignalsOf(r[2])) \/ inspected'.dev = r[2]
               \/ r[2] \in stale'
    <3>1. m.dev = r[2] /\ Tail(signals) \in Seq(Signals)
      BY <1>2, <2>1, <2>3, Queues DEF SignalsOf
    <3>2. CASE GetAllDeviceProperties
      BY <3>1, <3>2 DEF GetAllDeviceProperties
    <3>3. CASE GetAllFails /\ \A i \in 1 .. Len(Tail(signals)) : Tail(signals)[i].dev # m.dev
      BY <3>1, <3>3 DEF GetAllFails
    <3>4. ASSUME NEW i \in 1 .. Len(Tail(signals)), Tail(signals)[i].dev = m.dev
          PROVE  Occurs(Tail(signals), SignalsOf(r[2]))
      <4>1. Tail(signals)[i] \in Signals
        BY <3>1
      <4>2. QED BY <3>1, <3>4, <4>1 DEF Occurs, SignalsOf
    <3>5. QED BY <1>6, <3>2, <3>3, <3>4
  <2> HIDE DEF m
  <2>4. QED BY <1>4, <1>6, <2>1, <2>2, <2>3
<1>7. ASSUME TrustAndNotify \/ TrustFails, NEW r \in asked
      PROVE  Answering(r[1], r[2])'
  <2> DEFINE n == Message("PROPERTY_CHANGE", inspected.dev, inspected.props)
  <2>1. toCore' = Append(toCore, n) /\ inspected # Nothing
    BY <1>7 DEF TrustAndNotify, TrustFails, Inspecting
  <2>2. inspected.dev \in Addresses /\ inspected.props \in Known
    BY <2>1 DEF Types
  <2>3. n \in Notis
    BY <2>2, MessagesTyped
  <2>4. inspected.dev = r[2] => n \in AnswersTo(r[1], r[2])
    BY <2>3 DEF AnswersTo, Message
  <2> HIDE DEF n
  <2>5. /\ \A S : Occurs(toCore, S) => Occurs(toCore', S)
        /\ inspected.dev = r[2] => Occurs(toCore', AnswersTo(r[1], r[2]))
    BY <1>2, <2>1, <2>3, <2>4, OccursAppended
  <2>6. /\ \A S : Occurs(signals, S) => Occurs(signals', S)
        /\ \A o \in stale : o \in stale' \/ Occurs(toCore', AnswersTo(r[1], o))
    <3>1. \/ signals' = signals /\ stale' = stale
          \/ SignalAll(<<Message("PropertiesChanged", inspected.dev, {})>>, inspected.dev)
      BY <1>7 DEF TrustAndNotify, TrustFails, Signal
    <3>2. <<Message("PropertiesChanged", inspected.dev, {})>> \in Seq(Signals)
      <4>1. {} \in Known
        BY DEF Known
      <4>2. QED BY <2>2, <4>1, MessagesTyped, Queues
    <3>3. Occurs(toCore', AnswersTo(r[1], inspected.dev))
      <4>1. n \in AnswersTo(r[1], inspected.dev)
        BY <2>3 DEF AnswersTo, Message, n
      <4>2. QED BY <1>2, <2>1, <2>3, <4>1, OccursAppended
    <3>4. stale \subseteq stale' \cup {inspected.dev}
      BY <3>1 DEF SignalAll
    <3>5. \A S : Occurs(signals, S) => Occurs(signals', S)
      BY <3>1, <3>2, SignalledOccurs
    <3>6. QED BY <3>3, <3>4, <3>5
  <2>7. QED BY <1>1, <1>3, <1>7, <2>5, <2>6 DEF Answering
<1>8. QED BY <1>1, <1>5, <1>6, <1>7 DEF WorkerStep, AllAnswered

LEMMA AnsweredElse ==
  ASSUME Types, Started, AllAnswered, BluezStep \/ CrashCore \/ CrashHardware \/ StartUp
  PROVE  AllAnswered'
<1>1. CASE CrashCore \/ CrashHardware
  BY <1>1 DEF CrashCore, CrashHardware, NoClient, AllAnswered
<1>2. CASE StartUp
  BY <1>2 DEF StartUp, ListAtStart, AddMatchRules, StartReceiver, StartStep, Started, AllAnswered
<1>3. CASE BluezStep
  <2>1. UNCHANGED <<toHardware, toCore, inspected, asked>>
    BY <1>3 DEF BluezStep, Appears, Changes, Disappears, SwitchAdapter, External
  <2>2. {} \in Known /\ {} \in Switched /\ {"powered"} \in Switched
    BY DEF Known, Switched
  <2>3. \E kind, o, props : Message(kind, o, props) \in Signals /\ Signal(kind, o, props)
    <3>1. ASSUME NEW d \in Addresses, Appears(d) \/ Changes(d) \/ Disappears(d)
          PROVE  \E kind \in {"InterfacesAdded", "InterfacesRemoved", "PropertiesChanged"} :
                   Signal(kind, d, {})
      BY <3>1 DEF Appears, Changes, Disappears
    <3>2. CASE SwitchAdapter
      BY <2>2, <3>2, MessagesTyped DEF SwitchAdapter
    <3>3. QED BY <1>3, <2>2, <3>1, <3>2, MessagesTyped DEF BluezStep
  <2>4. /\ \A S : Occurs(signals, S) => Occurs(signals', S)
        /\ \A d \in stale : d \in stale' \/ Occurs(signals', SignalsOf(d))
    <3>1. PICK kind, o, props : Message(kind, o, props) \in Signals /\ Signal(kind, o, props)
      BY <2>3
    <3>2. <<Message(kind, o, props)>> \in Seq(Signals) /\ SignalAll(<<Message(kind, o, props)>>, o)
      BY <3>1, Queues DEF Signal
    <3>3. Occurs(<<Message(kind, o, props)>>, SignalsOf(o))
      BY <3>1 DEF Occurs, SignalsOf, Message
    <3>4. \A S : Occurs(signals, S) => Occurs(signals', S)
      BY <3>2, SignalledOccurs
    <3>5. \/ stale' = stale \ {o} /\ Occurs(signals', SignalsOf(o))
          \/ stale \subseteq stale'
      BY <3>2, <3>3, SignalledOccurs DEF SignalAll
    <3>6. QED BY <3>4, <3>5
  <2>5. ASSUME NEW r \in asked
        PROVE  Answering(r[1], r[2])'
    <3>1. Answering(r[1], r[2])
      BY DEF AllAnswered
    <3>2. QED BY <2>1, <2>4, <3>1, AnsweringGrows
  <2>6. QED BY <2>1, <2>5 DEF AllAnswered
<1>4. QED BY <1>1, <1>2, <1>3

LEMMA AnsweredStep == Types /\ Started /\ AllAnswered /\ [Next]_vars => AllAnswered'
<1> SUFFICES ASSUME Types, Started, AllAnswered, [Next]_vars
             PROVE  AllAnswered'
  OBVIOUS
<1>1. CASE UNCHANGED vars
  BY <1>1 DEF vars, history, AllAnswered, Answering
<1>2. QED
  BY <1>1, AnsweredClient, AnsweredCore, AnsweredMainWorker, AnsweredWorker, AnsweredElse DEF Next

\* When nothing is on its way, no request that reached a hardware manager which lived on is open:
\* it failed and the failure was reported, or what was signalled of the device was; unless BlueZ
\* would not give the device's properties at its last change.
THEOREM RequestsAreAnswered == Spec => []NoRequestForgotten
<1>1. Init => AllAnswered
  BY DEF Init, AllAnswered
<1>2. Types /\ AllAnswered => NoRequestForgotten
  <2> SUFFICES ASSUME Types, AllAnswered, Quiet, NEW r \in asked, r[2] \notin stale
               PROVE  FALSE
    BY DEF NoRequestForgotten
  <2>1. r[2] \in Addresses
    BY DEF Types
  <2>2. inspected.dev # r[2]
    BY <2>1 DEF Quiet, Nothing
  <2>3. \A S : ~ Occurs(<<>>, S)
    BY DEF Occurs
  <2>4. QED BY <2>2, <2>3 DEF AllAnswered, Answering, Quiet
<1>3. QED BY <1>1, <1>2, AnsweredStep, Agreement, PTL DEF Spec

LEMMA PresentElsewhere ==
  ASSUME Types, NEW d \in Addresses, NEW x, device' = [device EXCEPT ![d] = x]
  PROVE  /\ \A o \in Addresses : o # d => device'[o] = device[o]
         /\ device'[d] = x
         /\ \A o \in Addresses : o # d => (o \in Present' <=> o \in Present)
         /\ d \in Present' <=> x # NoDevice
<1>1. /\ \A o \in Addresses : o # d => device'[o] = device[o]
      /\ device'[d] = x
  BY DEF Types
<1>2. QED BY <1>1 DEF Present

\* What happens to one device leaves the trust in the others, and its own if it is signalled.
LEMMA TrustedSignalled ==
  ASSUME Types, AllTrusted, NEW d \in Addresses, NEW x, device' = [device EXCEPT ![d] = x],
         NEW messages \in Seq(Signals), SignalAll(messages, d),
         x = NoDevice \/ x = {} \/ "trusted" \in x \/ Occurs(messages, Changed(d)),
         \A o \in Addresses \ {d} :
           inspected = [dev |-> o, props |-> device[o]] => inspected' = inspected
  PROVE  AllTrusted'
<1>1. ASSUME NEW o \in Addresses, o # d, Untrusted(o)'
      PROVE  Trusting(o)'
  <2>1. device'[o] = device[o] /\ (o \in Present' <=> o \in Present)
    BY <1>1, PresentElsewhere
  <2>2. o \notin missed
    BY <1>1 DEF Untrusted, SignalAll
  <2>3. Untrusted(o)
    BY <1>1, <2>1, <2>2 DEF Untrusted
  <2>4. Trusting(o)
    BY <2>3 DEF AllTrusted
  <2>5. Occurs(signals, Changed(o)) => Occurs(signals', Changed(o))
    BY SignalledOccurs
  <2>6. QED BY <1>1, <2>1, <2>4, <2>5 DEF Trusting
<1>2. ASSUME Untrusted(d)'
      PROVE  Trusting(d)'
  <2>1. d \in Present' /\ d \notin missed' /\ {"paired", "connected"} \subseteq device'[d]
        /\ "trusted" \notin device'[d]
    BY <1>2 DEF Untrusted
  <2>2. device'[d] = x /\ x # NoDevice
    BY <2>1, PresentElsewhere
  <2>3. Occurs(messages, Changed(d))
    BY <2>1, <2>2
  <2>4. manager \in {"subscribed", "running"}
    BY <2>1 DEF SignalAll
  <2>5. Occurs(signals', Changed(d))
    BY <2>3, <2>4, SignalledOccurs
  <2>6. QED BY <2>5 DEF Trusting
<1>3. QED BY <1>1, <1>2 DEF AllTrusted

LEMMA TrustedElsewhere ==
  ASSUME AllTrusted, device' = device, missed \subseteq missed',
         \A o \in Addresses \ missed' : Occurs(signals, Changed(o)) => Occurs(signals', Changed(o)),
         \A o \in Addresses \ missed' : inspected.dev = o => inspected' = inspected
  PROVE  AllTrusted'
<1>1. ASSUME NEW o \in Addresses, Untrusted(o)'
      PROVE  Trusting(o)'
  <2>1. Untrusted(o) /\ o \notin missed'
    BY <1>1 DEF Untrusted, Present
  <2>2. Trusting(o)
    BY <2>1 DEF AllTrusted
  <2>3. QED BY <2>1, <2>2 DEF Trusting
<1>2. QED BY <1>1 DEF AllTrusted

LEMMA TrustedMainWorker ==
  ASSUME Types, AllTrusted, MainWorkerStep
  PROVE  AllTrusted'
<1>1. inspected' = inspected /\ inspected = Nothing
  BY DEF MainWorkerStep, InitializeBluetooth, ConnectDevice, ConnectFails, DisconnectDevice,
         DisconnectFails, UnpairDevice, UnpairFails, Take
<1>2. ASSUME UNCHANGED <<device, missed, signals>>
      PROVE  AllTrusted'
  BY <1>1, <1>2, TrustedElsewhere
<1>3. ASSUME NEW d \in Addresses
      PROVE  /\ <<Message("PropertiesChanged", d, {})>> \in Seq(Signals)
             /\ Occurs(<<Message("PropertiesChanged", d, {})>>, Changed(d))
             /\ Append(Untrust(d), Message("InterfacesRemoved", d, {})) \in Seq(Signals)
  <2>1. {} \in Known
    BY DEF Known
  <2>2. /\ Message("PropertiesChanged", d, {}) \in Signals
        /\ Message("InterfacesRemoved", d, {}) \in Signals
    BY <2>1, MessagesTyped
  <2>3. <<Message("PropertiesChanged", d, {})>> \in Seq(Signals) /\ Untrust(d) \in Seq(Signals)
    BY <2>2, Queues, QueueTypes DEF Untrust
  <2>4. Occurs(<<Message("PropertiesChanged", d, {})>>, Changed(d))
    BY DEF Occurs, Changed
  <2>5. QED BY <2>2, <2>3, <2>4, Queues
<1>4. CASE InitializeBluetooth
  BY <1>2, <1>4 DEF InitializeBluetooth, List, bluez
<1>5. ASSUME NEW d \in Addresses, ConnectFails(d) \/ DisconnectFails(d)
      PROVE  AllTrusted'
  BY <1>2, <1>5 DEF ConnectFails, DisconnectFails, bluez
<1>6. ASSUME NEW d \in Addresses, ConnectDevice(d) \/ DisconnectDevice(d)
      PROVE  AllTrusted'
  <2>1. PICK x : device' = [device EXCEPT ![d] = x]
    BY <1>6 DEF ConnectDevice, DisconnectDevice
  <2>2. SignalAll(<<Message("PropertiesChanged", d, {})>>, d)
    BY <1>6 DEF ConnectDevice, DisconnectDevice, Signal
  <2>3. QED BY <1>1, <1>3, <2>1, <2>2, TrustedSignalled
<1>7. ASSUME NEW d \in Addresses, UnpairDevice(d)
      PROVE  AllTrusted'
  <2>1. /\ device' = [device EXCEPT ![d] = NoDevice]
        /\ SignalAll(Append(Untrust(d), Message("InterfacesRemoved", d, {})), d)
    BY <1>7 DEF UnpairDevice
  <2>2. QED BY <1>1, <1>3, <2>1, TrustedSignalled
<1>8. ASSUME NEW d \in Addresses, UnpairFails(d)
      PROVE  AllTrusted'
  <2>1. CASE UNCHANGED <<device, signals, missed, stale>>
    BY <1>2, <2>1
  <2>2. CASE "trusted" \in device[d] /\ device' = [device EXCEPT ![d] = @ \ {"trusted"}]
             /\ SignalAll(Untrust(d), d)
    <3>1. PICK x : device' = [device EXCEPT ![d] = x]
      BY <2>2
    <3>2. Untrust(d) = <<Message("PropertiesChanged", d, {})>>
      BY <2>2 DEF Untrust
    <3>3. SignalAll(<<Message("PropertiesChanged", d, {})>>, d)
      BY <2>2, <3>2
    <3>4. QED BY <1>1, <1>3, <3>1, <3>3, TrustedSignalled
  <2>3. QED BY <1>8, <2>1, <2>2 DEF UnpairFails
<1>9. QED BY <1>4, <1>5, <1>6, <1>7, <1>8 DEF MainWorkerStep

\* The properties BluetoothWorker asks for are those on which it decides; if they change before it
\* does, that is signalled, too.
LEMMA TrustedWorker ==
  ASSUME Types, AllTrusted, WorkerStep
  PROVE  AllTrusted'
<1>1. signals \in Seq(Signals)
  BY DEF Types
<1>2. CASE HandleInterfacesAdded \/ HandleInterfacesRemoved \/ HandleAdapterChanged
  <2>1. UNCHANGED <<device, missed, inspected>> /\ signals' = Tail(signals)
        /\ Head(signals).kind # "PropertiesChanged"
    BY <1>2 DEF HandleInterfacesAdded, HandleInterfacesRemoved, HandleAdapterChanged, Dispatch, Forward,
                bluez
  <2>2. ASSUME NEW o, Occurs(signals, Changed(o))
        PROVE  Occurs(signals', Changed(o))
    <3>1. Head(signals) \notin Changed(o)
      BY <2>1 DEF Changed, Message
    <3>2. QED BY <1>1, <2>1, <2>2, <3>1, OccursLater
  <2>3. QED BY <2>1, <2>2, TrustedElsewhere
<1>6. CASE GetAllFails
  <2> DEFINE d == Head(signals).dev
  <2>1. /\ UNCHANGED <<device, inspected>> /\ signals' = Tail(signals) /\ inspected = Nothing
        /\ missed \subseteq missed' /\ (d \in missed' \/ Occurs(Tail(signals), Changed(d)))
    BY <1>6 DEF GetAllFails, Dispatch, bluez
  <2>2. ASSUME NEW o \in Addresses \ missed', Occurs(signals, Changed(o))
        PROVE  Occurs(signals', Changed(o))
    <3>1. Head(signals) \in Changed(o) => d = o
      BY DEF Changed, Message
    <3>2. QED BY <1>1, <2>1, <2>2, <3>1, OccursLater
  <2>3. QED BY <2>1, <2>2, TrustedElsewhere
<1>3. CASE GetAllDeviceProperties
  <2> DEFINE d == Head(signals).dev
  <2>1. /\ UNCHANGED <<device, missed>> /\ signals' = Tail(signals) /\ inspected = Nothing
        /\ inspected' = [dev |-> d, props |-> device[d]]
    BY <1>3 DEF GetAllDeviceProperties, Dispatch, bluez
  <2>2. ASSUME NEW o \in Addresses, Untrusted(o)'
        PROVE  Trusting(o)'
    <3>1. Untrusted(o) /\ o \in Present
      BY <2>1, <2>2 DEF Untrusted, Present
    <3>2. inspected # [dev |-> o, props |-> device[o]]
      BY <2>1 DEF Nothing
    <3>3. Occurs(signals, Changed(o))
      BY <3>1, <3>2 DEF AllTrusted, Trusting
    <3>4. CASE Head(signals) \in Changed(o)
      <4>1. d = o
        BY <3>4 DEF Changed, Message
      <4>2. QED BY <2>1, <3>1, <4>1 DEF Trusting
    <3>5. CASE Occurs(Tail(signals), Changed(o))
      BY <2>1, <3>5 DEF Trusting
    <3>6. QED BY <1>1, <3>3, <3>4, <3>5, OccursLater
  <2>3. QED BY <2>2 DEF AllTrusted
<1>4. CASE TrustAndNotify
  <2> DEFINE d == inspected.dev
  <2>1. inspected # Nothing /\ inspected' = Nothing
    BY <1>4 DEF TrustAndNotify, Inspecting
  <2>2. inspected \in [dev : Addresses, props : Known] /\ d \in Addresses
    BY <2>1 DEF Types
  <2>3. CASE {"paired", "connected"} = inspected.props /\ d \in Present /\ "trusted" \notin device[d]
    <3>1. device' = [device EXCEPT ![d] = @ \cup {"trusted"}] /\ Signal("PropertiesChanged", d, {})
      BY <1>4, <2>3 DEF TrustAndNotify
    <3>2. <<Message("PropertiesChanged", d, {})>> \in Seq(Signals)
      <4>1. {} \in Known
        BY DEF Known
      <4>2. QED BY <2>2, <4>1, MessagesTyped, Queues
    <3>3. PICK x : device' = [device EXCEPT ![d] = x] /\ "trusted" \in x
      BY <3>1
    <3>4. \A o \in Addresses \ {d} : inspected # [dev |-> o, props |-> device[o]]
      OBVIOUS
    <3> HIDE DEF d
    <3>5. QED BY <2>2, <3>1, <3>2, <3>3, <3>4, TrustedSignalled DEF Signal
  <2>4. CASE ~ ({"paired", "connected"} = inspected.props /\ d \in Present /\ "trusted" \notin device[d])
    <3>1. UNCHANGED <<device, signals, missed>>
      <4>1. CASE {"paired", "connected"} = inspected.props /\ d \in Present
        <5>1. "trusted" \in device[d] /\ device[d] \cup {"trusted"} = device[d]
          BY <2>4, <4>1
        <5>2. device' = device
          BY <1>4, <2>2, <4>1, <5>1 DEF TrustAndNotify, Types
        <5>3. QED BY <1>4, <4>1, <5>1, <5>2 DEF TrustAndNotify
      <4>2. CASE ~ ({"paired", "connected"} = inspected.props /\ d \in Present)
        BY <1>4, <4>2 DEF TrustAndNotify
      <4>3. QED BY <4>1, <4>2
    <3>2. ASSUME NEW o \in Addresses, Untrusted(o)'
          PROVE  Trusting(o)'
      <4>1. Untrusted(o) /\ o \in Present /\ {"paired", "connected"} \subseteq device[o]
            /\ "trusted" \notin device[o]
        BY <3>1, <3>2 DEF Untrusted, Present
      <4>2. device[o] = {"paired", "connected"}
        <5>1. device[o] \in Known
          BY <4>1, PresentIs DEF Types
        <5>2. QED BY <4>1, <5>1 DEF Known
      <4>3. inspected # [dev |-> o, props |-> device[o]]
        BY <2>4, <4>1, <4>2
      <4>4. Occurs(signals, Changed(o))
        BY <4>1, <4>3 DEF AllTrusted, Trusting
      <4>5. QED BY <3>1, <4>4 DEF Trusting
    <3>3. QED BY <3>2 DEF AllTrusted
  <2>5. QED BY <2>3, <2>4
<1>7. CASE TrustFails
  <2>1. /\ UNCHANGED <<device, signals>> /\ missed \subseteq missed'
        /\ inspected.dev \in missed' \/ Occurs(signals, Changed(inspected.dev))
    BY <1>7 DEF TrustFails
  <2>2. ASSUME NEW o \in Addresses, Untrusted(o)'
        PROVE  Trusting(o)'
    <3>1. Untrusted(o) /\ o \notin missed'
      BY <2>1, <2>2 DEF Untrusted, Present
    <3>2. Occurs(signals, Changed(o))
      BY <2>1, <3>1 DEF AllTrusted, Trusting
    <3>3. QED BY <2>1, <3>2 DEF Trusting
  <2>3. QED BY <2>2 DEF AllTrusted
<1>5. QED BY <1>2, <1>3, <1>4, <1>6, <1>7 DEF WorkerStep

LEMMA TrustedBluez ==
  ASSUME Types, AllTrusted, BluezStep
  PROVE  AllTrusted'
<1>1. inspected' = inspected
  BY DEF BluezStep, Appears, Changes, Disappears, SwitchAdapter, External
<1>2. {} \in Known /\ {} \in Switched /\ {"powered"} \in Switched
  BY DEF Known, Switched
<1>3. ASSUME NEW d \in Addresses, NEW kind \in {"InterfacesAdded", "InterfacesRemoved", "PropertiesChanged"}
      PROVE  <<Message(kind, d, {})>> \in Seq(Signals)
  BY <1>2, MessagesTyped, Queues
<1>4. ASSUME NEW d \in Addresses, Appears(d)
      PROVE  AllTrusted'
  BY <1>1, <1>3, <1>4, TrustedSignalled DEF Appears, Signal
<1>5. ASSUME NEW d \in Addresses, Disappears(d)
      PROVE  AllTrusted'
  BY <1>1, <1>3, <1>5, TrustedSignalled DEF Disappears, Signal
<1>6. ASSUME NEW d \in Addresses, Changes(d)
      PROVE  AllTrusted'
  <2>1. PICK x : device' = [device EXCEPT ![d] = x]
    BY <1>6 DEF Changes
  <2>2. SignalAll(<<Message("PropertiesChanged", d, {})>>, d)
    BY <1>6 DEF Changes, Signal
  <2>3. Occurs(<<Message("PropertiesChanged", d, {})>>, Changed(d))
    BY DEF Occurs, Changed
  <2>4. QED BY <1>1, <1>3, <2>1, <2>2, <2>3, TrustedSignalled
<1>7. CASE SwitchAdapter
  <2>1. PICK props \in Switched : Signal("PoweredChanged", "adapter", props)
    BY <1>2, <1>7 DEF SwitchAdapter
  <2>2. <<Message("PoweredChanged", "adapter", props)>> \in Seq(Signals)
    BY MessagesTyped, Queues
  <2>3. \A S : Occurs(signals, S) => Occurs(signals', S)
    BY <2>1, <2>2, SignalledOccurs DEF Signal
  <2>4. ASSUME NEW o \in Addresses, Untrusted(o)'
        PROVE  Trusting(o)'
    <3>1. device' = device
      BY <1>7 DEF SwitchAdapter
    <3>2. o \notin missed
      BY <2>1, <2>4 DEF Untrusted, Signal, SignalAll
    <3>3. Untrusted(o)
      BY <2>4, <3>1, <3>2 DEF Untrusted, Present
    <3>4. Trusting(o)
      BY <3>3 DEF AllTrusted
    <3>5. QED BY <1>1, <2>3, <3>1, <3>4 DEF Trusting
  <2>5. QED BY <2>4 DEF AllTrusted
<1>8. QED BY <1>4, <1>5, <1>6, <1>7 DEF BluezStep

LEMMA TrustedElse ==
  ASSUME Types, AllTrusted, ClientStep \/ CoreStep \/ CrashCore \/ CrashHardware \/ StartUp
  PROVE  AllTrusted'
<1>1. CASE ClientStep \/ CoreStep \/ CrashCore \/ StartUp
  <2>1. UNCHANGED <<device, missed, signals, inspected>>
    <3>1. CASE ClientStep
      BY <3>1 DEF ClientStep, Join, Leave, ConnectBTDevice, DisconnectBTDevice, UnpairBTDevice, Ask, bluez
    <3>2. CASE CoreStep
      BY <3>2 DEF CoreStep, DeviceNOTI, DeviceDeleteNOTI, FailureNOTI, BluetoothPowerNOTI, Receive, bluez
    <3>3. CASE CrashCore \/ StartUp
      BY <3>3 DEF CrashCore, Crash, StartUp, ListAtStart, AddMatchRules, StartReceiver, StartStep, List,
                  bluez
    <3>4. QED BY <1>1, <3>1, <3>2, <3>3
  <2>2. QED BY <2>1, TrustedElsewhere
<1>2. CASE CrashHardware
  <2> DEFINE lost == {signals[i].dev : i \in 1 .. Len(signals)} \cup ({inspected.dev} \ {"none"})
  <2>1. device' = device /\ missed' = missed \cup lost
    BY <1>2 DEF CrashHardware, Crash, bluez
  <2>2. \A o \in Addresses \ missed' : ~ Occurs(signals, Changed(o))
    <3>1. ASSUME NEW o, Occurs(signals, Changed(o))
          PROVE  o \in lost
      <4>1. PICK i \in 1 .. Len(signals) : signals[i] = Message("PropertiesChanged", o, {})
        BY <3>1 DEF Occurs, Changed
      <4>2. signals[i].dev = o
        BY <4>1 DEF Message
      <4>3. QED BY <4>2
    <3>2. QED BY <2>1, <3>1
  <2>3. \A o \in Addresses \ missed' : inspected.dev # o
    BY <2>1
  <2> HIDE DEF lost
  <2>4. QED BY <2>1, <2>2, <2>3, TrustedElsewhere
<1>3. QED BY <1>1, <1>2

LEMMA TrustedStep == Types /\ AllTrusted /\ [Next]_vars => AllTrusted'
<1> SUFFICES ASSUME Types, AllTrusted, [Next]_vars
             PROVE  AllTrusted'
  OBVIOUS
<1>1. CASE UNCHANGED vars
  BY <1>1, TrustedElsewhere DEF vars, bluez, history
<1>2. QED
  BY <1>1, TrustedMainWorker, TrustedWorker, TrustedBluez, TrustedElse DEF Next

\* When nothing is on its way, every device that is paired and connected is trusted, unless its
\* last signal was lost or BlueZ failed GetAll or Set Trusted for it: whatever changed between the answer BluetoothWorker decides on and its
\* decision was signalled, too, and looked at after.
THEOREM TrustIsGiven == Spec => []TrustFollows
<1>1. Init => AllTrusted
  BY DEF Init, AllTrusted, Untrusted
<1>2. Types /\ AllTrusted => TrustFollows
  <2> SUFFICES ASSUME Types, AllTrusted, Quiet, NEW d \in Present \ missed,
                      {"paired", "connected"} \subseteq device[d], "trusted" \notin device[d]
               PROVE  FALSE
    BY DEF TrustFollows
  <2>1. d \in Addresses /\ Untrusted(d)
    BY DEF Untrusted, Present
  <2>2. Trusting(d)
    BY <2>1 DEF AllTrusted
  <2>3. ~ Occurs(signals, Changed(d))
    BY DEF Quiet, Occurs
  <2>4. inspected # [dev |-> d, props |-> device[d]]
    BY <2>1 DEF Quiet, Nothing
  <2>5. QED BY <2>2, <2>3, <2>4 DEF Trusting
<1>3. QED BY <1>1, <1>2, TrustedStep, Agreement, PTL DEF Spec
=============================================================================
