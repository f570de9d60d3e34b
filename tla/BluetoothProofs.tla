-------------------------- MODULE BluetoothProofs --------------------------
(***************************************************************************)
(* Proofs about Bluetooth, for any number of requests and of changes made  *)
(* by others: its types, and that HardwareHandler ends up with the power   *)
(* and scan state of the adapter.                                          *)
(*                                                                         *)
(* Agreed says of each of the two switches, in any state, that the last    *)
(* word about it on its way to HardwareHandler is the truth: the last      *)
(* signal BlueZ has sent; if there is none, the answer to the call         *)
(* MainWorker waits for; if that says nothing of the switch, the last      *)
(* notification in toCore; if there is none, what HardwareHandler shows,   *)
(* unless a request is on its way that contradicts the truth.              *)
(***************************************************************************)
EXTENDS Bluetooth, SequenceTheorems, TLAPS

USE BoundsAreNat DEF BoundsAreNat

-----------------------------------------------------------------------------
(* Types                                                                   *)

\* While MainWorker makes a call nobody dispatches, and the one reply in the socket is that call's.
Called == mainWorker # "idle" => call \in BluezCalls /\ worker # "dispatching"

OneReply(q) ==
  \A i, j \in 1 .. Len(q) : q[i].kind \in Replies /\ q[j].kind \in Replies => i = j

Replying(m, cmd) == m.kind \in Replies => (m.kind = "Objects" <=> cmd = "GetManagedObjects")

Awaited == /\ OneReply(socket)
           /\ mainWorker # "waiting" => NoReply(socket)
           /\ \A i \in 1 .. Len(socket) : Replying(socket[i], call)

Types == TypeOK /\ Called /\ Awaited

\* What may be said between the programs.
LEMMA Said ==
  /\ \A on \in BOOLEAN : PowerNoti(on) \in Notis /\ ScanNoti(on) \in Notis
  /\ \A ok \in BOOLEAN, cmd \in {"START_SCAN", "STOP_SCAN", "POWER_ON", "POWER_OFF", "PAIR", "FOUND",
                                 "PROPERTY_CHANGE", "REQUEST_CONFIRMATION"} : Noti(cmd, ok) \in Notis
  /\ \A on \in BOOLEAN, kind \in {"Powered", "Discovering", "Paired", "RequestConfirmation", "Reply"} :
        Msg(kind, on) \in Msgs /\ Msg(kind, on).kind = kind /\ Msg(kind, on).value = on
  /\ \A m \in Msgs : m.kind = "Objects" => /\ m.value.powered \in BOOLEAN /\ m.value.discovering \in BOOLEAN
                                           /\ m.value.paired \in BOOLEAN
  /\ \A m \in Msgs : m.kind # "Objects" => m.value \in BOOLEAN
BY DEF PowerNoti, ScanNoti, Noti, Notis, Msg, Msgs

LEMMA ObjectsSaid ==
  ASSUME TypeOK
  PROVE  Msg("Objects", Objects) \in Msgs /\ Msg("Objects", Objects).kind = "Objects"
BY DEF TypeOK, Objects, Msg, Msgs

\* One message.
LEMMA Single ==
  ASSUME NEW M, NEW m \in M
  PROVE  <<m>> \in Seq(M) /\ Len(<<m>>) = 1 /\ <<m>>[1] = m /\ \A i \in 1 .. Len(<<m>>) : i = 1
OBVIOUS

\* What joins two queues is in the one or in the other.
LEMMA JoinedQueue ==
  ASSUME NEW M, NEW q \in Seq(M), NEW r \in Seq(M)
  PROVE  /\ Len(q) \in Nat /\ Len(r) \in Nat /\ Len(q \o r) = Len(q) + Len(r) /\ q \o r \in Seq(M)
         /\ \A i \in 1 .. Len(q) : i \in 1 .. Len(q \o r) /\ (q \o r)[i] = q[i]
         /\ \A i \in 1 .. Len(r) : Len(q) + i \in 1 .. Len(q \o r) /\ (q \o r)[Len(q) + i] = r[i]
         /\ \A i \in 1 .. Len(q \o r) : \/ i \in 1 .. Len(q) /\ (q \o r)[i] = q[i]
                                        \/ i - Len(q) \in 1 .. Len(r) /\ (q \o r)[i] = r[i - Len(q)]
<1>1. /\ Len(q) \in Nat /\ Len(r) \in Nat /\ Len(q \o r) = Len(q) + Len(r) /\ q \o r \in Seq(M)
      /\ \A i \in 1 .. Len(q) : (q \o r)[i] = q[i]
      /\ \A i \in 1 .. Len(r) : (q \o r)[Len(q) + i] = r[i]
  BY ConcatProperties
<1>2. ASSUME NEW i \in 1 .. Len(q \o r), i \notin 1 .. Len(q)
      PROVE  i - Len(q) \in 1 .. Len(r) /\ (q \o r)[i] = r[i - Len(q)]
  <2>1. i - Len(q) \in 1 .. Len(r) /\ Len(q) + (i - Len(q)) = i
    BY <1>1, <1>2
  <2>2. QED BY <1>1, <2>1
<1>3. /\ \A i \in 1 .. Len(q) : i \in 1 .. Len(q \o r)
      /\ \A i \in 1 .. Len(r) : Len(q) + i \in 1 .. Len(q \o r)
  BY <1>1
<1>4. QED BY <1>1, <1>2, <1>3

LEMMA RepliesJoined ==
  ASSUME NEW q \in Seq(Msgs), NEW r \in Seq(Msgs)
  PROVE  /\ q \o r \in Seq(Msgs)
         /\ NoReply(q) /\ NoReply(r) => NoReply(q \o r)
         /\ NoReply(q) /\ OneReply(r) => OneReply(q \o r)
         /\ OneReply(q) /\ NoReply(r) => OneReply(q \o r)
<1>1. NoReply(q) /\ NoReply(r) => NoReply(q \o r)
  BY JoinedQueue DEF NoReply
<1>2. ASSUME OneReply(q) /\ OneReply(r), NoReply(q) \/ NoReply(r),
             NEW i \in 1 .. Len(q \o r), NEW j \in 1 .. Len(q \o r),
             (q \o r)[i].kind \in Replies, (q \o r)[j].kind \in Replies
      PROVE  i = j
  <2>1. CASE NoReply(q)
    <3>1. /\ i - Len(q) \in 1 .. Len(r) /\ (q \o r)[i] = r[i - Len(q)]
          /\ j - Len(q) \in 1 .. Len(r) /\ (q \o r)[j] = r[j - Len(q)]
      BY <1>2, <2>1, JoinedQueue DEF NoReply
    <3>2. i - Len(q) = j - Len(q)
      BY <1>2, <3>1 DEF OneReply
    <3>3. Len(q) \in Nat
      BY LenProperties
    <3>4. QED BY <3>2, <3>3
  <2>2. CASE NoReply(r)
    <3>1. /\ i \in 1 .. Len(q) /\ (q \o r)[i] = q[i]
          /\ j \in 1 .. Len(q) /\ (q \o r)[j] = q[j]
      BY <1>2, <2>2, JoinedQueue DEF NoReply
    <3>2. QED BY <1>2, <3>1 DEF OneReply
  <2>3. QED BY <1>2, <2>1, <2>2
<1>3. (NoReply(q) => OneReply(q)) /\ (NoReply(r) => OneReply(r))
  BY DEF NoReply, OneReply
<1>4. /\ NoReply(q) /\ OneReply(r) => OneReply(q \o r)
      /\ OneReply(q) /\ NoReply(r) => OneReply(q \o r)
  BY <1>2, <1>3 DEF OneReply
<1>5. QED BY <1>1, <1>4, JoinedQueue

LEMMA ReplyingJoined ==
  ASSUME NEW q \in Seq(Msgs), NEW r \in Seq(Msgs), NEW cmd,
         \A i \in 1 .. Len(q) : Replying(q[i], cmd), \A i \in 1 .. Len(r) : Replying(r[i], cmd)
  PROVE  \A i \in 1 .. Len(q \o r) : Replying((q \o r)[i], cmd)
BY JoinedQueue

\* What BlueZ sends: no reply, or the one to the call that waits for it.
LEMMA SocketGrows ==
  ASSUME Types, NEW x \in Seq(Msgs), socket' = socket \o x, call' = call,
         \/ NoReply(x) /\ mainWorker' = mainWorker
         \/ /\ NoReply(socket) /\ OneReply(x) /\ mainWorker' = "waiting"
            /\ \A i \in 1 .. Len(x) : Replying(x[i], call)
  PROVE  socket' \in Seq(Msgs) /\ Awaited'
<1>1. socket \in Seq(Msgs)
  BY DEF Types, TypeOK
<1>2. \A i \in 1 .. Len(socket) : Replying(socket[i], call)
  BY DEF Types, Awaited
<1>3. \A i \in 1 .. Len(x) : Replying(x[i], call)
  BY DEF NoReply, Replying
<1>4. \A i \in 1 .. Len(socket \o x) : Replying((socket \o x)[i], call)
  BY <1>1, <1>2, <1>3, ReplyingJoined
<1>5. OneReply(socket \o x)
  BY <1>1, RepliesJoined DEF Types, Awaited
<1>6. mainWorker' # "waiting" => NoReply(socket \o x)
  BY <1>1, RepliesJoined DEF Types, Awaited
<1>7. QED BY <1>1, <1>4, <1>5, <1>6, RepliesJoined DEF Awaited

\* What BlueZ sends when it carries out a call.
LEMMA Sends ==
  /\ <<>> \in Seq(Msgs) /\ NoReply(<<>>)
  /\ \A on \in BOOLEAN, kind \in {"Powered", "Discovering", "Paired", "RequestConfirmation"} :
        <<Msg(kind, on)>> \in Seq(Msgs) /\ NoReply(<<Msg(kind, on)>>)
  /\ \A ok \in BOOLEAN : <<Reply(ok)>> \in Seq(Msgs) /\ OneReply(<<Reply(ok)>>)
  /\ \A m : OneReply(<<m>>)
<1>1. <<>> \in Seq(Msgs) /\ NoReply(<<>>)
  BY DEF NoReply
<1>2. ASSUME NEW on \in BOOLEAN, NEW kind \in {"Powered", "Discovering", "Paired", "RequestConfirmation"}
      PROVE  <<Msg(kind, on)>> \in Seq(Msgs) /\ NoReply(<<Msg(kind, on)>>)
  <2>1. Msg(kind, on) \in Msgs /\ Msg(kind, on).kind \notin Replies
    BY Said DEF Replies
  <2>2. QED BY <2>1, Single DEF NoReply
<1>3. \A m : OneReply(<<m>>)
  BY DEF OneReply
<1>4. \A ok \in BOOLEAN : <<Reply(ok)>> \in Seq(Msgs)
  BY Said DEF Reply
<1>5. QED BY <1>1, <1>2, <1>3, <1>4

LEMMA PowerSignalsSent ==
  ASSUME NEW on \in BOOLEAN
  PROVE  PowerSignals(on) \in Seq(Msgs) /\ NoReply(PowerSignals(on))
<1>1. /\ <<Msg("Powered", on)>> \in Seq(Msgs) /\ NoReply(<<Msg("Powered", on)>>)
      /\ <<Msg("Discovering", FALSE)>> \in Seq(Msgs) /\ NoReply(<<Msg("Discovering", FALSE)>>)
      /\ <<>> \in Seq(Msgs) /\ NoReply(<<>>)
  BY Sends
<1>2. QED BY <1>1, RepliesJoined DEF PowerSignals

\* Signals and the reply, in whatever order.
LEMMA AnswersSent ==
  ASSUME Types, NEW sent \in Seq(Msgs), NoReply(sent), call # "GetManagedObjects", Answers(sent)
  PROVE  \E x \in Seq(Msgs) : /\ socket' = socket \o x /\ OneReply(x)
                              /\ \A i \in 1 .. Len(x) : Replying(x[i], call)
                              /\ x = sent \o <<Reply(TRUE)>> \/ x = <<Reply(TRUE)>> \o sent
<1>1. <<Reply(TRUE)>> \in Seq(Msgs) /\ OneReply(<<Reply(TRUE)>>) /\ socket \in Seq(Msgs)
  BY Sends DEF Types, TypeOK
<1>2. \A i \in 1 .. Len(sent) : Replying(sent[i], call)
  BY DEF NoReply, Replying
<1>3. \A i \in 1 .. Len(<<Reply(TRUE)>>) : Replying(<<Reply(TRUE)>>[i], call)
  <2>1. Reply(TRUE).kind = "Reply"
    BY DEF Reply, Msg
  <2>2. Replying(Reply(TRUE), call)
    BY <2>1 DEF Replying
  <2>3. QED BY <2>2, Single
<1>4. CASE socket' = socket \o sent \o <<Reply(TRUE)>>
  <2>1. socket' = socket \o (sent \o <<Reply(TRUE)>>)
    BY <1>1, <1>4, ConcatAssociative
  <2>2. sent \o <<Reply(TRUE)>> \in Seq(Msgs) /\ OneReply(sent \o <<Reply(TRUE)>>)
    BY <1>1, RepliesJoined
  <2>3. \A i \in 1 .. Len(sent \o <<Reply(TRUE)>>) : Replying((sent \o <<Reply(TRUE)>>)[i], call)
    BY <1>1, <1>2, <1>3, ReplyingJoined
  <2>4. QED BY <2>1, <2>2, <2>3
<1>5. CASE socket' = socket \o <<Reply(TRUE)>> \o sent
  <2>1. socket' = socket \o (<<Reply(TRUE)>> \o sent)
    BY <1>1, <1>5, ConcatAssociative
  <2>2. <<Reply(TRUE)>> \o sent \in Seq(Msgs) /\ OneReply(<<Reply(TRUE)>> \o sent)
    BY <1>1, RepliesJoined
  <2>3. \A i \in 1 .. Len(<<Reply(TRUE)>> \o sent) : Replying((<<Reply(TRUE)>> \o sent)[i], call)
    BY <1>1, <1>2, <1>3, ReplyingJoined
  <2>4. QED BY <2>1, <2>2, <2>3
<1>6. QED BY <1>4, <1>5 DEF Answers

-----------------------------------------------------------------------------
(* Every step keeps the types.                                             *)

LEMMA TypesInit == Init => Types
<1> SUFFICES ASSUME Init
             PROVE  Types
  OBVIOUS
<1>1. toCore \in Seq(Notis)
  <2>1. PowerNoti(powered) \in Notis /\ ScanNoti(FALSE) \in Notis
    BY Said DEF Init
  <2>2. \A m, n \in Notis : <<m, n>> \in Seq(Notis)
    OBVIOUS
  <2>3. toCore = <<PowerNoti(powered), ScanNoti(FALSE)>>
    BY Zenon DEF Init
  <2>4. QED BY <2>1, <2>2, <2>3
<1>2. /\ socket \in Seq(Msgs) /\ incoming \in Seq(Msgs)
      /\ toHardware \in Seq(BluezCalls \cup {"Accept", "Reject"})
  BY EmptySeq DEF Init
<1>3. requests \in 0 .. MaxRequests /\ external \in 0 .. MaxExternal
  BY DEF Init
<1>4. TypeOK
  BY <1>1, <1>2, <1>3 DEF Init, TypeOK
<1>5. Called /\ Awaited
  BY DEF Init, Called, Awaited, OneReply, NoReply
<1>6. QED BY <1>4, <1>5 DEF Types

LEMMA TypesClient == Types /\ Client => Types'
<1> SUFFICES ASSUME Types, Client
             PROVE  Types'
  OBVIOUS
<1>1. PICK cmd \in BluezCalls \cup {"Accept", "Reject"} : Send(cmd)
  BY DEF Client, StartScanBTDevice, StopScanBTDevice, BluetoothPowerOn, BluetoothPowerOff, PairBTDevice,
         Join, AnswerConfirmation, BluezCalls
<1>2. /\ powerState' \in {"OFF", "ON", "PROCESSING"} /\ scanState' \in {"IDLE", "SCANNING", "PROCESSING"}
      /\ view' \in [paired : BOOLEAN, prompt : BOOLEAN]
  BY DEF Types, TypeOK, core, Client, StartScanBTDevice, StopScanBTDevice, BluetoothPowerOn,
         BluetoothPowerOff, PairBTDevice, Join, AnswerConfirmation
<1>3. toHardware' \in Seq(BluezCalls \cup {"Accept", "Reject"}) /\ requests' \in 0 .. MaxRequests
  BY <1>1 DEF Types, TypeOK, Send
<1>4. UNCHANGED <<toCore, mainWorker, call, worker, mutex, socket, incoming, powered, discovering,
                  paired, pairing, external, crossed>>
  BY <1>1 DEF Send, connection, bluez
<1>5. TypeOK'
  BY <1>2, <1>3, <1>4 DEF Types, TypeOK
<1>6. QED BY <1>4, <1>5 DEF Types, Called, Awaited

LEMMA TypesCore == Types /\ CoreStep => Types'
<1> SUFFICES ASSUME Types, CoreStep
             PROVE  Types'
  OBVIOUS
<1>1. PICK cmd : ReceiveNoti(cmd)
  BY DEF CoreStep, StartScanBTDeviceNOTI, StopScanBTDeviceNOTI, BluetoothPowerOnNOTI,
         BluetoothPowerOffNOTI, PairBTDeviceNOTI, ScanningBTDeviceFoundNOTI,
         BtDevicePropertyChangeNOTI, BtDeviceRequestConfirmationNOTI
<1>2. Head(toCore) \in Notis /\ toCore' \in Seq(Notis)
  BY <1>1 DEF ReceiveNoti, Types, TypeOK
<1>3. Head(toCore).ok \in BOOLEAN
  BY <1>2 DEF Notis
<1>4. /\ powerState' \in {"OFF", "ON", "PROCESSING"} /\ scanState' \in {"IDLE", "SCANNING", "PROCESSING"}
      /\ view' \in [paired : BOOLEAN, prompt : BOOLEAN]
  BY <1>3 DEF Types, TypeOK, core, CoreStep, StartScanBTDeviceNOTI, StopScanBTDeviceNOTI,
         BluetoothPowerOnNOTI, BluetoothPowerOffNOTI, PairBTDeviceNOTI, ScanningBTDeviceFoundNOTI,
         BtDevicePropertyChangeNOTI, BtDeviceRequestConfirmationNOTI
<1>5. UNCHANGED <<toHardware, mainWorker, call, worker, mutex, socket, incoming, powered, discovering,
                  paired, pairing, requests, external, crossed>>
  BY <1>1 DEF ReceiveNoti, connection, bluez
<1>6. TypeOK'
  BY <1>2, <1>4, <1>5 DEF Types, TypeOK
<1>7. QED BY <1>5, <1>6 DEF Types, Called, Awaited

\* What a call leaves alone when it returns; FailureNoti is of the call.
LEMMA TypesFinish ==
  ASSUME Types, Finish, socket' = <<>>, incoming' \in Seq(Msgs), toCore' \in Seq(Notis),
         worker # "dispatching"
  PROVE  Types'
<1>1. /\ mainWorker' = "idle" /\ call' = "none" /\ mutex' = "nobody"
      /\ UNCHANGED <<powerState, scanState, view, toHardware, worker, powered, discovering, paired,
                     pairing, requests, external, crossed>>
  BY DEF Finish, core, bluez
<1>2. TypeOK'
  <2>1. socket' \in Seq(Msgs)
    BY EmptySeq
  <2>2. QED BY <1>1, <2>1 DEF Types, TypeOK
<1>3. Called' /\ Awaited'
  BY <1>1 DEF Called, Awaited, OneReply, NoReply
<1>4. QED BY <1>2, <1>3 DEF Types

LEMMA FailureNotis ==
  ASSUME call \in BluezCalls, call # "GetManagedObjects"
  PROVE  Noti(FailureNoti, FALSE) \in Notis
<1>1. FailureNoti \in {"START_SCAN", "STOP_SCAN", "POWER_ON", "POWER_OFF", "PAIR"}
  BY DEF FailureNoti, BluezCalls
<1>2. QED BY <1>1, Said

\* What is left when a message is taken out of a queue.
LEMMA Removed ==
  ASSUME NEW M, NEW q \in Seq(M), NEW i \in 1 .. Len(q)
  PROVE  /\ RemoveAt(q, i) \in Seq(M) /\ Len(RemoveAt(q, i)) = Len(q) - 1 /\ Len(q) \in Nat
         /\ \A j \in 1 .. i - 1 : RemoveAt(q, i)[j] = q[j]
         /\ \A j \in i .. Len(q) - 1 : RemoveAt(q, i)[j] = q[j + 1]
<1> DEFINE a == SubSeq(q, 1, i - 1)
           b == SubSeq(q, i + 1, Len(q))
<1>1. Len(q) \in Nat
  BY LenProperties
<1>2. a \in Seq(M) /\ Len(a) = i - 1 /\ \A j \in 1 .. i - 1 : a[j] = q[j]
  <2>1. \A j \in 1 .. i - 1 : j \in 1 .. Len(q)
    BY <1>1
  <2>2. QED BY <1>1, <2>1, SubSeqProperties
<1>3. b \in Seq(M) /\ Len(b) = Len(q) - i /\ \A j \in 1 .. Len(q) - i : b[j] = q[i + j]
  <2>1. \A j \in i + 1 .. Len(q) : j \in 1 .. Len(q)
    BY <1>1
  <2>2. QED BY <1>1, <2>1, SubSeqProperties
<1> HIDE DEF a, b
<1>4. RemoveAt(q, i) = a \o b
  BY DEF RemoveAt, a, b
<1>5. /\ a \o b \in Seq(M) /\ Len(a \o b) = Len(q) - 1
      /\ \A j \in 1 .. Len(a) : (a \o b)[j] = a[j]
      /\ \A j \in 1 .. Len(b) : (a \o b)[Len(a) + j] = b[j]
  <2>1. /\ a \o b \in Seq(M) /\ Len(a \o b) = Len(a) + Len(b)
        /\ \A j \in 1 .. Len(a) : (a \o b)[j] = a[j]
        /\ \A j \in 1 .. Len(b) : (a \o b)[Len(a) + j] = b[j]
    <3>1. a \in Seq(M) /\ b \in Seq(M)
      BY <1>2, <1>3
    <3>2. QED BY <3>1, JoinedQueue
  <2>2. Len(a) + Len(b) = Len(q) - 1
    BY <1>1, <1>2, <1>3
  <2>3. QED BY <2>1, <2>2
<1>6. ASSUME NEW j \in i .. Len(q) - 1
      PROVE  (a \o b)[j] = q[j + 1]
  <2>1. j - (i - 1) \in 1 .. Len(b) /\ Len(a) + (j - (i - 1)) = j /\ i + (j - (i - 1)) = j + 1
    BY <1>1, <1>2, <1>3
  <2>2. (a \o b)[Len(a) + (j - (i - 1))] = b[j - (i - 1)]
    BY <1>5, <2>1
  <2>3. QED BY <1>3, <2>1, <2>2
<1>7. QED BY <1>1, <1>2, <1>4, <1>5, <1>6

LEMMA TypesMainWorker == Types /\ MainWorkerStep => Types'
<1> SUFFICES ASSUME Types, MainWorkerStep
             PROVE  Types'
  OBVIOUS
<1>1. /\ toHardware \in Seq(BluezCalls \cup {"Accept", "Reject"}) /\ toCore \in Seq(Notis)
      /\ socket \in Seq(Msgs) /\ incoming \in Seq(Msgs)
  BY DEF Types, TypeOK
<1>2. ASSUME NEW cmd \in BluezCalls, CallBluez(cmd)
      PROVE  Types'
  <2>1. /\ mainWorker = "idle" /\ mutex = "nobody" /\ mainWorker' = "called" /\ call' = cmd
        /\ worker # "dispatching" /\ mutex' = "MainWorker"
        /\ toHardware' \in Seq(BluezCalls \cup {"Accept", "Reject"})
        /\ UNCHANGED <<powerState, scanState, view, toCore, worker, socket, incoming, powered,
                       discovering, paired, pairing, requests, external, crossed>>
    BY <1>1, <1>2 DEF CallBluez, Take, core, connection, bluez, Types, TypeOK
  <2>2. NoReply(socket)
    BY <2>1 DEF Types, Awaited
  <2>3. TypeOK'
    BY <2>1 DEF Types, TypeOK
  <2>4. Called' /\ Awaited'
    BY <2>1, <2>2 DEF Called, Awaited, NoReply, Replying, OneReply
  <2>5. QED BY <2>3, <2>4 DEF Types
<1>3. ASSUME NEW cmd \in {"Accept", "Reject"}, ConfirmRequest(cmd)
      PROVE  Types'
  <2>0. /\ mainWorker = "idle" /\ pairing' = FALSE
        /\ toHardware # <<>> /\ toHardware' = Tail(toHardware)
        /\ paired' = (paired \/ (pairing /\ cmd = "Accept"))
        /\ UNCHANGED <<powerState, scanState, view, toCore, mainWorker, call, worker, mutex, incoming,
                       powered, discovering, requests, external, crossed>>
    BY <1>3, Zenon DEF ConfirmRequest, Take, core
  <2>1. /\ mainWorker = "idle" /\ pairing' \in BOOLEAN /\ paired' \in BOOLEAN
        /\ toHardware' \in Seq(BluezCalls \cup {"Accept", "Reject"})
        /\ UNCHANGED <<powerState, scanState, view, toCore, mainWorker, call, worker, mutex, incoming,
                       powered, discovering, requests, external, crossed>>
    <3>1. toHardware' \in Seq(BluezCalls \cup {"Accept", "Reject"})
      BY <1>1, <2>0
    <3>2. paired' \in BOOLEAN
      BY <2>0, Zenon
    <3>3. QED BY <2>0, <3>1, <3>2, Zenon
  <2>2. \E x \in Seq(Msgs) : NoReply(x) /\ socket' = socket \o x
    <3>1. CASE pairing /\ cmd = "Accept"
      <4>1. socket' = socket \o <<Msg("Paired", TRUE)>>
        <5>1. Msg("Paired", TRUE) \in Msgs
          BY Said
        <5>2. socket' = Append(socket, Msg("Paired", TRUE))
          BY <1>3, <3>1, Zenon DEF ConfirmRequest
        <5>3. QED BY <1>1, <5>1, <5>2, AppendIsConcat
      <4>2. QED BY <4>1, Sends
    <3>2. CASE ~ (pairing /\ cmd = "Accept")
      <4>1. socket' = socket \o <<>>
        BY <1>1, <1>3, <3>2, ConcatEmptySeq DEF ConfirmRequest
      <4>2. QED BY <4>1, Sends
    <3>3. QED BY <3>1, <3>2
  <2>3. socket' \in Seq(Msgs) /\ Awaited'
    BY <2>1, <2>2, SocketGrows
  <2>4. QED BY <2>1, <2>3 DEF Types, TypeOK, Called
<1>4. CASE ReadReply
  <2>1. PICK i \in 1 .. Len(socket) :
          /\ incoming' = incoming \o RemoveAt(socket, i)
          /\ \/ socket[i].kind = "Reply" /\ Return(socket[i].value)
             \/ socket[i].kind = "Objects" /\ List(socket[i].value)
    BY <1>4, Zenon DEF ReadReply
  <2>2. socket[i] \in Msgs /\ incoming' \in Seq(Msgs)
    <3>1. RemoveAt(socket, i) \in Seq(Msgs)
      BY <1>1, Removed
    <3>2. QED BY <1>1, <2>1, <3>1, ConcatProperties
  <2>3. mainWorker = "waiting" /\ socket' = <<>> /\ worker # "dispatching" /\ call \in BluezCalls
    BY <1>4 DEF ReadReply, Types, TypeOK, Called
  <2>4. CASE socket[i].kind = "Reply" /\ Return(socket[i].value)
    <3>1. socket[i].value \in BOOLEAN
      BY <2>2, <2>4, Said
    <3>2. call # "GetManagedObjects"
      BY <2>4 DEF Types, Awaited, Replying, Replies
    <3>3. toCore' \in Seq(Notis) /\ Finish
      <4>1. Noti(FailureNoti, FALSE) \in Notis
        BY <2>3, <3>2, FailureNotis
      <4>2. toCore' = toCore \/ toCore' = Append(toCore, Noti(FailureNoti, FALSE))
        BY <2>4, Zenon DEF Return
      <4>3. Finish
        BY <2>4, Zenon DEF Return
      <4>4. \A n \in Notis : Append(toCore, n) \in Seq(Notis)
        BY <1>1
      <4>5. QED BY <1>1, <4>1, <4>2, <4>3, <4>4
    <3>4. QED BY <2>2, <2>3, <3>3, TypesFinish
  <2>5. CASE socket[i].kind = "Objects" /\ List(socket[i].value)
    <3> DEFINE o == socket[i].value
    <3>1. /\ PowerNoti(o.powered) \in Notis /\ ScanNoti(o.discovering) \in Notis
          /\ Noti("FOUND", o.paired) \in Notis
      BY <2>2, <2>5, Said
    <3>2. \A l, m, n \in Notis : <<l, m, n>> \in Seq(Notis)
      OBVIOUS
    <3>3. <<PowerNoti(o.powered), ScanNoti(o.discovering), Noti("FOUND", o.paired)>> \in Seq(Notis)
      BY <3>1, <3>2
    <3>4. /\ toCore' = toCore \o <<PowerNoti(o.powered), ScanNoti(o.discovering), Noti("FOUND", o.paired)>>
          /\ Finish
      BY <2>5, Zenon DEF List
    <3>5. toCore' \in Seq(Notis)
      BY <1>1, <3>3, <3>4, ConcatProperties
    <3>6. QED BY <2>2, <2>3, <3>4, <3>5, TypesFinish
  <2>6. QED BY <2>1, <2>4, <2>5
<1>5. CASE ReadOther
  <2>1. /\ mainWorker = "waiting" /\ NoReply(socket) /\ socket' = <<>> /\ incoming' = incoming \o socket
        /\ UNCHANGED <<powerState, scanState, view, toHardware, toCore, mainWorker, call, worker, mutex,
                       powered, discovering, paired, pairing, requests, external, crossed>>
    BY <1>5 DEF ReadOther, core, channels, bluez
  <2>2. socket' \in Seq(Msgs) /\ incoming' \in Seq(Msgs)
    BY <1>1, <2>1, ConcatProperties, EmptySeq
  <2>3. TypeOK'
    BY <2>1, <2>2 DEF Types, TypeOK
  <2>4. QED BY <2>1, <2>3 DEF Types, Called, Awaited, OneReply, NoReply
<1>6. CASE PairTimesOut
  <2>1. /\ mainWorker = "waiting" /\ call = "Pair" /\ NoReply(socket) /\ Return(FALSE)
        /\ worker # "dispatching" /\ UNCHANGED <<socket, incoming>>
    BY <1>6 DEF PairTimesOut, connection, Types, Called
  <2>2. toCore' \in Seq(Notis)
    <3>1. Noti("PAIR", FALSE) \in Notis /\ FailureNoti = "PAIR"
      BY <2>1, Said DEF FailureNoti
    <3>2. toCore' = Append(toCore, Noti("PAIR", FALSE))
      BY <2>1, <3>1, Zenon DEF Return
    <3>3. \A n \in Notis : Append(toCore, n) \in Seq(Notis)
      BY <1>1
    <3>4. QED BY <3>1, <3>2, <3>3
  <2>3. /\ mainWorker' = "idle" /\ call' = "none" /\ mutex' = "nobody"
        /\ UNCHANGED <<powerState, scanState, view, toHardware, worker, powered, discovering, paired,
                       pairing, requests, external, crossed>>
    BY <2>1 DEF Return, Finish, core, bluez
  <2>4. TypeOK'
    BY <2>1, <2>2, <2>3 DEF Types, TypeOK
  <2>5. Called' /\ Awaited'
    BY <2>1, <2>3 DEF Called, Awaited, OneReply, NoReply, Replying
  <2>6. QED BY <2>4, <2>5 DEF Types
<1>7. QED BY <1>2, <1>3, <1>4, <1>5, <1>6 DEF MainWorkerStep

\* What BlueZ sends for a call, and what it sends on its own.
LEMMA TypesServed ==
  ASSUME Types, NEW x \in Seq(Msgs), socket' = socket \o x, OneReply(x),
         \A i \in 1 .. Len(x) : Replying(x[i], call),
         NEW cmd, Serve(cmd),
         powered' \in BOOLEAN, discovering' \in BOOLEAN, paired' \in BOOLEAN, pairing' \in BOOLEAN,
         crossed' \in BOOLEAN
  PROVE  Types'
<1>1. /\ mainWorker = "called" /\ mainWorker' = "waiting"
      /\ UNCHANGED <<powerState, scanState, view, toHardware, toCore, call, worker, mutex, incoming,
                     requests, external>>
  BY DEF Serve, core, channels
<1>2. NoReply(socket)
  BY <1>1 DEF Types, Awaited
<1>3. socket' \in Seq(Msgs) /\ Awaited'
  BY <1>1, <1>2, SocketGrows
<1>4. TypeOK'
  BY <1>1, <1>3 DEF Types, TypeOK
<1>5. QED BY <1>1, <1>3, <1>4 DEF Types, Called

\* BlueZ refuses.
LEMMA Refusal ==
  ASSUME Types, call # "GetManagedObjects"
  PROVE  /\ Append(socket, Reply(FALSE)) = socket \o <<Reply(FALSE)>>
         /\ <<Reply(FALSE)>> \in Seq(Msgs) /\ OneReply(<<Reply(FALSE)>>)
         /\ \A i \in 1 .. Len(<<Reply(FALSE)>>) : Replying(<<Reply(FALSE)>>[i], call)
<1>1. Reply(FALSE) \in Msgs /\ Reply(FALSE).kind = "Reply"
  BY Said DEF Reply
<1>2. Append(socket, Reply(FALSE)) = socket \o <<Reply(FALSE)>>
  <2>1. socket \in Seq(Msgs)
    BY DEF Types, TypeOK
  <2>2. QED BY <1>1, <2>1, AppendIsConcat
<1>3. Replying(Reply(FALSE), call)
  BY <1>1 DEF Replying
<1>4. QED BY <1>2, <1>3, Sends, Single

LEMMA TypesBluez == Types /\ BluezStep => Types'
<1> SUFFICES ASSUME Types, BluezStep
             PROVE  Types'
  OBVIOUS
<1>1. /\ powered \in BOOLEAN /\ discovering \in BOOLEAN /\ paired \in BOOLEAN /\ pairing \in BOOLEAN
      /\ crossed \in BOOLEAN /\ socket \in Seq(Msgs)
  BY DEF Types, TypeOK
<1>2. ASSUME NEW cmd, Serve(cmd), cmd # "GetManagedObjects", Refuse \/ RefuseCrossed
      PROVE  Types'
  <2>1. call # "GetManagedObjects"
    BY <1>2 DEF Serve
  <2>2. /\ socket' = socket \o <<Reply(FALSE)>>
        /\ UNCHANGED <<powered, discovering, paired, pairing>> /\ crossed' \in BOOLEAN
    BY <1>1, <1>2, <2>1, Refusal DEF Refuse, RefuseCrossed, bluez
  <2>3. QED BY <1>1, <1>2, <2>1, <2>2, Refusal, TypesServed
<1>3. ASSUME NEW cmd, Serve(cmd), cmd # "GetManagedObjects",
             NEW sent \in Seq(Msgs), NoReply(sent), Answers(sent),
             powered' \in BOOLEAN, discovering' \in BOOLEAN, paired' \in BOOLEAN, pairing' = pairing,
             crossed' = crossed
      PROVE  Types'
  <2>1. call # "GetManagedObjects"
    BY <1>3 DEF Serve
  <2>2. PICK x \in Seq(Msgs) : /\ socket' = socket \o x /\ OneReply(x)
                               /\ \A i \in 1 .. Len(x) : Replying(x[i], call)
    BY <1>3, <2>1, AnswersSent
  <2>3. pairing' \in BOOLEAN /\ crossed' \in BOOLEAN
    BY <1>1, <1>3
  <2>4. QED BY <1>3, <2>2, <2>3, TypesServed
<1>4. ASSUME NEW on \in BOOLEAN, SetPower(on)
      PROVE  Types'
  <2> DEFINE cmd == IF on THEN "PowerOn" ELSE "PowerOff"
             sent == IF powered = on THEN <<>> ELSE PowerSignals(on)
  <2>1. Serve(cmd) /\ cmd # "GetManagedObjects"
    BY <1>4 DEF SetPower
  <2>2. CASE Refuse
    BY <1>2, <2>1, <2>2
  <2>3. CASE /\ powered' = on /\ discovering' = (discovering /\ powered = on)
             /\ Answers(sent) /\ UNCHANGED <<paired, pairing, crossed>>
    <3>1. sent \in Seq(Msgs) /\ NoReply(sent)
      BY Sends, PowerSignalsSent
    <3>2. powered' \in BOOLEAN /\ discovering' \in BOOLEAN /\ paired' \in BOOLEAN
      BY <1>1, <2>3, Zenon
    <3> HIDE DEF cmd, sent
    <3>3. QED BY <1>3, <2>1, <2>3, <3>1, <3>2
  <2>4. QED BY <1>4, <2>2, <2>3, Zenon DEF SetPower
<1>5. CASE StartDiscovery
  <2>1. CASE Refuse \/ RefuseCrossed
    BY <1>2, <1>5, <2>1 DEF StartDiscovery
  <2>2. CASE /\ discovering' = TRUE /\ Answers(<<Msg("Discovering", TRUE)>>)
             /\ UNCHANGED <<powered, paired, pairing, crossed>>
    BY <1>1, <1>3, <1>5, <2>2, Sends DEF StartDiscovery
  <2>3. QED BY <1>5, <2>1, <2>2, Zenon DEF StartDiscovery
<1>6. CASE StopDiscovery
  <2>1. CASE Refuse \/ RefuseCrossed
    BY <1>2, <1>6, <2>1 DEF StopDiscovery
  <2>2. CASE /\ discovering' = FALSE /\ Answers(<<Msg("Discovering", FALSE)>>)
             /\ UNCHANGED <<powered, paired, pairing, crossed>>
    BY <1>1, <1>3, <1>6, <2>2, Sends DEF StopDiscovery
  <2>3. QED BY <1>6, <2>1, <2>2, Zenon DEF StopDiscovery
<1>7. CASE Pair
  <2>1. CASE Refuse
    BY <1>2, <1>7, <2>1 DEF Pair
  <2>2. CASE /\ paired' = TRUE /\ Answers(<<Msg("Paired", TRUE)>>)
             /\ UNCHANGED <<powered, discovering, pairing, crossed>>
    BY <1>1, <1>3, <1>7, <2>2, Sends DEF Pair
  <2>3. CASE /\ pairing' = TRUE
             /\ socket' = Append(socket, Msg("RequestConfirmation", TRUE))
             /\ UNCHANGED <<powered, discovering, paired, crossed>>
    <3> DEFINE x == <<Msg("RequestConfirmation", TRUE)>>
    <3>1. x \in Seq(Msgs) /\ NoReply(x)
      BY Sends
    <3>2. OneReply(x) /\ \A i \in 1 .. Len(x) : Replying(x[i], call)
      BY <3>1, Sends DEF NoReply, Replying
    <3>3. socket' = socket \o x
      <4>1. Msg("RequestConfirmation", TRUE) \in Msgs
        BY Said
      <4>2. QED BY <1>1, <2>3, <4>1, AppendIsConcat
    <3>4. Serve("Pair")
      BY <1>7 DEF Pair
    <3> HIDE DEF x
    <3>5. QED BY <1>1, <2>3, <3>1, <3>2, <3>3, <3>4, TypesServed
  <2>4. QED BY <1>7, <2>1, <2>2, <2>3, Zenon DEF Pair
<1>8. CASE GetManagedObjects
  <2> DEFINE m == Msg("Objects", Objects)
  <2>1. m \in Msgs /\ m.kind = "Objects"
    BY ObjectsSaid DEF Types
  <2>2. call = "GetManagedObjects" /\ Serve("GetManagedObjects")
    BY <1>8 DEF GetManagedObjects, Serve
  <2>3. socket' = Append(socket, m) /\ UNCHANGED <<powered, discovering, paired, pairing, crossed>>
    BY <1>8 DEF GetManagedObjects, bluez
  <2> HIDE DEF m
  <2>4. Replying(m, call)
    BY <2>1, <2>2 DEF Replying
  <2>5. <<m>> \in Seq(Msgs) /\ OneReply(<<m>>) /\ \A i \in 1 .. Len(<<m>>) : Replying(<<m>>[i], call)
    BY <2>1, <2>4, Single, Sends
  <2>6. socket' = socket \o <<m>>
    BY <1>1, <2>1, <2>3, AppendIsConcat
  <2>7. QED BY <1>1, <2>2, <2>3, <2>5, <2>6, TypesServed
<1>9. QED BY <1>4, <1>5, <1>6, <1>7, <1>8 DEF BluezStep

LEMMA TypesExternal == Types /\ (ExternalPower \/ PairingFails) => Types'
<1> SUFFICES ASSUME Types, ExternalPower \/ PairingFails
             PROVE  Types'
  OBVIOUS
<1>1. /\ external' \in 0 .. MaxExternal
      /\ UNCHANGED <<powerState, scanState, view, toHardware, toCore, mainWorker, call, worker, mutex,
                     incoming, requests, crossed>>
  <2>1. External
    BY DEF ExternalPower, PairingFails
  <2>2. external' \in 0 .. MaxExternal
    BY <2>1 DEF External, Types, TypeOK
  <2>3. QED BY <2>1, <2>2 DEF External, core, channels
<1>2. CASE ExternalPower
  <2>1. powered \in BOOLEAN
    BY DEF Types, TypeOK
  <2>2. /\ socket' = socket \o PowerSignals(~ powered) /\ powered' = ~ powered /\ discovering' = FALSE
        /\ UNCHANGED <<paired, pairing>>
    BY <1>2, Zenon DEF ExternalPower
  <2>3. (~ powered) \in BOOLEAN /\ powered' \in BOOLEAN
    BY <2>1, <2>2, Zenon
  <2>4. socket' \in Seq(Msgs) /\ Awaited'
    <3>1. PowerSignals(~ powered) \in Seq(Msgs) /\ NoReply(PowerSignals(~ powered))
      BY <2>3, PowerSignalsSent, Zenon
    <3>2. call' = call /\ mainWorker' = mainWorker
      BY <1>1
    <3>3. QED BY <2>2, <3>1, <3>2, SocketGrows, Zenon
  <2>5. TypeOK'
    BY <1>1, <2>2, <2>3, <2>4 DEF Types, TypeOK
  <2>6. QED BY <1>1, <2>4, <2>5 DEF Types, Called
<1>3. CASE PairingFails
  <2>1. pairing' = FALSE /\ UNCHANGED <<powered, discovering, paired>>
    BY <1>3 DEF PairingFails
  <2>2. socket' \in Seq(Msgs) /\ Awaited'
    <3>1. CASE mainWorker = "waiting" /\ call = "Pair" /\ NoReply(socket)
      <4>1. socket' = socket \o <<Reply(FALSE)>>
        <5>1. socket' = Append(socket, Reply(FALSE))
          BY <1>3, <3>1, Zenon DEF PairingFails
        <5>2. call # "GetManagedObjects"
          BY <3>1
        <5>3. QED BY <5>1, <5>2, Refusal
      <4>2. call # "GetManagedObjects" /\ mainWorker' = "waiting"
        BY <1>1, <3>1
      <4>3. QED BY <1>1, <3>1, <4>1, <4>2, Refusal, SocketGrows
    <3>2. CASE ~ (mainWorker = "waiting" /\ call = "Pair" /\ NoReply(socket))
      <4>1. socket' = socket
        BY <1>3, <3>2, Zenon DEF PairingFails
      <4>2. QED BY <1>1, <4>1 DEF Types, TypeOK, Awaited
    <3>3. QED BY <3>1, <3>2
  <2>3. /\ powered' \in BOOLEAN /\ discovering' \in BOOLEAN /\ paired' \in BOOLEAN
        /\ pairing' \in BOOLEAN /\ crossed' \in BOOLEAN
    BY <1>1, <2>1 DEF Types, TypeOK
  <2>4. TypeOK'
    BY <1>1, <2>2, <2>3 DEF Types, TypeOK
  <2>5. QED BY <1>1, <2>2, <2>4 DEF Types, Called
<1>4. QED BY <1>2, <1>3

LEMMA TypesWorker == Types /\ WorkerStep => Types'
<1> SUFFICES ASSUME Types, WorkerStep
             PROVE  Types'
  OBVIOUS
<1>1. toCore \in Seq(Notis) /\ socket \in Seq(Msgs) /\ incoming \in Seq(Msgs) /\ <<>> \in Seq(Msgs)
  BY EmptySeq DEF Types, TypeOK
<1>2. CASE Poll
  <2>1. worker = "poll" /\ worker' = "awake"
    BY <1>2 DEF Poll
  <2>2. UNCHANGED <<powerState, scanState, view, toHardware, toCore, mainWorker, call, mutex, socket,
                    incoming, powered, discovering, paired, pairing, requests, external, crossed>>
    BY <1>2 DEF Poll, core, channels, connection, bluez
  <2>3. QED BY <2>1, <2>2 DEF Types, TypeOK, Called, Awaited
<1>3. CASE ReadWrite
  <2>1. /\ worker = "awake" /\ mutex = "nobody" /\ worker' = "dispatching" /\ mutex' = "BluetoothWorker"
        /\ socket' = <<>> /\ incoming' = incoming \o socket
        /\ UNCHANGED <<powerState, scanState, view, toHardware, toCore, mainWorker, call, powered,
                       discovering, paired, pairing, requests, external, crossed>>
    BY <1>3 DEF ReadWrite, core, channels, bluez
  <2>2. mainWorker = "idle"
    BY <2>1 DEF Types, TypeOK
  <2>3. socket' \in Seq(Msgs) /\ incoming' \in Seq(Msgs)
    BY <1>1, <2>1, ConcatProperties
  <2>4. TypeOK'
    BY <2>1, <2>2, <2>3 DEF Types, TypeOK
  <2>5. QED BY <2>1, <2>2, <2>4 DEF Types, Called, Awaited, OneReply, NoReply
<1>4. CASE Dispatched
  <2>1. /\ worker = "dispatching" /\ worker' = "poll" /\ mutex' = "nobody"
        /\ UNCHANGED <<powerState, scanState, view, toHardware, toCore, mainWorker, call, socket,
                       incoming, powered, discovering, paired, pairing, requests, external, crossed>>
    BY <1>4 DEF Dispatched, core, channels, connection, bluez
  <2>2. mainWorker = "idle"
    BY <2>1 DEF Types, Called
  <2>3. QED BY <2>1, <2>2 DEF Types, TypeOK, Called, Awaited
<1>5. ASSUME NEW kind, NEW noti \in Notis, Dispatch(kind, noti)
      PROVE  Types'
  <2>1. /\ worker = "dispatching" /\ incoming # <<>> /\ toCore' = Append(toCore, noti)
        /\ UNCHANGED <<powerState, scanState, view, toHardware, mainWorker, call, worker, mutex,
                       powered, discovering, paired, pairing, requests, external, crossed>>
    BY <1>5 DEF Dispatch, core, bluez
  <2>2. \/ incoming' = Tail(incoming) /\ socket' = socket
        \/ incoming' = Tail(incoming) \o socket /\ socket' = <<>>
    BY <1>5 DEF Dispatch
  <2>3. toCore' \in Seq(Notis) /\ Tail(incoming) \in Seq(Msgs)
    BY <1>1, <2>1
  <2>4. socket' \in Seq(Msgs) /\ incoming' \in Seq(Msgs)
    BY <1>1, <2>2, <2>3, ConcatProperties
  <2>5. TypeOK'
    BY <2>1, <2>3, <2>4 DEF Types, TypeOK
  <2>6. mainWorker = "idle"
    BY <2>1 DEF Types, Called
  <2>7. Awaited'
    <3>1. CASE socket' = socket
      BY <2>1, <3>1 DEF Types, Awaited
    <3>2. CASE socket' = <<>>
      BY <3>2 DEF Awaited, OneReply, NoReply
    <3>3. QED BY <2>2, <3>1, <3>2
  <2>8. QED BY <2>1, <2>5, <2>6, <2>7 DEF Types, Called
<1>6. ASSUME NEW kind \in {"Powered", "Discovering"}, incoming # <<>>, Head(incoming).kind = kind
      PROVE  Head(incoming).value \in BOOLEAN
  <2>1. Head(incoming) \in Msgs
    BY <1>1, <1>6
  <2>2. QED BY <1>6, <2>1, Said
<1>7. CASE PowerChanged
  <2>1. PowerNoti(Head(incoming).value) \in Notis
    BY <1>6, <1>7, Said DEF PowerChanged, Dispatch
  <2>2. QED BY <1>5, <1>7, <2>1, Zenon DEF PowerChanged
<1>8. CASE DiscoveringChanged
  <2>1. ScanNoti(Head(incoming).value) \in Notis
    BY <1>6, <1>8, Said DEF DiscoveringChanged, Dispatch
  <2>2. QED BY <1>5, <1>8, <2>1, Zenon DEF DiscoveringChanged
<1>9. CASE DeviceChanged \/ HandleRequestConfirmation
  <2>1. Noti("PROPERTY_CHANGE", paired) \in Notis /\ Noti("REQUEST_CONFIRMATION", TRUE) \in Notis
    BY Said DEF Types, TypeOK
  <2>2. QED BY <1>5, <1>9, <2>1, Zenon DEF DeviceChanged, HandleRequestConfirmation
<1>10. QED BY <1>2, <1>3, <1>4, <1>7, <1>8, <1>9 DEF WorkerStep

LEMMA TypesStep == Types /\ [Next]_vars => Types'
<1> SUFFICES ASSUME Types, [Next]_vars
             PROVE  Types'
  OBVIOUS
<1>1. CASE UNCHANGED vars
  BY <1>1 DEF vars, core, channels, connection, bluez, Types, TypeOK, Called, Awaited
<1>2. QED
  BY <1>1, TypesClient, TypesCore, TypesMainWorker, TypesBluez, TypesExternal, TypesWorker DEF Next

\* Every variable keeps its type, and the connection's mutex has the owner that makes a call or
\* dispatches: BluetoothWorker never dispatches while MainWorker waits for a reply.
THEOREM TypeCorrect == Spec => []TypeOK
<1>1. Types => TypeOK
  BY DEF Types
<1>2. QED BY <1>1, TypesInit, TypesStep, PTL DEF Spec

-----------------------------------------------------------------------------
(* The last word on a switch.                                              *)

Switches == {"power", "scan"}

Truth(s)       == IF s = "power" THEN powered ELSE discovering
Shows(s, on)   == IF s = "power" THEN powerState = IF on THEN "ON" ELSE "OFF"
                  ELSE scanState = IF on THEN "SCANNING" ELSE "IDLE"
Kind(s)        == IF s = "power" THEN "Powered" ELSE "Discovering"
Request(s, on) == IF s = "power" THEN IF on THEN "PowerOn" ELSE "PowerOff"
                  ELSE IF on THEN "StartDiscovery" ELSE "StopDiscovery"
NotiCmd(s, on) == IF s = "power" THEN IF on THEN "POWER_ON" ELSE "POWER_OFF"
                  ELSE IF on THEN "START_SCAN" ELSE "STOP_SCAN"
Listed(s, o)   == IF s = "power" THEN o.powered ELSE o.discovering

\* What is said of the switch, and what says that it is so.
SignalsOf(s)      == {m \in Msgs : m.kind = Kind(s)}
SignalThat(s, on) == {Msg(Kind(s), on)}
NotisOf(s)        == {m \in Notis : m.cmd \in {NotiCmd(s, TRUE), NotiCmd(s, FALSE)}}
NotisThat(s, on)  == {Noti(NotiCmd(s, on), TRUE), Noti(NotiCmd(s, ~ on), FALSE)}

\* A listing says it, and so does the refusal of a call to make it the other way.
AnswersOf(s, cmd) ==
  {m \in Msgs : \/ m.kind = "Objects"
                \/ m = Reply(FALSE) /\ cmd \in {Request(s, TRUE), Request(s, FALSE)}}
AnswersThat(s, on, cmd) ==
  {m \in Msgs : \/ m.kind = "Objects" /\ Listed(s, m.value) = on
                \/ m = Reply(FALSE) /\ cmd = Request(s, ~ on)}

Silent(q, S)    == \A i \in 1 .. Len(q) : q[i] \notin S
EndsIn(q, S, W) == \E i \in 1 .. Len(q) : q[i] \in W /\ \A j \in i + 1 .. Len(q) : q[j] \notin S

\* A request that BlueZ has not seen.
Pending(cmd) == \/ \E i \in 1 .. Len(toHardware) : toHardware[i] = cmd
                \/ mainWorker = "called" /\ call = cmd
Settled(s)   == Shows(s, Truth(s)) \/ Pending(Request(s, ~ Truth(s)))

SignalTells(s) ==
  \/ EndsIn(socket, SignalsOf(s), SignalThat(s, Truth(s)))
  \/ Silent(socket, SignalsOf(s)) /\ EndsIn(incoming, SignalsOf(s), SignalThat(s, Truth(s)))
NoSignal(s)    == Silent(socket, SignalsOf(s)) /\ Silent(incoming, SignalsOf(s))
AnswerTells(s) == EndsIn(socket, AnswersOf(s, call), AnswersThat(s, Truth(s), call))
NoAnswer(s)    == Silent(socket, AnswersOf(s, call))
Told(s) == \/ EndsIn(toCore, NotisOf(s), NotisThat(s, Truth(s)))
           \/ Silent(toCore, NotisOf(s)) /\ Settled(s)

Agreed(s) == SignalTells(s) \/ (NoSignal(s) /\ (AnswerTells(s) \/ (NoAnswer(s) /\ Told(s))))

\* The last word of two queues is that of the second, if it says anything.
LEMMA WordJoined ==
  ASSUME NEW M, NEW q \in Seq(M), NEW r \in Seq(M), NEW S, NEW W
  PROVE  /\ Silent(q \o r, S) <=> Silent(q, S) /\ Silent(r, S)
         /\ EndsIn(q \o r, S, W) <=> EndsIn(r, S, W) \/ (Silent(r, S) /\ EndsIn(q, S, W))
<1> DEFINE w == q \o r
<1>1. /\ Len(q) \in Nat /\ Len(r) \in Nat /\ Len(w) = Len(q) + Len(r)
      /\ \A i \in 1 .. Len(q) : i \in 1 .. Len(w) /\ w[i] = q[i]
      /\ \A i \in 1 .. Len(r) : Len(q) + i \in 1 .. Len(w) /\ w[Len(q) + i] = r[i]
      /\ \A i \in 1 .. Len(w) : \/ i \in 1 .. Len(q) /\ w[i] = q[i]
                                \/ i - Len(q) \in 1 .. Len(r) /\ w[i] = r[i - Len(q)]
  BY JoinedQueue
<1> HIDE DEF w
<1>2. Silent(w, S) <=> Silent(q, S) /\ Silent(r, S)
  BY <1>1 DEF Silent
<1>3. ASSUME EndsIn(w, S, W)
      PROVE  EndsIn(r, S, W) \/ (Silent(r, S) /\ EndsIn(q, S, W))
  <2>1. PICK i \in 1 .. Len(w) : w[i] \in W /\ \A j \in i + 1 .. Len(w) : w[j] \notin S
    BY <1>3 DEF EndsIn
  <2>2. CASE i \in 1 .. Len(q) /\ w[i] = q[i]
    <3>1. Silent(r, S)
      <4>1. \A j \in 1 .. Len(r) : Len(q) + j \in i + 1 .. Len(w)
        BY <1>1, <2>2
      <4>2. QED BY <1>1, <2>1, <4>1 DEF Silent
    <3>2. \A j \in i + 1 .. Len(q) : j \in i + 1 .. Len(w) /\ j \in 1 .. Len(q)
      BY <1>1, <2>2
    <3>3. \A j \in i + 1 .. Len(q) : q[j] \notin S
      BY <1>1, <2>1, <3>2
    <3>4. QED BY <2>1, <2>2, <3>1, <3>3 DEF EndsIn
  <2>3. CASE i - Len(q) \in 1 .. Len(r) /\ w[i] = r[i - Len(q)]
    <3>1. \A j \in i - Len(q) + 1 .. Len(r) : Len(q) + j \in i + 1 .. Len(w) /\ j \in 1 .. Len(r)
      BY <1>1, <2>3
    <3>2. \A j \in i - Len(q) + 1 .. Len(r) : r[j] \notin S
      BY <1>1, <2>1, <3>1
    <3>3. QED BY <2>1, <2>3, <3>2 DEF EndsIn
  <2>4. QED BY <1>1, <2>2, <2>3
<1>4. ASSUME EndsIn(r, S, W)
      PROVE  EndsIn(w, S, W)
  <2>1. PICK i \in 1 .. Len(r) : r[i] \in W /\ \A j \in i + 1 .. Len(r) : r[j] \notin S
    BY <1>4 DEF EndsIn
  <2>2. ASSUME NEW j \in Len(q) + i + 1 .. Len(w)
        PROVE  w[j] \notin S
    <3>1. j \in 1 .. Len(w) /\ j \notin 1 .. Len(q) /\ j - Len(q) \in i + 1 .. Len(r)
      BY <1>1
    <3>2. QED BY <1>1, <2>1, <3>1
  <2>3. Len(q) + i \in 1 .. Len(w) /\ w[Len(q) + i] \in W
    BY <1>1, <2>1
  <2>4. QED BY <2>2, <2>3 DEF EndsIn
<1>5. ASSUME Silent(r, S), EndsIn(q, S, W)
      PROVE  EndsIn(w, S, W)
  <2>1. PICK i \in 1 .. Len(q) : q[i] \in W /\ \A j \in i + 1 .. Len(q) : q[j] \notin S
    BY <1>5 DEF EndsIn
  <2>2. ASSUME NEW j \in i + 1 .. Len(w)
        PROVE  w[j] \notin S
    <3>1. j \in 1 .. Len(w) /\ (j \in 1 .. Len(q) => j \in i + 1 .. Len(q))
      BY <1>1
    <3>2. QED BY <1>1, <1>5, <2>1, <3>1 DEF Silent
  <2>3. QED BY <1>1, <2>1, <2>2 DEF EndsIn
<1>6. QED BY <1>2, <1>3, <1>4, <1>5 DEF w

LEMMA WordSingle ==
  ASSUME NEW m, NEW S, NEW W
  PROVE  /\ Silent(<<>>, S) /\ ~ EndsIn(<<>>, S, W)
         /\ Silent(<<m>>, S) <=> m \notin S
         /\ EndsIn(<<m>>, S, W) <=> m \in W
BY DEF Silent, EndsIn

LEMMA WordAppended ==
  ASSUME NEW M, NEW q \in Seq(M), NEW m \in M, NEW S, NEW W
  PROVE  /\ Silent(Append(q, m), S) <=> Silent(q, S) /\ m \notin S
         /\ EndsIn(Append(q, m), S, W) <=> m \in W \/ (m \notin S /\ EndsIn(q, S, W))
<1>1. Append(q, m) = q \o <<m>> /\ <<m>> \in Seq(M)
  BY AppendIsConcat
<1>2. /\ Silent(q \o <<m>>, S) <=> Silent(q, S) /\ Silent(<<m>>, S)
      /\ EndsIn(q \o <<m>>, S, W) <=> EndsIn(<<m>>, S, W) \/ (Silent(<<m>>, S) /\ EndsIn(q, S, W))
  BY <1>1, WordJoined
<1>3. (Silent(<<m>>, S) <=> m \notin S) /\ (EndsIn(<<m>>, S, W) <=> m \in W)
  BY WordSingle
<1>4. QED BY <1>1, <1>2, <1>3, Zenon

LEMMA WordHead ==
  ASSUME NEW M, NEW q \in Seq(M), q # <<>>, NEW S, NEW W
  PROVE  /\ Head(q) \in M /\ Tail(q) \in Seq(M)
         /\ Silent(q, S) <=> Head(q) \notin S /\ Silent(Tail(q), S)
         /\ EndsIn(q, S, W) <=> EndsIn(Tail(q), S, W) \/ (Silent(Tail(q), S) /\ Head(q) \in W)
<1>1. Head(q) \in M /\ Tail(q) \in Seq(M) /\ <<Head(q)>> \in Seq(M)
  BY HeadTailProperties
<1>2. q = <<Head(q)>> \o Tail(q)
  <2>1. /\ Len(q) \in Nat /\ Len(Tail(q)) = Len(q) - 1 /\ q[1] = Head(q)
        /\ \A i \in 1 .. Len(Tail(q)) : Tail(q)[i] = q[i + 1]
    BY HeadTailProperties, EmptySeq
  <2>2. /\ <<Head(q)>> \o Tail(q) \in Seq(M) /\ Len(<<Head(q)>> \o Tail(q)) = Len(<<Head(q)>>) + Len(Tail(q))
        /\ \A i \in 1 .. Len(<<Head(q)>>) : (<<Head(q)>> \o Tail(q))[i] = <<Head(q)>>[i]
        /\ \A i \in 1 .. Len(Tail(q)) : (<<Head(q)>> \o Tail(q))[Len(<<Head(q)>>) + i] = Tail(q)[i]
    BY <1>1, JoinedQueue
  <2>3. Len(<<Head(q)>>) = 1 /\ <<Head(q)>>[1] = Head(q)
    OBVIOUS
  <2>4. ASSUME NEW i \in 1 .. Len(q)
        PROVE  (<<Head(q)>> \o Tail(q))[i] = q[i]
    <3>1. CASE i = 1
      BY <2>1, <2>2, <2>3, <3>1
    <3>2. CASE i # 1
      <4>1. i - 1 \in 1 .. Len(Tail(q)) /\ 1 + (i - 1) = i /\ (i - 1) + 1 = i
        BY <2>1, <3>2
      <4>2. QED BY <2>1, <2>2, <2>3, <4>1
    <3>3. QED BY <3>1, <3>2
  <2>5. Len(<<Head(q)>> \o Tail(q)) = Len(q)
    BY <2>1, <2>2, <2>3
  <2>6. QED BY <2>2, <2>4, <2>5, SeqEqual
<1>3. /\ <<Head(q)>> \in Seq(M) /\ Tail(q) \in Seq(M)
  BY <1>1
<1>4. /\ Silent(<<Head(q)>> \o Tail(q), S) <=> Silent(<<Head(q)>>, S) /\ Silent(Tail(q), S)
      /\ EndsIn(<<Head(q)>> \o Tail(q), S, W)
           <=> EndsIn(Tail(q), S, W) \/ (Silent(Tail(q), S) /\ EndsIn(<<Head(q)>>, S, W))
  BY <1>3, WordJoined
<1>5. /\ Silent(<<Head(q)>>, S) <=> Head(q) \notin S
      /\ EndsIn(<<Head(q)>>, S, W) <=> Head(q) \in W
  BY WordSingle
<1>6. /\ Silent(q, S) <=> Head(q) \notin S /\ Silent(Tail(q), S)
      /\ EndsIn(q, S, W) <=> EndsIn(Tail(q), S, W) \/ (Silent(Tail(q), S) /\ Head(q) \in W)
  BY <1>2, <1>4, <1>5, Zenon
<1>7. QED BY <1>1, <1>6

\* Taking out another message changes no word.
LEMMA WordRemoved ==
  ASSUME NEW M, NEW q \in Seq(M), NEW i \in 1 .. Len(q), NEW S, NEW W, q[i] \notin W
  PROVE  /\ Silent(q, S) => Silent(RemoveAt(q, i), S)
         /\ EndsIn(q, S, W) => EndsIn(RemoveAt(q, i), S, W)
<1> DEFINE r == RemoveAt(q, i)
<1>1. /\ Len(r) = Len(q) - 1 /\ Len(q) \in Nat
      /\ \A j \in 1 .. i - 1 : r[j] = q[j]
      /\ \A j \in i .. Len(q) - 1 : r[j] = q[j + 1]
  BY Removed
<1> HIDE DEF r
<1>2. Silent(q, S) => Silent(r, S)
  <2>1. \A j \in 1 .. Len(r) : \/ j \in 1 .. i - 1 /\ j \in 1 .. Len(q)
                               \/ j \in i .. Len(q) - 1 /\ j + 1 \in 1 .. Len(q)
    BY <1>1
  <2>2. QED BY <1>1, <2>1 DEF Silent
<1>3. ASSUME EndsIn(q, S, W)
      PROVE  EndsIn(r, S, W)
  <2>1. PICK k \in 1 .. Len(q) : q[k] \in W /\ \A j \in k + 1 .. Len(q) : q[j] \notin S
    BY <1>3 DEF EndsIn
  <2>2. CASE k < i
    <3>1. k \in 1 .. i - 1 /\ k \in 1 .. Len(r)
      BY <1>1, <2>2
    <3>2. \A j \in k + 1 .. Len(r) : \/ j \in 1 .. i - 1 /\ j \in k + 1 .. Len(q)
                                     \/ j \in i .. Len(q) - 1 /\ j + 1 \in k + 1 .. Len(q)
      BY <1>1, <2>2
    <3>3. QED BY <1>1, <2>1, <3>1, <3>2 DEF EndsIn
  <2>3. CASE k > i
    <3>1. k - 1 \in i .. Len(q) - 1 /\ k - 1 \in 1 .. Len(r) /\ (k - 1) + 1 = k
      BY <1>1, <2>3
    <3>2. \A j \in (k - 1) + 1 .. Len(r) : j \in i .. Len(q) - 1 /\ j + 1 \in k + 1 .. Len(q)
      BY <1>1, <2>3
    <3>3. r[k - 1] = q[k] /\ \A j \in (k - 1) + 1 .. Len(r) : r[j] \notin S
      BY <1>1, <2>1, <3>1, <3>2
    <3>4. QED BY <2>1, <3>1, <3>3 DEF EndsIn
  <2>4. k # i
    BY <2>1
  <2>5. QED BY <2>2, <2>3, <2>4
<1>4. QED BY <1>2, <1>3 DEF r

LEMMA Truths ==
  ASSUME TypeOK, NEW s \in Switches
  PROVE  Truth(s) \in BOOLEAN
BY DEF TypeOK, Truth, Switches

\* A message about something else.
LEMMA SignalsAside ==
  ASSUME NEW s, NEW on, NEW m, m.kind # Kind(s)
  PROVE  m \notin SignalsOf(s) /\ m \notin SignalThat(s, on)
<1>1. Msg(Kind(s), on).kind = Kind(s)
  BY DEF Msg
<1>2. QED BY <1>1 DEF SignalsOf, SignalThat

LEMMA NoReplyNoAnswer ==
  ASSUME NEW q \in Seq(Msgs), NoReply(q), NEW s, NEW on, NEW cmd
  PROVE  Silent(q, AnswersOf(s, cmd)) /\ ~ EndsIn(q, AnswersOf(s, cmd), AnswersThat(s, on, cmd))
<1>1. Reply(FALSE).kind = "Reply"
  BY DEF Reply, Msg
<1>2. \A m : m.kind \notin Replies => m \notin AnswersOf(s, cmd) /\ m \notin AnswersThat(s, on, cmd)
  BY <1>1 DEF AnswersOf, AnswersThat, Replies
<1>3. QED BY <1>2 DEF NoReply, Silent, EndsIn

\* The notifications that follow a signal or a listing, and those of other matters.
LEMMA NotiWords ==
  /\ \A on \in BOOLEAN : /\ PowerNoti(on) \in NotisThat("power", on) /\ PowerNoti(on) \notin NotisOf("scan")
                         /\ ScanNoti(on) \in NotisThat("scan", on) /\ ScanNoti(on) \notin NotisOf("power")
                         /\ \A x : PowerNoti(on) \notin NotisThat("scan", x)
                         /\ \A x : ScanNoti(on) \notin NotisThat("power", x)
  /\ \A s \in Switches, ok \in BOOLEAN, cmd \in {"PAIR", "FOUND", "PROPERTY_CHANGE", "REQUEST_CONFIRMATION"} :
        Noti(cmd, ok) \notin NotisOf(s) /\ \A on : Noti(cmd, ok) \notin NotisThat(s, on)
<1>1. /\ PowerNoti(TRUE) = Noti("POWER_ON", TRUE) /\ PowerNoti(FALSE) = Noti("POWER_OFF", TRUE)
      /\ ScanNoti(TRUE) = Noti("START_SCAN", TRUE) /\ ScanNoti(FALSE) = Noti("STOP_SCAN", TRUE)
  BY Zenon DEF PowerNoti, ScanNoti
<1>2. /\ NotiCmd("power", TRUE) = "POWER_ON" /\ NotiCmd("power", FALSE) = "POWER_OFF"
      /\ NotiCmd("scan", TRUE) = "START_SCAN" /\ NotiCmd("scan", FALSE) = "STOP_SCAN"
  BY DEF NotiCmd
<1>3. \A s \in Switches : \A on : NotiCmd(s, on) \in {"POWER_ON", "POWER_OFF", "START_SCAN", "STOP_SCAN"}
  BY DEF NotiCmd, Switches
<1>4. \A cmd, ok : Noti(cmd, ok).cmd = cmd
  BY DEF Noti
<1>5. ASSUME NEW s, NEW on, NEW m \in NotisThat(s, on)
      PROVE  m.cmd = NotiCmd(s, on) \/ m.cmd = NotiCmd(s, ~ on)
  BY <1>4, Zenon DEF NotisThat
<1>6. ASSUME NEW on \in BOOLEAN
      PROVE  /\ PowerNoti(on) \in NotisThat("power", on) /\ PowerNoti(on) \notin NotisOf("scan")
             /\ ScanNoti(on) \in NotisThat("scan", on) /\ ScanNoti(on) \notin NotisOf("power")
             /\ \A x : PowerNoti(on) \notin NotisThat("scan", x)
             /\ \A x : ScanNoti(on) \notin NotisThat("power", x)
  <2>1. /\ PowerNoti(on) = Noti(NotiCmd("power", on), TRUE) /\ PowerNoti(on).cmd \in {"POWER_ON", "POWER_OFF"}
        /\ ScanNoti(on) = Noti(NotiCmd("scan", on), TRUE) /\ ScanNoti(on).cmd \in {"START_SCAN", "STOP_SCAN"}
    <3>1. CASE on = TRUE
      BY <1>1, <1>2, <1>4, <3>1
    <3>2. CASE on = FALSE
      BY <1>1, <1>2, <1>4, <3>2
    <3>3. QED BY <3>1, <3>2
  <2>2. \A x : /\ NotiCmd("scan", x) \in {"START_SCAN", "STOP_SCAN"}
              /\ NotiCmd("power", x) \in {"POWER_ON", "POWER_OFF"}
    BY DEF NotiCmd
  <2>3. /\ PowerNoti(on) \in NotisThat("power", on) /\ ScanNoti(on) \in NotisThat("scan", on)
    BY <2>1 DEF NotisThat
  <2>4. PowerNoti(on) \notin NotisOf("scan") /\ ScanNoti(on) \notin NotisOf("power")
    BY <2>1, <2>2 DEF NotisOf
  <2>5. /\ \A x : PowerNoti(on) \notin NotisThat("scan", x)
        /\ \A x : ScanNoti(on) \notin NotisThat("power", x)
    <3>1. ASSUME NEW x, PowerNoti(on) \in NotisThat("scan", x)
          PROVE  FALSE
      <4>1. \E y : PowerNoti(on).cmd = NotiCmd("scan", y)
        BY <1>5, <3>1
      <4>2. QED BY <2>1, <2>2, <4>1
    <3>2. ASSUME NEW x, ScanNoti(on) \in NotisThat("power", x)
          PROVE  FALSE
      <4>1. \E y : ScanNoti(on).cmd = NotiCmd("power", y)
        BY <1>5, <3>2
      <4>2. QED BY <2>1, <2>2, <4>1
    <3>3. QED BY <3>1, <3>2
  <2>6. QED BY <2>3, <2>4, <2>5
<1>7. ASSUME NEW s \in Switches, NEW ok \in BOOLEAN,
             NEW cmd \in {"PAIR", "FOUND", "PROPERTY_CHANGE", "REQUEST_CONFIRMATION"}
      PROVE  Noti(cmd, ok) \notin NotisOf(s) /\ \A on : Noti(cmd, ok) \notin NotisThat(s, on)
  <2>1. Noti(cmd, ok).cmd \notin {"POWER_ON", "POWER_OFF", "START_SCAN", "STOP_SCAN"}
    BY <1>4
  <2>2. Noti(cmd, ok) \notin NotisOf(s)
    BY <1>3, <2>1 DEF NotisOf
  <2>3. QED BY <1>3, <1>5, <2>1, <2>2
<1>8. QED BY <1>6, <1>7

\* What HardwareHandler makes of a notification.
LEMMA CoreShows ==
  ASSUME CoreStep, NEW s \in Switches, NEW on \in BOOLEAN
  PROVE  /\ Head(toCore) \in NotisThat(s, on) => Shows(s, on)'
         /\ Head(toCore) \notin NotisOf(s) /\ Head(toCore) \in Notis => (Shows(s, on) => Shows(s, on)')
<1> DEFINE h == Head(toCore)
<1>1. s \in {"power", "scan"} /\ on \in {TRUE, FALSE}
  BY DEF Switches
<1>2. /\ h = Noti("POWER_ON", TRUE) \/ h = Noti("POWER_OFF", FALSE) => powerState' = "ON"
      /\ h = Noti("POWER_OFF", TRUE) \/ h = Noti("POWER_ON", FALSE) => powerState' = "OFF"
      /\ h.cmd \notin {"POWER_ON", "POWER_OFF"} => powerState' = powerState
      /\ h = Noti("START_SCAN", TRUE) \/ h = Noti("STOP_SCAN", FALSE) => scanState' = "SCANNING"
      /\ h = Noti("STOP_SCAN", TRUE) \/ h = Noti("START_SCAN", FALSE) => scanState' = "IDLE"
      /\ h.cmd \notin {"START_SCAN", "STOP_SCAN"} => scanState' = scanState
  BY DEF CoreStep, StartScanBTDeviceNOTI, StopScanBTDeviceNOTI, BluetoothPowerOnNOTI,
         BluetoothPowerOffNOTI, PairBTDeviceNOTI, ScanningBTDeviceFoundNOTI, ReceiveNoti, Noti, core,
         BtDevicePropertyChangeNOTI, BtDeviceRequestConfirmationNOTI
<1> HIDE DEF h
<1>3. /\ NotisThat("power", TRUE) = {Noti("POWER_ON", TRUE), Noti("POWER_OFF", FALSE)}
      /\ NotisThat("power", FALSE) = {Noti("POWER_OFF", TRUE), Noti("POWER_ON", FALSE)}
      /\ NotisThat("scan", TRUE) = {Noti("START_SCAN", TRUE), Noti("STOP_SCAN", FALSE)}
      /\ NotisThat("scan", FALSE) = {Noti("STOP_SCAN", TRUE), Noti("START_SCAN", FALSE)}
  BY DEF NotisThat, NotiCmd
<1>4. /\ h \in Notis /\ h \notin NotisOf("power") => h.cmd \notin {"POWER_ON", "POWER_OFF"}
      /\ h \in Notis /\ h \notin NotisOf("scan") => h.cmd \notin {"START_SCAN", "STOP_SCAN"}
  BY DEF NotisOf, NotiCmd
<1>5. /\ (Shows("power", TRUE) <=> powerState = "ON") /\ (Shows("power", FALSE) <=> powerState = "OFF")
      /\ (Shows("scan", TRUE) <=> scanState = "SCANNING") /\ (Shows("scan", FALSE) <=> scanState = "IDLE")
      /\ (Shows("power", TRUE)' <=> powerState' = "ON") /\ (Shows("power", FALSE)' <=> powerState' = "OFF")
      /\ (Shows("scan", TRUE)' <=> scanState' = "SCANNING") /\ (Shows("scan", FALSE)' <=> scanState' = "IDLE")
  BY DEF Shows
<1>6. /\ h \in NotisThat(s, on) => Shows(s, on)'
      /\ h \notin NotisOf(s) /\ h \in Notis => (Shows(s, on) => Shows(s, on)')
  <2>1. CASE s = "power"
    BY <1>1, <1>2, <1>3, <1>4, <1>5, <2>1
  <2>2. CASE s = "scan"
    BY <1>1, <1>2, <1>3, <1>4, <1>5, <2>2
  <2>3. QED BY <1>1, <2>1, <2>2
<1>7. QED BY <1>6 DEF h

-----------------------------------------------------------------------------
(* Every step keeps the last word true.                                    *)

\* Nothing is sent or read: it depends on the notifications and the requests.
LEMMA AgreedStays ==
  ASSUME NEW s \in Switches, Agreed(s), UNCHANGED <<socket, incoming, call, powered, discovering>>,
         Told(s) => Told(s)'
  PROVE  Agreed(s)'
<1>1. Truth(s)' = Truth(s)
  BY DEF Truth
<1>2. /\ SignalTells(s)' <=> SignalTells(s)
      /\ NoSignal(s)' <=> NoSignal(s)
      /\ AnswerTells(s)' <=> AnswerTells(s)
      /\ NoAnswer(s)' <=> NoAnswer(s)
  BY <1>1 DEF SignalTells, NoSignal, AnswerTells, NoAnswer
<1>3. QED BY <1>2, Zenon DEF Agreed

\* So it does if toCore stays and no request is forgotten.
LEMMA ToldStays ==
  ASSUME NEW s \in Switches, UNCHANGED <<toCore, powered, discovering>>,
         Settled(s) => Settled(s)'
  PROVE  Told(s) => Told(s)'
<1>1. Truth(s)' = Truth(s)
  BY DEF Truth
<1>2. QED BY <1>1, Zenon DEF Told

\* A request adds to what is pending.
LEMMA Requested ==
  ASSUME Types, NEW cmd \in BluezCalls \cup {"Accept", "Reject"},
         toHardware' = Append(toHardware, cmd), UNCHANGED <<mainWorker, call>>
  PROVE  Pending(cmd)' /\ \A c : Pending(c) => Pending(c)'
<1>1. /\ Len(toHardware) \in Nat /\ Len(toHardware') = Len(toHardware) + 1
      /\ \A i \in 1 .. Len(toHardware) : toHardware'[i] = toHardware[i]
      /\ toHardware'[Len(toHardware) + 1] = cmd
  <2>1. toHardware \in Seq(BluezCalls \cup {"Accept", "Reject"})
    BY DEF Types, TypeOK
  <2>2. QED BY <2>1, AppendProperties, LenProperties
<1>2. /\ \A i \in 1 .. Len(toHardware) : i \in 1 .. Len(toHardware')
      /\ Len(toHardware) + 1 \in 1 .. Len(toHardware')
  BY <1>1
<1>3. \E i \in 1 .. Len(toHardware') : toHardware'[i] = cmd
  BY <1>1, <1>2
<1>4. ASSUME NEW c, Pending(c)
      PROVE  Pending(c)'
  BY <1>1, <1>2, <1>4 DEF Pending
<1>5. QED BY <1>3, <1>4 DEF Pending

LEMMA AgreedClient ==
  ASSUME Types, NEW s \in Switches, Agreed(s), Client
  PROVE  Agreed(s)'
<1>1. PICK cmd \in BluezCalls \cup {"Accept", "Reject"} : Send(cmd)
  BY DEF Client, StartScanBTDevice, StopScanBTDevice, BluetoothPowerOn, BluetoothPowerOff, PairBTDevice,
         Join, AnswerConfirmation, BluezCalls
<1>2. /\ toHardware' = Append(toHardware, cmd)
      /\ UNCHANGED <<toCore, mainWorker, call, socket, incoming, powered, discovering>>
  BY <1>1 DEF Send, connection, bluez
<1>3. \A c : Pending(c) => Pending(c)'
  BY <1>2, Requested
<1>4. Truth(s)' = Truth(s) /\ Truth(s) \in BOOLEAN
  BY <1>2, Truths DEF Truth, Types
<1>5. ASSUME NEW on \in BOOLEAN, Shows(s, on)
      PROVE  Shows(s, on)' \/ Pending(Request(s, ~ on))'
  <2>1. /\ Request("power", TRUE) = "PowerOn" /\ Request("power", FALSE) = "PowerOff"
        /\ Request("scan", TRUE) = "StartDiscovery" /\ Request("scan", FALSE) = "StopDiscovery"
        /\ Shows("power", TRUE) <=> powerState = "ON"
        /\ Shows("power", FALSE) <=> powerState = "OFF"
        /\ Shows("scan", TRUE) <=> scanState = "SCANNING"
        /\ Shows("scan", FALSE) <=> scanState = "IDLE"
    BY DEF Request, Shows
  <2>2. UNCHANGED powerState => (Shows("power", on) => Shows("power", on)')
    BY DEF Shows
  <2>3. UNCHANGED scanState => (Shows("scan", on) => Shows("scan", on)')
    BY DEF Shows
  <2>4. ASSUME NEW c \in BluezCalls, Send(c)
        PROVE  Pending(c)'
    BY <2>4, Requested DEF Send
  <2>5. CASE s = "power"
    <3>1. CASE UNCHANGED powerState
      BY <1>5, <2>2, <2>5, <3>1
    <3>2. CASE BluetoothPowerOn
      <4>1. Send("PowerOn") /\ powerState = "OFF"
        BY <3>2 DEF BluetoothPowerOn
      <4>2. on = FALSE
        BY <1>5, <2>1, <2>5, <4>1
      <4>3. QED BY <2>1, <2>4, <2>5, <4>1, <4>2 DEF BluezCalls
    <3>3. CASE BluetoothPowerOff
      <4>1. Send("PowerOff") /\ powerState = "ON"
        BY <3>3 DEF BluetoothPowerOff
      <4>2. on = TRUE
        BY <1>5, <2>1, <2>5, <4>1
      <4>3. QED BY <2>1, <2>4, <2>5, <4>1, <4>2 DEF BluezCalls
    <3>4. QED
      BY <3>1, <3>2, <3>3 DEF Client, StartScanBTDevice, StopScanBTDevice, PairBTDevice, Join,
                              AnswerConfirmation, core
  <2>6. CASE s = "scan"
    <3>1. CASE UNCHANGED scanState
      BY <1>5, <2>3, <2>6, <3>1
    <3>2. CASE StartScanBTDevice
      <4>1. Send("StartDiscovery") /\ scanState = "IDLE"
        BY <3>2 DEF StartScanBTDevice
      <4>2. on = FALSE
        BY <1>5, <2>1, <2>6, <4>1
      <4>3. QED BY <2>1, <2>4, <2>6, <4>1, <4>2 DEF BluezCalls
    <3>3. CASE StopScanBTDevice
      <4>1. Send("StopDiscovery") /\ scanState = "SCANNING"
        BY <3>3 DEF StopScanBTDevice
      <4>2. on = TRUE
        BY <1>5, <2>1, <2>6, <4>1
      <4>3. QED BY <2>1, <2>4, <2>6, <4>1, <4>2 DEF BluezCalls
    <3>4. QED
      BY <3>1, <3>2, <3>3 DEF Client, BluetoothPowerOn, BluetoothPowerOff, PairBTDevice, Join,
                              AnswerConfirmation, core
  <2>7. QED BY <2>5, <2>6 DEF Switches
<1>6. Settled(s) => Settled(s)'
  <2>1. CASE Shows(s, Truth(s))
    <3>1. Shows(s, Truth(s))' \/ Pending(Request(s, ~ Truth(s)))'
      BY <1>4, <1>5, <2>1
    <3>2. QED BY <3>1 DEF Settled
  <2>2. CASE Pending(Request(s, ~ Truth(s)))
    BY <1>3, <1>4, <2>2, Zenon DEF Settled
  <2>3. QED BY <2>1, <2>2 DEF Settled
<1>7. QED BY <1>2, <1>6, AgreedStays, ToldStays

LEMMA AgreedCore ==
  ASSUME Types, NEW s \in Switches, Agreed(s), CoreStep
  PROVE  Agreed(s)'
<1> DEFINE h == Head(toCore)
           T == Truth(s)
<1>1. /\ toCore # <<>> /\ toCore' = Tail(toCore)
      /\ UNCHANGED <<toHardware, mainWorker, call, socket, incoming, powered, discovering>>
  BY DEF CoreStep, StartScanBTDeviceNOTI, StopScanBTDeviceNOTI, BluetoothPowerOnNOTI,
         BluetoothPowerOffNOTI, PairBTDeviceNOTI, ScanningBTDeviceFoundNOTI, ReceiveNoti, connection,
         bluez, BtDevicePropertyChangeNOTI, BtDeviceRequestConfirmationNOTI
<1>2. Truth(s)' = T /\ T \in BOOLEAN
  BY <1>1, Truths DEF Truth, Types
<1>3. toCore \in Seq(Notis)
  BY DEF Types, TypeOK
<1>4. /\ h \in Notis
      /\ Silent(toCore, NotisOf(s)) <=> h \notin NotisOf(s) /\ Silent(Tail(toCore), NotisOf(s))
      /\ EndsIn(toCore, NotisOf(s), NotisThat(s, T))
           <=> \/ EndsIn(Tail(toCore), NotisOf(s), NotisThat(s, T))
               \/ Silent(Tail(toCore), NotisOf(s)) /\ h \in NotisThat(s, T)
  BY <1>1, <1>3, WordHead
<1>5. /\ h \in NotisThat(s, T) => Shows(s, T)'
      /\ h \notin NotisOf(s) /\ h \in Notis => (Shows(s, T) => Shows(s, T)')
  BY <1>2, CoreShows
<1>6. Pending(Request(s, ~ T)) => Pending(Request(s, ~ T))'
  BY <1>1, <1>2 DEF Pending
<1> HIDE DEF h
<1>7. Told(s) => Told(s)'
  <2>1. CASE EndsIn(Tail(toCore), NotisOf(s), NotisThat(s, T))
    BY <1>1, <1>2, <2>1 DEF Told
  <2>2. CASE Silent(Tail(toCore), NotisOf(s)) /\ h \in NotisThat(s, T)
    <3>1. Shows(s, T)' /\ Silent(toCore', NotisOf(s))
      BY <1>1, <1>5, <2>2
    <3>2. QED BY <1>2, <3>1 DEF Told, Settled
  <2>3. CASE Silent(toCore, NotisOf(s)) /\ Settled(s)
    <3>1. Silent(toCore', NotisOf(s))
      BY <1>1, <1>4, <2>3
    <3>2. Shows(s, T)' \/ Pending(Request(s, ~ T))'
      BY <1>4, <1>5, <1>6, <2>3 DEF Settled
    <3>3. QED BY <1>2, <3>1, <3>2 DEF Told, Settled
  <2>4. QED BY <1>4, <2>1, <2>2, <2>3 DEF Told
<1>8. QED BY <1>1, <1>7, AgreedStays

\* While no reply is in the socket, the answers do not matter.
Heard(s) == SignalTells(s) \/ (NoSignal(s) /\ Told(s))

LEMMA Unanswered ==
  ASSUME NEW s \in Switches
  PROVE  /\ Types /\ NoReply(socket) => (Agreed(s) <=> Heard(s))
         /\ Types' /\ NoReply(socket)' => (Agreed(s)' <=> Heard(s)')
<1>1. ASSUME Types, NoReply(socket)
      PROVE  NoAnswer(s) /\ ~ AnswerTells(s)
  BY <1>1, NoReplyNoAnswer DEF NoAnswer, AnswerTells, Types, TypeOK
<1>2. ASSUME Types', NoReply(socket)'
      PROVE  NoAnswer(s)' /\ ~ AnswerTells(s)'
  BY <1>2, NoReplyNoAnswer DEF NoAnswer, AnswerTells, Types, TypeOK
<1>3. QED BY <1>1, <1>2, Zenon DEF Agreed, Heard

\* Whoever reads the socket moves the signals and not their order.
LEMMA SignalsRead ==
  ASSUME Types, NEW s \in Switches, UNCHANGED <<powered, discovering>>,
         NEW r \in Seq(Msgs), socket' = <<>>, incoming' = incoming \o r,
         Silent(socket, SignalsOf(s)) => Silent(r, SignalsOf(s)),
         EndsIn(socket, SignalsOf(s), SignalThat(s, Truth(s)))
           => EndsIn(r, SignalsOf(s), SignalThat(s, Truth(s)))
  PROVE  (SignalTells(s) => SignalTells(s)') /\ (NoSignal(s) => NoSignal(s)')
<1> DEFINE S == SignalsOf(s)
           W == SignalThat(s, Truth(s))
<1>1. incoming \in Seq(Msgs)
  BY DEF Types, TypeOK
<1>2. /\ Silent(incoming \o r, S) <=> Silent(incoming, S) /\ Silent(r, S)
      /\ EndsIn(incoming \o r, S, W) <=> EndsIn(r, S, W) \/ (Silent(r, S) /\ EndsIn(incoming, S, W))
  BY <1>1, WordJoined
<1>3. Silent(<<>>, S)
  BY WordSingle
<1>4. Truth(s)' = Truth(s)
  BY DEF Truth
<1>5. /\ SignalTells(s)' <=> EndsIn(socket', S, W) \/ (Silent(socket', S) /\ EndsIn(incoming', S, W))
      /\ NoSignal(s)' <=> Silent(socket', S) /\ Silent(incoming', S)
  BY <1>4 DEF SignalTells, NoSignal
<1>6. QED BY <1>2, <1>3, <1>5 DEF SignalTells, NoSignal

\* What is said about something else is not the last word; what says the truth is.
LEMMA ToldMore ==
  ASSUME Types, NEW s \in Switches, UNCHANGED <<powered, discovering>>,
         NEW n \in Notis, toCore' = Append(toCore, n)
  PROVE  /\ n \in NotisThat(s, Truth(s)) => Told(s)'
         /\ n \notin NotisOf(s) /\ (Settled(s) => Settled(s)') => (Told(s) => Told(s)')
<1>1. Truth(s)' = Truth(s)
  BY DEF Truth
<1>2. /\ Silent(toCore', NotisOf(s)) <=> Silent(toCore, NotisOf(s)) /\ n \notin NotisOf(s)
      /\ EndsIn(toCore', NotisOf(s), NotisThat(s, Truth(s)))
           <=> \/ n \in NotisThat(s, Truth(s))
               \/ n \notin NotisOf(s) /\ EndsIn(toCore, NotisOf(s), NotisThat(s, Truth(s)))
  <2>1. toCore \in Seq(Notis)
    BY DEF Types, TypeOK
  <2>2. QED BY <2>1, WordAppended
<1>3. Told(s)' <=> \/ EndsIn(toCore', NotisOf(s), NotisThat(s, Truth(s)))
                   \/ Silent(toCore', NotisOf(s)) /\ Settled(s)'
  BY <1>1 DEF Told
<1>4. QED BY <1>2, <1>3 DEF Told

\* The call that MainWorker takes is still pending, and those behind it.
LEMMA StillPending ==
  ASSUME Types, toHardware # <<>>, toHardware' = Tail(toHardware), mainWorker = "idle",
         NEW c, c = Head(toHardware) => mainWorker' = "called" /\ call' = c, Pending(c)
  PROVE  Pending(c)'
<1>1. PICK i \in 1 .. Len(toHardware) : toHardware[i] = c
  BY DEF Pending
<1>2. /\ toHardware[1] = Head(toHardware) /\ Len(Tail(toHardware)) = Len(toHardware) - 1
      /\ \A j \in 1 .. Len(Tail(toHardware)) : Tail(toHardware)[j] = toHardware[j + 1]
      /\ Len(toHardware) \in Nat
  <2>1. toHardware \in Seq(BluezCalls \cup {"Accept", "Reject"})
    BY DEF Types, TypeOK
  <2>2. QED BY <2>1, HeadTailProperties, LenProperties
<1>3. CASE i = 1
  BY <1>1, <1>2, <1>3 DEF Pending
<1>4. CASE i # 1
  <2>1. i - 1 \in 1 .. Len(Tail(toHardware)) /\ (i - 1) + 1 = i
    BY <1>2, <1>4
  <2>2. toHardware'[i - 1] = c
    BY <1>1, <1>2, <2>1
  <2>3. QED BY <2>1, <2>2 DEF Pending
<1>5. QED BY <1>3, <1>4

\* What HardwareHandler shows stays settled if the truth, what it shows and the pending requests stay.
LEMMA SettledStays ==
  ASSUME NEW s \in Switches, UNCHANGED <<powerState, scanState, powered, discovering>>,
         Pending(Request(s, ~ Truth(s))) => Pending(Request(s, ~ Truth(s)))'
  PROVE  Settled(s) => Settled(s)'
<1>1. Truth(s)' = Truth(s)
  BY DEF Truth
<1>2. Shows(s, Truth(s))' <=> Shows(s, Truth(s))
  BY <1>1 DEF Shows
<1>3. QED BY <1>2, Zenon DEF Settled

LEMMA Requests ==
  ASSUME NEW s \in Switches
  PROVE  \A on : Request(s, on) \in BluezCalls \ {"Pair", "GetManagedObjects"}
BY DEF Request, BluezCalls, Switches

LEMMA AgreedCall ==
  ASSUME Types, Types', NEW s \in Switches, Agreed(s),
         \/ \E cmd \in BluezCalls : CallBluez(cmd)
         \/ \E cmd \in {"Accept", "Reject"} : ConfirmRequest(cmd)
  PROVE  Agreed(s)'
<1>1. /\ mainWorker = "idle" /\ toHardware # <<>> /\ toHardware' = Tail(toHardware)
      /\ UNCHANGED <<powerState, scanState, toCore, incoming, powered, discovering>>
  BY DEF CallBluez, ConfirmRequest, Take, core, connection, bluez
<1>2. Truth(s)' = Truth(s)
  BY <1>1 DEF Truth
<1>3. NoReply(socket) /\ NoReply(socket)'
  <2>1. mainWorker' # "waiting"
    BY <1>1 DEF CallBluez, ConfirmRequest
  <2>2. QED BY <1>1, <2>1 DEF Types, Awaited
<1>4. Told(s) => Told(s)'
  <2>1. Head(toHardware) \in BluezCalls => mainWorker' = "called" /\ call' = Head(toHardware)
    BY DEF CallBluez, ConfirmRequest, Take, BluezCalls
  <2>2. ASSUME NEW c \in BluezCalls, Pending(c)
        PROVE  Pending(c)'
    BY <1>1, <2>1, <2>2, StillPending
  <2>3. Request(s, ~ Truth(s)) \in BluezCalls
    BY Requests
  <2>4. Settled(s) => Settled(s)'
    <3>1. Pending(Request(s, ~ Truth(s))) => Pending(Request(s, ~ Truth(s)))'
      BY <1>2, <2>2, <2>3
    <3>2. QED BY <1>1, <3>1, SettledStays
  <2>5. QED BY <1>1, <2>4, ToldStays
<1>5. (SignalTells(s) => SignalTells(s)') /\ (NoSignal(s) => NoSignal(s)')
  <2> DEFINE S == SignalsOf(s)
             W == SignalThat(s, Truth(s))
  <2>1. (Silent(socket, S) => Silent(socket', S)) /\ (EndsIn(socket, S, W) => EndsIn(socket', S, W))
    <3>1. CASE socket' = socket
      BY <3>1
    <3>2. CASE socket' = Append(socket, Msg("Paired", TRUE))
      <4>1. Msg("Paired", TRUE) \in Msgs /\ Msg("Paired", TRUE).kind # Kind(s) /\ socket \in Seq(Msgs)
        BY Said DEF Kind, Types, TypeOK
      <4>2. Msg("Paired", TRUE) \notin S /\ Msg("Paired", TRUE) \notin W
        BY <4>1, SignalsAside
      <4> DEFINE m == Msg("Paired", TRUE)
      <4> HIDE DEF m, S, W
      <4>3. m \in Msgs /\ socket \in Seq(Msgs) /\ m \notin S /\ m \notin W /\ socket' = Append(socket, m)
        BY <3>2, <4>1, <4>2 DEF m
      <4>4. /\ Silent(Append(socket, m), S) <=> Silent(socket, S) /\ m \notin S
            /\ EndsIn(Append(socket, m), S, W) <=> m \in W \/ (m \notin S /\ EndsIn(socket, S, W))
        BY <4>3, WordAppended
      <4>5. QED BY <4>3, <4>4
    <3>3. QED BY <3>1, <3>2, Zenon DEF CallBluez, ConfirmRequest, connection
  <2>2. /\ SignalTells(s)' <=> EndsIn(socket', S, W) \/ (Silent(socket', S) /\ EndsIn(incoming', S, W))
        /\ NoSignal(s)' <=> Silent(socket', S) /\ Silent(incoming', S)
    BY <1>2 DEF SignalTells, NoSignal
  <2> HIDE DEF S, W
  <2>3. /\ SignalTells(s) <=> EndsIn(socket, S, W) \/ (Silent(socket, S) /\ EndsIn(incoming, S, W))
        /\ NoSignal(s) <=> Silent(socket, S) /\ Silent(incoming, S)
    BY DEF SignalTells, NoSignal, S, W
  <2>4. QED BY <1>1, <2>1, <2>2, <2>3
<1>6. Heard(s)
  BY <1>3, Unanswered
<1>7. Heard(s)'
  BY <1>4, <1>5, <1>6, Zenon DEF Heard
<1>8. QED BY <1>3, <1>7, Unanswered

\* What MainWorker makes of an error.
LEMMA FailureWords ==
  ASSUME call \in BluezCalls, call # "GetManagedObjects", NEW s \in Switches, NEW on \in BOOLEAN
  PROVE  /\ call = Request(s, ~ on) => Noti(FailureNoti, FALSE) \in NotisThat(s, on)
         /\ call \notin {Request(s, TRUE), Request(s, FALSE)} => Noti(FailureNoti, FALSE) \notin NotisOf(s)
<1> DEFINE n == Noti(FailureNoti, FALSE)
<1>1. /\ call = "StartDiscovery" => n = Noti("START_SCAN", FALSE)
      /\ call = "StopDiscovery" => n = Noti("STOP_SCAN", FALSE)
      /\ call = "PowerOn" => n = Noti("POWER_ON", FALSE)
      /\ call = "PowerOff" => n = Noti("POWER_OFF", FALSE)
      /\ call = "Pair" => n = Noti("PAIR", FALSE)
  BY DEF FailureNoti
<1> HIDE DEF n
<1>2. /\ Request("power", TRUE) = "PowerOn" /\ Request("power", FALSE) = "PowerOff"
      /\ Request("scan", TRUE) = "StartDiscovery" /\ Request("scan", FALSE) = "StopDiscovery"
      /\ NotiCmd("power", TRUE) = "POWER_ON" /\ NotiCmd("power", FALSE) = "POWER_OFF"
      /\ NotiCmd("scan", TRUE) = "START_SCAN" /\ NotiCmd("scan", FALSE) = "STOP_SCAN"
  BY DEF Request, NotiCmd
<1>3. s \in {"power", "scan"} /\ on \in {TRUE, FALSE}
  BY DEF Switches
<1>4. ASSUME call = Request(s, ~ on)
      PROVE  n \in NotisThat(s, on)
  <2>1. n = Noti(NotiCmd(s, ~ on), FALSE)
    <3>1. CASE s = "power"
      BY <1>1, <1>2, <1>3, <1>4, <3>1
    <3>2. CASE s = "scan"
      BY <1>1, <1>2, <1>3, <1>4, <3>2
    <3>3. QED BY <1>3, <3>1, <3>2
  <2>2. QED BY <2>1 DEF NotisThat
<1>5. ASSUME call \notin {Request(s, TRUE), Request(s, FALSE)}
      PROVE  n \notin NotisOf(s)
  <2>1. \A cmd : Noti(cmd, FALSE).cmd = cmd
    BY DEF Noti
  <2>2. n.cmd \notin {NotiCmd(s, TRUE), NotiCmd(s, FALSE)}
    <3>1. /\ call = "StartDiscovery" => n.cmd = "START_SCAN"
          /\ call = "StopDiscovery" => n.cmd = "STOP_SCAN"
          /\ call = "PowerOn" => n.cmd = "POWER_ON"
          /\ call = "PowerOff" => n.cmd = "POWER_OFF"
          /\ call = "Pair" => n.cmd = "PAIR"
      BY <1>1, <2>1, Zenon
    <3>2. call \in {"StartDiscovery", "StopDiscovery", "PowerOn", "PowerOff", "Pair"}
      BY DEF BluezCalls
    <3>3. CASE s = "power"
      BY <1>2, <1>5, <3>1, <3>2, <3>3
    <3>4. CASE s = "scan"
      BY <1>2, <1>5, <3>1, <3>2, <3>4
    <3>5. QED BY <1>3, <3>3, <3>4
  <2>3. QED BY <2>2 DEF NotisOf
<1>6. QED BY <1>4, <1>5 DEF n

\* A listing is the last word on both switches.
LEMMA ListingWords ==
  ASSUME Types, NEW s \in Switches, NEW o, o.powered \in BOOLEAN, o.discovering \in BOOLEAN,
         o.paired \in BOOLEAN, Listed(s, o) = Truth(s), Truth(s)' = Truth(s),
         toCore' = toCore \o <<PowerNoti(o.powered), ScanNoti(o.discovering), Noti("FOUND", o.paired)>>
  PROVE  Told(s)'
<1> DEFINE a == PowerNoti(o.powered)
           b == ScanNoti(o.discovering)
           c == Noti("FOUND", o.paired)
           S == NotisOf(s)
           W == NotisThat(s, Truth(s))
<1>1. a \in Notis /\ b \in Notis /\ c \in Notis
  BY Said
<1>2. c \notin S
  BY NotiWords
<1>3. (a \in W /\ b \notin S) \/ b \in W
  <2>1. CASE s = "power"
    BY <2>1, NotiWords DEF Listed
  <2>2. CASE s = "scan"
    BY <2>2, NotiWords DEF Listed
  <2>3. QED BY <2>1, <2>2 DEF Switches
<1>4. toCore' = toCore \o <<a, b, c>> /\ toCore \in Seq(Notis)
  BY DEF Types, TypeOK
<1> HIDE DEF a, b, c, S, W
<1>5. EndsIn(<<a, b, c>>, S, W)
  BY <1>2, <1>3 DEF EndsIn
<1>6. \A l, m, n \in Notis : <<l, m, n>> \in Seq(Notis)
  OBVIOUS
<1>7. <<a, b, c>> \in Seq(Notis)
  BY <1>1, <1>6
<1>8. EndsIn(toCore', S, W)
  <2> DEFINE l == <<a, b, c>>
  <2>1. l \in Seq(Notis) /\ EndsIn(l, S, W) /\ toCore' = toCore \o l
    BY <1>4, <1>5, <1>7
  <2> HIDE DEF l
  <2>2. EndsIn(toCore \o l, S, W) <=> EndsIn(l, S, W) \/ (Silent(l, S) /\ EndsIn(toCore, S, W))
    BY <1>4, <2>1, WordJoined
  <2>3. QED BY <2>1, <2>2
<1>9. QED BY <1>8 DEF Told, S, W

LEMMA AgreedRead ==
  ASSUME Types, Types', NEW s \in Switches, Agreed(s), ReadReply
  PROVE  Agreed(s)'
<1>1. PICK i \in 1 .. Len(socket) :
        /\ incoming' = incoming \o RemoveAt(socket, i)
        /\ \/ socket[i].kind = "Reply" /\ Return(socket[i].value)
           \/ socket[i].kind = "Objects" /\ List(socket[i].value)
  BY Zenon DEF ReadReply
<1> DEFINE m == socket[i]
           T == Truth(s)
           A == AnswersOf(s, call)
           V == AnswersThat(s, T, call)
<1>2. /\ mainWorker = "waiting" /\ socket' = <<>> /\ call \in BluezCalls /\ socket \in Seq(Msgs)
      /\ m \in Msgs
  BY DEF ReadReply, Types, TypeOK, Called
<1>3. Finish
  BY <1>1, Zenon DEF Return, List
<1>4. UNCHANGED <<powerState, scanState, powered, discovering, toHardware>> /\ mainWorker' = "idle"
  BY <1>3 DEF Finish, core, bluez
<1>5. Truth(s)' = T /\ T \in BOOLEAN
  BY <1>4, Truths DEF Truth, Types
<1>6. m.kind \in Replies
  BY <1>1 DEF Replies
<1>7. (SignalTells(s) => SignalTells(s)') /\ (NoSignal(s) => NoSignal(s)')
  <2> DEFINE r == RemoveAt(socket, i)
  <2>1. m \notin SignalThat(s, T)
    <3>1. m.kind # Kind(s)
      BY <1>6 DEF Replies, Kind
    <3>2. QED BY <3>1, SignalsAside
  <2>2. r \in Seq(Msgs)
    BY <1>2, Removed
  <2>3. /\ Silent(socket, SignalsOf(s)) => Silent(r, SignalsOf(s))
        /\ EndsIn(socket, SignalsOf(s), SignalThat(s, T)) => EndsIn(r, SignalsOf(s), SignalThat(s, T))
    BY <1>2, <2>1, WordRemoved
  <2> HIDE DEF r, T
  <2>4. incoming' = incoming \o r
    BY <1>1 DEF r
  <2>5. QED BY <1>2, <1>4, <2>2, <2>3, <2>4, SignalsRead DEF T
<1>8. AnswerTells(s) => m \in V
  <2>1. \A v \in V : v.kind \in Replies
    <3>1. Reply(FALSE).kind = "Reply"
      BY DEF Reply, Msg
    <3>2. QED BY <3>1 DEF AnswersThat, Replies
  <2>2. ASSUME NEW k \in 1 .. Len(socket), socket[k] \in V
        PROVE  m \in V
    <3>1. k = i
      BY <1>6, <2>1, <2>2 DEF Types, Awaited, OneReply
    <3>2. QED BY <2>2, <3>1
  <2>3. QED BY <2>2 DEF AnswerTells, EndsIn
<1>9. NoAnswer(s) => m \notin A
  BY DEF NoAnswer, Silent
<1>10. Told(s) /\ UNCHANGED toCore => Told(s)'
  <2>1. Settled(s) => Settled(s)'
    <3>1. \A c : Pending(c) => Pending(c)'
      BY <1>2, <1>4 DEF Pending
    <3>2. QED BY <1>4, <1>5, <3>1, SettledStays
  <2>2. QED BY <1>4, <2>1, ToldStays
<1>11. m \in V \/ (m \notin A /\ Told(s)) => Told(s)'
  <2>1. CASE m.kind = "Reply" /\ Return(m.value)
    <3>1. m = Reply(m.value) /\ m.value \in BOOLEAN
      BY <1>2, <2>1 DEF Msgs, Reply, Msg
    <3>2. call # "GetManagedObjects"
      BY <2>1 DEF Types, Awaited, Replying, Replies
    <3>3. CASE m.value = TRUE
      <4>1. UNCHANGED toCore
        BY <2>1, <3>3, Zenon DEF Return
      <4>2. m \notin V
        <5>1. Reply(FALSE).value = FALSE
          BY DEF Reply, Msg
        <5>2. m # Reply(FALSE)
          BY <3>3, <5>1
        <5>3. QED BY <2>1, <5>2 DEF AnswersThat
      <4>3. QED BY <1>10, <4>1, <4>2
    <3>4. CASE m.value = FALSE
      <4> DEFINE n == Noti(FailureNoti, FALSE)
      <4>1. m = Reply(FALSE)
        BY <3>1, <3>4
      <4>2. n \in Notis /\ toCore' = Append(toCore, n)
        <5>1. n \in Notis
          BY <1>2, <3>2, FailureNotis
        <5>2. QED BY <2>1, <3>4, <5>1, Zenon DEF Return
      <4>3. /\ m \in V => call = Request(s, ~ T)
            /\ m \notin A => call \notin {Request(s, TRUE), Request(s, FALSE)}
        BY <1>2, <2>1, <4>1 DEF AnswersThat, AnswersOf
      <4>4. (m \in V => n \in NotisThat(s, T)) /\ (m \notin A => n \notin NotisOf(s))
        BY <1>2, <1>5, <3>2, <4>3, FailureWords
      <4>5. Settled(s) => Settled(s)'
        <5>1. \A c : Pending(c) => Pending(c)'
          BY <1>2, <1>4 DEF Pending
        <5>2. QED BY <1>4, <1>5, <5>1, SettledStays
      <4> HIDE DEF n, A, V, m
      <4>6. /\ n \in NotisThat(s, T) => Told(s)'
            /\ n \notin NotisOf(s) => (Told(s) => Told(s)')
        BY <1>4, <4>2, <4>5, ToldMore
      <4>7. QED BY <4>4, <4>6
    <3>5. QED BY <3>1, <3>3, <3>4
  <2>2. CASE m.kind = "Objects" /\ List(m.value)
    <3>1. m \in A
      BY <1>2, <2>2 DEF AnswersOf
    <3>2. ASSUME m \in V
          PROVE  Told(s)'
      <4>1. Listed(s, m.value) = T
        <5>1. m # Reply(FALSE)
          BY <2>2 DEF Reply, Msg
        <5>2. QED BY <3>2, <5>1 DEF AnswersThat
      <4>2. m.value.powered \in BOOLEAN /\ m.value.discovering \in BOOLEAN /\ m.value.paired \in BOOLEAN
        BY <1>2, <2>2, Said
      <4>3. toCore' = toCore \o <<PowerNoti(m.value.powered), ScanNoti(m.value.discovering),
                                  Noti("FOUND", m.value.paired)>>
        BY <2>2, Zenon DEF List
      <4> DEFINE o == m.value
      <4>4. /\ Listed(s, o) = Truth(s) /\ Truth(s)' = Truth(s)
            /\ o.powered \in BOOLEAN /\ o.discovering \in BOOLEAN /\ o.paired \in BOOLEAN
            /\ toCore' = toCore \o <<PowerNoti(o.powered), ScanNoti(o.discovering), Noti("FOUND", o.paired)>>
        BY <1>5, <4>1, <4>2, <4>3, Zenon
      <4> HIDE DEF o, m
      <4>5. QED BY <4>4, ListingWords
    <3>3. QED BY <3>1, <3>2
  <2>3. QED BY <1>1, <2>1, <2>2
<1> HIDE DEF m, A, V
<1>12. Heard(s)'
  BY <1>7, <1>8, <1>9, <1>11, Zenon DEF Agreed, Heard
<1>13. NoReply(socket)'
  BY <1>2 DEF NoReply
<1>14. QED BY <1>12, <1>13, Unanswered

LEMMA AgreedOther ==
  ASSUME Types, Types', NEW s \in Switches, Agreed(s), ReadOther \/ PairTimesOut
  PROVE  Agreed(s)'
<1>1. /\ mainWorker = "waiting" /\ NoReply(socket)
      /\ UNCHANGED <<powerState, scanState, powered, discovering, toHardware>>
  BY DEF ReadOther, PairTimesOut, Return, Finish, core, channels, bluez
<1>2. Truth(s)' = Truth(s) /\ socket \in Seq(Msgs) /\ incoming \in Seq(Msgs)
  BY <1>1 DEF Truth, Types, TypeOK
<1>3. Settled(s) => Settled(s)'
  <2>1. \A c : Pending(c) => Pending(c)'
    BY <1>1 DEF Pending
  <2>2. QED BY <1>1, <1>2, <2>1, SettledStays
<1>4. Heard(s)
  BY <1>1, Unanswered
<1>5. CASE ReadOther
  <2>1. socket' = <<>> /\ incoming' = incoming \o socket /\ UNCHANGED toCore
    BY <1>5 DEF ReadOther, channels
  <2>2. (SignalTells(s) => SignalTells(s)') /\ (NoSignal(s) => NoSignal(s)')
    BY <1>1, <1>2, <2>1, SignalsRead
  <2>3. Told(s) => Told(s)'
    BY <1>1, <1>3, <2>1, ToldStays
  <2>4. Heard(s)' /\ NoReply(socket)'
    BY <1>4, <2>1, <2>2, <2>3 DEF Heard, NoReply
  <2>5. QED BY <2>4, Unanswered
<1>6. CASE PairTimesOut
  <2>1. call = "Pair" /\ Return(FALSE) /\ UNCHANGED <<socket, incoming>>
    BY <1>6 DEF PairTimesOut, connection
  <2>2. toCore' = Append(toCore, Noti("PAIR", FALSE))
    BY <2>1, Zenon DEF Return, FailureNoti
  <2>3. Noti("PAIR", FALSE) \in Notis /\ Noti("PAIR", FALSE) \notin NotisOf(s)
    BY Said, NotiWords
  <2>4. Told(s) => Told(s)'
    BY <1>1, <1>3, <2>2, <2>3, ToldMore
  <2>5. (SignalTells(s) => SignalTells(s)') /\ (NoSignal(s) => NoSignal(s)')
    BY <1>2, <2>1 DEF SignalTells, NoSignal
  <2>6. Heard(s)' /\ NoReply(socket)'
    <3>1. Heard(s)'
      BY <1>4, <2>4, <2>5, Zenon DEF Heard
    <3>2. QED BY <1>1, <2>1, <3>1 DEF NoReply
  <2>7. QED BY <2>6, Unanswered
<1>7. QED BY <1>5, <1>6

\* What BlueZ sends: a signal of the truth, an answer that tells it, or something else.
LEMMA Sent ==
  ASSUME Types, NEW s \in Switches, Agreed(s), NEW x \in Seq(Msgs), socket' = socket \o x,
         UNCHANGED <<incoming, call>>
  PROVE  /\ EndsIn(x, SignalsOf(s), SignalThat(s, Truth(s)')) => Agreed(s)'
         /\ /\ Truth(s)' = Truth(s) /\ Silent(x, SignalsOf(s))
            /\ EndsIn(x, AnswersOf(s, call), AnswersThat(s, Truth(s), call))
            => Agreed(s)'
         /\ /\ Truth(s)' = Truth(s) /\ Silent(x, SignalsOf(s)) /\ Silent(x, AnswersOf(s, call))
            /\ Told(s) => Told(s)'
            => Agreed(s)'
<1>1. socket \in Seq(Msgs)
  BY DEF Types, TypeOK
<1>2. ASSUME EndsIn(x, SignalsOf(s), SignalThat(s, Truth(s)'))
      PROVE  Agreed(s)'
  <2>1. EndsIn(socket', SignalsOf(s), SignalThat(s, Truth(s)'))
    BY <1>1, <1>2, WordJoined
  <2>2. QED BY <2>1 DEF Agreed, SignalTells
<1>3. ASSUME Truth(s)' = Truth(s), Silent(x, SignalsOf(s))
      PROVE  (SignalTells(s) => SignalTells(s)') /\ (NoSignal(s) => NoSignal(s)')
  <2> DEFINE S == SignalsOf(s)
             W == SignalThat(s, Truth(s))
  <2>1. /\ Silent(socket \o x, S) <=> Silent(socket, S) /\ Silent(x, S)
        /\ EndsIn(socket \o x, S, W) <=> EndsIn(x, S, W) \/ (Silent(x, S) /\ EndsIn(socket, S, W))
    BY <1>1, WordJoined
  <2>2. /\ SignalTells(s)' <=> EndsIn(socket', S, W) \/ (Silent(socket', S) /\ EndsIn(incoming, S, W))
        /\ NoSignal(s)' <=> Silent(socket', S) /\ Silent(incoming, S)
    BY <1>3 DEF SignalTells, NoSignal
  <2>3. QED BY <1>3, <2>1, <2>2 DEF SignalTells, NoSignal
<1>4. ASSUME Truth(s)' = Truth(s), Silent(x, SignalsOf(s)),
             EndsIn(x, AnswersOf(s, call), AnswersThat(s, Truth(s), call))
      PROVE  Agreed(s)'
  <2>1. EndsIn(socket', AnswersOf(s, call), AnswersThat(s, Truth(s), call))
    BY <1>1, <1>4, WordJoined
  <2>2. AnswerTells(s)'
    BY <1>4, <2>1 DEF AnswerTells
  <2>3. (SignalTells(s) => SignalTells(s)') /\ (NoSignal(s) => NoSignal(s)')
    BY <1>3, <1>4
  <2>4. QED BY <2>2, <2>3, Zenon DEF Agreed
<1>5. ASSUME Truth(s)' = Truth(s), Silent(x, SignalsOf(s)), Silent(x, AnswersOf(s, call)),
             Told(s) => Told(s)'
      PROVE  Agreed(s)'
  <2> DEFINE A == AnswersOf(s, call)
             V == AnswersThat(s, Truth(s), call)
  <2>1. /\ Silent(socket \o x, A) <=> Silent(socket, A) /\ Silent(x, A)
        /\ EndsIn(socket \o x, A, V) <=> EndsIn(x, A, V) \/ (Silent(x, A) /\ EndsIn(socket, A, V))
    BY <1>1, WordJoined
  <2>2. (AnswerTells(s)' <=> EndsIn(socket', A, V)) /\ (NoAnswer(s)' <=> Silent(socket', A))
    BY <1>5 DEF AnswerTells, NoAnswer
  <2>3. (AnswerTells(s) => AnswerTells(s)') /\ (NoAnswer(s) => NoAnswer(s)')
    BY <1>5, <2>1, <2>2 DEF AnswerTells, NoAnswer
  <2>4. (SignalTells(s) => SignalTells(s)') /\ (NoSignal(s) => NoSignal(s)')
    BY <1>3, <1>5
  <2>5. QED BY <1>5, <2>3, <2>4, Zenon DEF Agreed
<1>6. QED BY <1>2, <1>4, <1>5

\* BlueZ serves a call that is not to make the switch the other way, and says nothing of the switch.
LEMMA ServedAside ==
  ASSUME Types, NEW s \in Switches, Agreed(s), NEW x \in Seq(Msgs), socket' = socket \o x,
         NEW cmd, Serve(cmd), Truth(s)' = Truth(s),
         cmd # Request(s, ~ Truth(s)), Silent(x, SignalsOf(s)), Silent(x, AnswersOf(s, call))
  PROVE  Agreed(s)'
<1>1. /\ call = cmd /\ UNCHANGED <<powerState, scanState, toHardware, toCore, call, incoming>>
  BY DEF Serve, core, channels
<1>2. Truth(s)' = Truth(s)
  OBVIOUS
<1>3. Pending(Request(s, ~ Truth(s))) => Pending(Request(s, ~ Truth(s)))'
  BY <1>1, <1>2 DEF Pending
<1>4. Shows(s, Truth(s))' <=> Shows(s, Truth(s))
  BY <1>1, <1>2 DEF Shows
<1>5. Settled(s) => Settled(s)'
  BY <1>3, <1>4, Zenon DEF Settled
<1>6. Told(s) => Told(s)'
  BY <1>1, <1>2, <1>5, Zenon DEF Told
<1>7. QED BY <1>1, <1>2, <1>6, Sent

\* The reply of a call that succeeded is no word, wherever it is among the signals.
LEMMA AnsweredWords ==
  ASSUME NEW sent \in Seq(Msgs), NoReply(sent), NEW x \in Seq(Msgs),
         x = sent \o <<Reply(TRUE)>> \/ x = <<Reply(TRUE)>> \o sent, NEW s, NEW on, NEW cmd
  PROVE  /\ Silent(x, AnswersOf(s, cmd))
         /\ Silent(sent, SignalsOf(s)) => Silent(x, SignalsOf(s))
         /\ EndsIn(sent, SignalsOf(s), SignalThat(s, on)) => EndsIn(x, SignalsOf(s), SignalThat(s, on))
<1> DEFINE m == Reply(TRUE)
           A == AnswersOf(s, cmd)
           S == SignalsOf(s)
           W == SignalThat(s, on)
<1>1. m \in Msgs /\ m.kind = "Reply" /\ m # Reply(FALSE)
  <2>1. m.value = TRUE /\ Reply(FALSE).value = FALSE
    BY DEF Reply, Msg
  <2>2. m # Reply(FALSE)
    BY <2>1
  <2>3. QED BY <2>2, Said DEF Reply
<1>2. m \notin A
  BY <1>1 DEF AnswersOf
<1>3. m \notin S
  <2>1. m.kind # Kind(s)
    BY <1>1 DEF Kind
  <2>2. QED BY <2>1, SignalsAside
<1>4. Silent(sent, A)
  BY NoReplyNoAnswer
<1> HIDE DEF m, A, S, W
<1> DEFINE r == <<m>>
<1>5. /\ r \in Seq(Msgs) /\ Silent(r, A) /\ Silent(r, S)
  <2>1. r \in Seq(Msgs)
    BY <1>1
  <2>2. QED BY <1>2, <1>3, <2>1, WordSingle
<1>6. x = sent \o r \/ x = r \o sent
  BY DEF m
<1> HIDE DEF r
<1>7. Silent(x, A)
  <2>1. Silent(sent \o r, A) /\ Silent(r \o sent, A)
    BY <1>4, <1>5, WordJoined
  <2>2. QED BY <1>6, <2>1
<1>8. Silent(sent, S) => Silent(x, S)
  <2>1. Silent(sent, S) => Silent(sent \o r, S) /\ Silent(r \o sent, S)
    BY <1>5, WordJoined
  <2>2. QED BY <1>6, <2>1
<1>9. EndsIn(sent, S, W) => EndsIn(x, S, W)
  <2>1. EndsIn(sent, S, W) => EndsIn(sent \o r, S, W) /\ EndsIn(r \o sent, S, W)
    BY <1>5, WordJoined
  <2>2. QED BY <1>6, <2>1
<1>10. QED BY <1>7, <1>8, <1>9 DEF A, S, W

\* The signals of a switched adapter.
LEMMA PowerWords ==
  ASSUME NEW on \in BOOLEAN
  PROVE  /\ EndsIn(PowerSignals(on), SignalsOf("power"), SignalThat("power", on))
         /\ discovering => EndsIn(PowerSignals(on), SignalsOf("scan"), SignalThat("scan", FALSE))
         /\ ~ discovering => Silent(PowerSignals(on), SignalsOf("scan"))
<1> DEFINE a == Msg("Powered", on)
           b == Msg("Discovering", FALSE)
<1>1. a \in Msgs /\ a.kind = "Powered" /\ b \in Msgs /\ b.kind = "Discovering"
  BY Said
<1>2. /\ a \in SignalThat("power", on) /\ b \in SignalThat("scan", FALSE)
  BY DEF SignalThat, Kind
<1>3. /\ a \notin SignalsOf("scan") /\ b \notin SignalsOf("power")
  BY <1>1 DEF SignalsOf, Kind
<1>4. /\ discovering => PowerSignals(on) = <<a>> \o <<b>>
      /\ ~ discovering => PowerSignals(on) = <<a>> \o <<>>
  BY Zenon DEF PowerSignals
<1> HIDE DEF a, b
<1> DEFINE p == <<a>>
           q == <<b>>
<1>5. /\ p \in Seq(Msgs) /\ q \in Seq(Msgs) /\ <<>> \in Seq(Msgs)
      /\ EndsIn(p, SignalsOf("power"), SignalThat("power", on)) /\ Silent(p, SignalsOf("scan"))
      /\ Silent(q, SignalsOf("power")) /\ EndsIn(q, SignalsOf("scan"), SignalThat("scan", FALSE))
      /\ \A S : Silent(<<>>, S)
  <2>1. p \in Seq(Msgs) /\ q \in Seq(Msgs) /\ <<>> \in Seq(Msgs)
    BY <1>1
  <2>2. EndsIn(p, SignalsOf("power"), SignalThat("power", on))
    BY <1>2, WordSingle
  <2>3. Silent(p, SignalsOf("scan"))
    BY <1>3, WordSingle
  <2>4. Silent(q, SignalsOf("power"))
    BY <1>3, WordSingle
  <2>5. EndsIn(q, SignalsOf("scan"), SignalThat("scan", FALSE))
    BY <1>2, WordSingle
  <2>6. \A S : Silent(<<>>, S)
    BY WordSingle
  <2>7. QED BY <2>1, <2>2, <2>3, <2>4, <2>5, <2>6
<1>6. /\ discovering => PowerSignals(on) = p \o q
      /\ ~ discovering => PowerSignals(on) = p \o <<>>
  BY <1>4
<1> HIDE DEF p, q
<1>7. /\ EndsIn(p \o q, SignalsOf("power"), SignalThat("power", on))
      /\ EndsIn(p \o q, SignalsOf("scan"), SignalThat("scan", FALSE))
      /\ EndsIn(p \o <<>>, SignalsOf("power"), SignalThat("power", on))
      /\ Silent(p \o <<>>, SignalsOf("scan"))
  BY <1>5, WordJoined
<1>8. CASE discovering
  BY <1>6, <1>7, <1>8
<1>9. CASE ~ discovering
  BY <1>6, <1>7, <1>9
<1>10. QED BY <1>8, <1>9

\* A refused call says that the switch is not what it was to be made.
LEMMA AgreedRefused ==
  ASSUME Types, NEW s \in Switches, Agreed(s), NEW cmd, Serve(cmd), cmd # "GetManagedObjects",
         socket' = Append(socket, Reply(FALSE)), UNCHANGED <<powered, discovering>>,
         cmd \in {Request(s, TRUE), Request(s, FALSE)} => cmd = Request(s, ~ Truth(s))
  PROVE  Agreed(s)'
<1> DEFINE m == Reply(FALSE)
           x == <<m>>
<1>1. call = cmd /\ UNCHANGED <<call, incoming>>
  BY DEF Serve
<1>2. m \in Msgs /\ m.kind = "Reply" /\ x \in Seq(Msgs)
  BY Said, Sends DEF Reply
<1>3. socket' = socket \o x
  BY <1>1, Refusal
<1>4. m \notin SignalsOf(s)
  <2>1. m.kind # Kind(s)
    BY <1>2 DEF Kind
  <2>2. QED BY <2>1, SignalsAside
<1>5. Truth(s)' = Truth(s)
  BY DEF Truth
<1>6. CASE cmd \in {Request(s, TRUE), Request(s, FALSE)}
  <2>1. m \in AnswersThat(s, Truth(s), call)
    BY <1>1, <1>2, <1>6 DEF AnswersThat
  <2> HIDE DEF m
  <2>2. Silent(x, SignalsOf(s)) /\ EndsIn(x, AnswersOf(s, call), AnswersThat(s, Truth(s), call))
    BY <1>4, <2>1, WordSingle
  <2> HIDE DEF x
  <2>3. QED BY <1>1, <1>2, <1>3, <1>5, <2>2, Sent
<1>7. CASE cmd \notin {Request(s, TRUE), Request(s, FALSE)}
  <2>1. m \notin AnswersOf(s, call)
    BY <1>1, <1>2, <1>7 DEF AnswersOf
  <2>2. cmd # Request(s, ~ Truth(s))
    <3>1. Truth(s) \in BOOLEAN
      BY Truths DEF Types
    <3>2. QED BY <1>7, <3>1
  <2> HIDE DEF m
  <2>3. Silent(x, SignalsOf(s)) /\ Silent(x, AnswersOf(s, call))
    BY <1>4, <2>1, WordSingle
  <2> HIDE DEF x
  <2>4. QED BY <1>2, <1>3, <1>5, <2>2, <2>3, ServedAside
<1>8. QED BY <1>6, <1>7

LEMMA RequestNames ==
  /\ Request("power", TRUE) = "PowerOn" /\ Request("power", FALSE) = "PowerOff"
  /\ Request("scan", TRUE) = "StartDiscovery" /\ Request("scan", FALSE) = "StopDiscovery"
  /\ \A on : Request("power", on) \in {"PowerOn", "PowerOff"}
  /\ \A on : Request("scan", on) \in {"StartDiscovery", "StopDiscovery"}
BY DEF Request

\* BlueZ serves a call and signals the new truth, or nothing about the switch.
LEMMA AgreedAnswers ==
  ASSUME Types, NEW s \in Switches, Agreed(s), NEW cmd, Serve(cmd), cmd # "GetManagedObjects",
         NEW sent \in Seq(Msgs), NoReply(sent), Answers(sent),
         \/ EndsIn(sent, SignalsOf(s), SignalThat(s, Truth(s)'))
         \/ Truth(s)' = Truth(s) /\ Silent(sent, SignalsOf(s)) /\ cmd # Request(s, ~ Truth(s))
  PROVE  Agreed(s)'
<1>1. call = cmd /\ UNCHANGED <<call, incoming>>
  BY DEF Serve
<1>2. PICK x \in Seq(Msgs) : /\ socket' = socket \o x
                             /\ x = sent \o <<Reply(TRUE)>> \/ x = <<Reply(TRUE)>> \o sent
  BY <1>1, AnswersSent
<1>3. CASE EndsIn(sent, SignalsOf(s), SignalThat(s, Truth(s)'))
  <2>1. EndsIn(x, SignalsOf(s), SignalThat(s, Truth(s)'))
    BY <1>2, <1>3, AnsweredWords
  <2>2. QED BY <1>1, <1>2, <2>1, Sent
<1>4. CASE Truth(s)' = Truth(s) /\ Silent(sent, SignalsOf(s)) /\ cmd # Request(s, ~ Truth(s))
  <2>1. Silent(x, SignalsOf(s)) /\ Silent(x, AnswersOf(s, call))
    BY <1>2, <1>4, AnsweredWords
  <2>2. QED BY <1>2, <1>4, <2>1, ServedAside
<1>5. QED BY <1>3, <1>4

\* A single signal.
LEMMA SignalWords ==
  ASSUME NEW on \in BOOLEAN
  PROVE  /\ EndsIn(<<Msg("Discovering", on)>>, SignalsOf("scan"), SignalThat("scan", on))
         /\ Silent(<<Msg("Discovering", on)>>, SignalsOf("power"))
         /\ \A s \in Switches, kind \in {"Paired", "RequestConfirmation"} :
               Silent(<<Msg(kind, on)>>, SignalsOf(s))
<1>1. /\ Msg("Discovering", on) \in SignalThat("scan", on)
      /\ Msg("Discovering", on) \notin SignalsOf("power")
  BY Said DEF SignalThat, SignalsOf, Kind
<1>2. \A s \in Switches, kind \in {"Paired", "RequestConfirmation"} : Msg(kind, on) \notin SignalsOf(s)
  BY Said DEF SignalsOf, Kind
<1>3. QED BY <1>1, <1>2, WordSingle

LEMMA AgreedPower ==
  ASSUME Types, NEW s \in Switches, Agreed(s), NEW on \in BOOLEAN, SetPower(on)
  PROVE  Agreed(s)'
<1> DEFINE cmd == IF on THEN "PowerOn" ELSE "PowerOff"
           sent == IF powered = on THEN <<>> ELSE PowerSignals(on)
<1>1. Serve(cmd) /\ cmd # "GetManagedObjects" /\ cmd = Request("power", on)
  BY DEF SetPower, Request
<1>2. /\ powered \in BOOLEAN /\ discovering \in BOOLEAN
      /\ Truth("power") = powered /\ Truth("scan") = discovering
      /\ Truth("power")' = powered' /\ Truth("scan")' = discovering'
  BY DEF Types, TypeOK, Truth
<1>3. cmd \notin {Request("scan", TRUE), Request("scan", FALSE)} /\ \A b : cmd # Request("scan", b)
  BY RequestNames
<1>4. sent \in Seq(Msgs) /\ NoReply(sent)
  BY Sends, PowerSignalsSent
<1>5. CASE powered # on /\ Refuse
  <2>1. socket' = Append(socket, Reply(FALSE)) /\ UNCHANGED <<powered, discovering>>
    BY <1>5 DEF Refuse, bluez
  <2>2. on = ~ powered
    BY <1>2, <1>5
  <2>3. cmd \in {Request(s, TRUE), Request(s, FALSE)} => cmd = Request(s, ~ Truth(s))
    <3>1. CASE s = "power"
      BY <1>1, <1>2, <2>2, <3>1, Zenon
    <3>2. CASE s = "scan"
      BY <1>3, <3>2
    <3>3. QED BY <3>1, <3>2 DEF Switches
  <2> HIDE DEF cmd
  <2>4. QED BY <1>1, <2>1, <2>3, AgreedRefused
<1>6. CASE powered' = on /\ discovering' = (discovering /\ powered = on) /\ Answers(sent)
  <2>1. \/ EndsIn(sent, SignalsOf(s), SignalThat(s, Truth(s)'))
        \/ Truth(s)' = Truth(s) /\ Silent(sent, SignalsOf(s)) /\ cmd # Request(s, ~ Truth(s))
    <3>1. CASE powered = on
      <4>1. sent = <<>> /\ powered' = powered /\ discovering' = discovering
        <5>1. discovering' = discovering
          BY <1>2, <1>6, <3>1
        <5>2. QED BY <1>6, <3>1, <5>1
      <4>2. Silent(sent, SignalsOf(s))
        <5>1. Silent(<<>>, SignalsOf(s))
          BY WordSingle
        <5>2. QED BY <4>1, <5>1
      <4>3. cmd # Request(s, ~ Truth(s))
        <5>1. CASE s = "power"
          <6>1. on = TRUE \/ on = FALSE
            OBVIOUS
          <6>2. Truth(s) = on
            BY <1>2, <3>1, <5>1
          <6>3. CASE on = TRUE
            BY <1>1, <5>1, <6>2, <6>3, RequestNames
          <6>4. CASE on = FALSE
            BY <1>1, <5>1, <6>2, <6>4, RequestNames
          <6>5. QED BY <6>1, <6>3, <6>4
        <5>2. CASE s = "scan"
          BY <1>3, <5>2
        <5>3. QED BY <5>1, <5>2 DEF Switches
      <4>4. Truth(s)' = Truth(s)
        BY <4>1 DEF Truth
      <4>5. QED BY <4>2, <4>3, <4>4
    <3>2. CASE powered # on
      <4>1. sent = PowerSignals(on) /\ powered' = on /\ discovering' = FALSE
        BY <1>6, <3>2, Zenon
      <4>2. CASE s = "power"
        <5>1. EndsIn(sent, SignalsOf("power"), SignalThat("power", on))
          BY <4>1, PowerWords
        <5>2. QED BY <1>2, <4>1, <4>2, <5>1
      <4>3. CASE s = "scan" /\ discovering
        <5>1. EndsIn(sent, SignalsOf("scan"), SignalThat("scan", FALSE))
          BY <4>1, <4>3, PowerWords
        <5>2. QED BY <1>2, <4>1, <4>3, <5>1
      <4>4. CASE s = "scan" /\ ~ discovering
        <5>1. Silent(sent, SignalsOf("scan"))
          BY <4>1, <4>4, PowerWords
        <5>2. Truth("scan")' = Truth("scan")
          BY <1>2, <4>1, <4>4
        <5>3. QED BY <1>3, <4>4, <5>1, <5>2
      <4>5. QED BY <4>2, <4>3, <4>4 DEF Switches
    <3>3. QED BY <3>1, <3>2
  <2> HIDE DEF cmd, sent
  <2>2. QED BY <1>1, <1>4, <1>6, <2>1, AgreedAnswers
<1>7. QED BY <1>5, <1>6, Zenon DEF SetPower

LEMMA AgreedDiscovery ==
  ASSUME Types, NEW s \in Switches, Agreed(s), ~ (s = "scan" /\ crossed'), StartDiscovery \/ StopDiscovery
  PROVE  Agreed(s)'
<1>1. PICK on \in BOOLEAN :
        /\ Serve(Request("scan", on))
        /\ \/ discovering = ~ on /\ Refuse
           \/ RefuseCrossed
           \/ discovering' = on /\ Answers(<<Msg("Discovering", on)>>) /\ UNCHANGED powered
  <2>1. discovering \in BOOLEAN
    BY DEF Types, TypeOK
  <2>2. CASE StartDiscovery
    <3>1. Serve(Request("scan", TRUE))
      BY <2>2, RequestNames DEF StartDiscovery
    <3>2. \/ discovering = FALSE /\ Refuse
          \/ RefuseCrossed
          \/ discovering' = TRUE /\ Answers(<<Msg("Discovering", TRUE)>>) /\ UNCHANGED powered
      BY <2>1, <2>2, Zenon DEF StartDiscovery
    <3>3. QED BY <3>1, <3>2
  <2>3. CASE StopDiscovery
    <3>1. Serve(Request("scan", FALSE))
      BY <2>3, RequestNames DEF StopDiscovery
    <3>2. \/ discovering = TRUE /\ Refuse
          \/ RefuseCrossed
          \/ discovering' = FALSE /\ Answers(<<Msg("Discovering", FALSE)>>) /\ UNCHANGED powered
      BY <2>1, <2>3, Zenon DEF StopDiscovery
    <3>3. QED BY <3>1, <3>2
  <2>4. QED BY <2>2, <2>3
<1> DEFINE cmd == Request("scan", on)
<1>2. cmd # "GetManagedObjects" /\ cmd \notin {Request("power", TRUE), Request("power", FALSE)}
      /\ \A b : cmd # Request("power", b)
  BY RequestNames
<1>3. /\ Truth("power") = powered /\ Truth("scan") = discovering
      /\ Truth("power")' = powered' /\ Truth("scan")' = discovering'
  BY DEF Truth
<1>4. CASE discovering = ~ on /\ Refuse
  <2>1. socket' = Append(socket, Reply(FALSE)) /\ UNCHANGED <<powered, discovering>>
    BY <1>4 DEF Refuse, bluez
  <2>2. cmd \in {Request(s, TRUE), Request(s, FALSE)} => cmd = Request(s, ~ Truth(s))
    <3>1. CASE s = "power"
      BY <1>2, <3>1
    <3>2. CASE s = "scan"
      <4>1. on = ~ discovering
        BY <1>4
      <4>2. QED BY <1>3, <3>2, <4>1, Zenon
    <3>3. QED BY <3>1, <3>2 DEF Switches
  <2> HIDE DEF cmd
  <2>3. Serve(cmd)
    BY <1>1 DEF cmd
  <2>4. QED BY <1>2, <2>1, <2>2, <2>3, AgreedRefused
<1>5. CASE RefuseCrossed
  <2>1. /\ crossed' = TRUE /\ socket' = Append(socket, Reply(FALSE)) /\ UNCHANGED <<powered, discovering>>
    BY <1>5 DEF RefuseCrossed, bluez
  <2>2. s = "power"
    BY <2>1 DEF Switches
  <2>3. Serve(cmd) /\ (cmd \in {Request(s, TRUE), Request(s, FALSE)} => cmd = Request(s, ~ Truth(s)))
    BY <1>1, <1>2, <2>2
  <2> HIDE DEF cmd
  <2>4. QED BY <1>2, <2>1, <2>3, AgreedRefused
<1>6. CASE discovering' = on /\ Answers(<<Msg("Discovering", on)>>) /\ UNCHANGED powered
  <2> DEFINE sent == <<Msg("Discovering", on)>>
  <2>1. sent \in Seq(Msgs) /\ NoReply(sent)
    BY Sends
  <2>2. \/ EndsIn(sent, SignalsOf(s), SignalThat(s, Truth(s)'))
        \/ Truth(s)' = Truth(s) /\ Silent(sent, SignalsOf(s)) /\ cmd # Request(s, ~ Truth(s))
    <3>1. CASE s = "power"
      BY <1>2, <1>3, <1>6, <3>1, SignalWords
    <3>2. CASE s = "scan"
      <4>1. EndsIn(sent, SignalsOf("scan"), SignalThat("scan", on))
        BY SignalWords
      <4>2. QED BY <1>3, <1>6, <3>2, <4>1
    <3>3. QED BY <3>1, <3>2 DEF Switches
  <2>3. Serve(cmd) /\ Answers(sent)
    BY <1>1, <1>6
  <2> HIDE DEF sent, cmd
  <2>4. QED BY <1>2, <2>1, <2>2, <2>3, AgreedAnswers
<1>7. QED BY <1>1, <1>4, <1>5, <1>6

LEMMA AgreedBluez ==
  ASSUME Types, NEW s \in Switches, Agreed(s), ~ (s = "scan" /\ crossed'), BluezStep
  PROVE  Agreed(s)'
<1>1. CASE Pair
  <2>1. Serve("Pair") /\ call = "Pair" /\ UNCHANGED <<call, incoming>>
    BY <1>1 DEF Pair, Serve
  <2>2. \A on : "Pair" # Request(s, on)
    BY Requests
  <2>3. CASE Refuse
    <3>1. socket' = Append(socket, Reply(FALSE)) /\ UNCHANGED <<powered, discovering>>
      BY <2>3 DEF Refuse, bluez
    <3>2. QED BY <2>1, <2>2, <3>1, AgreedRefused
  <2>4. CASE Answers(<<Msg("Paired", TRUE)>>) /\ UNCHANGED <<powered, discovering>>
    <3> DEFINE sent == <<Msg("Paired", TRUE)>>
    <3>1. sent \in Seq(Msgs) /\ NoReply(sent) /\ Silent(sent, SignalsOf(s))
      BY Sends, SignalWords
    <3>2. Answers(sent)
      BY <2>4
    <3>3. Truth(s)' = Truth(s)
      BY <2>4 DEF Truth
    <3> HIDE DEF sent
    <3>4. QED BY <2>1, <2>2, <3>1, <3>2, <3>3, AgreedAnswers
  <2>5. CASE socket' = Append(socket, Msg("RequestConfirmation", TRUE)) /\ UNCHANGED <<powered, discovering>>
    <3> DEFINE m == Msg("RequestConfirmation", TRUE)
               x == <<m>>
    <3>1. m \in Msgs /\ x \in Seq(Msgs) /\ NoReply(x) /\ Silent(x, SignalsOf(s))
      BY Said, Sends, SignalWords
    <3>2. socket' = Append(socket, m) /\ Truth(s)' = Truth(s)
      BY <2>5 DEF Truth
    <3> HIDE DEF m
    <3>3. socket' = socket \o x
      <4>1. socket \in Seq(Msgs)
        BY DEF Types, TypeOK
      <4>2. QED BY <3>1, <3>2, <4>1, AppendIsConcat
    <3> HIDE DEF x
    <3>4. Silent(x, AnswersOf(s, call))
      BY <3>1, NoReplyNoAnswer
    <3>5. QED BY <2>1, <2>2, <3>1, <3>2, <3>3, <3>4, ServedAside
  <2>6. QED BY <1>1, <2>3, <2>4, <2>5, Zenon DEF Pair
<1>2. CASE GetManagedObjects
  <2> DEFINE m == Msg("Objects", Objects)
             x == <<m>>
  <2>1. m \in Msgs /\ m.kind = "Objects" /\ m.value = Objects
    BY ObjectsSaid DEF Types, Msg
  <2>2. socket' = Append(socket, m) /\ UNCHANGED <<powered, discovering, incoming, call>>
    BY <1>2 DEF GetManagedObjects, Serve, bluez
  <2>3. m \in AnswersThat(s, Truth(s), call)
    <3>1. Listed(s, Objects) = Truth(s)
      BY DEF Listed, Truth, Objects
    <3>2. QED BY <2>1, <3>1 DEF AnswersThat
  <2>4. m \notin SignalsOf(s)
    <3>1. m.kind # Kind(s)
      BY <2>1 DEF Kind
    <3>2. QED BY <3>1, SignalsAside
  <2>5. Truth(s)' = Truth(s)
    BY <2>2 DEF Truth
  <2> HIDE DEF m
  <2>6. x \in Seq(Msgs) /\ socket' = socket \o x
    <3>1. socket \in Seq(Msgs)
      BY DEF Types, TypeOK
    <3>2. QED BY <2>1, <2>2, <3>1, AppendIsConcat
  <2>7. Silent(x, SignalsOf(s)) /\ EndsIn(x, AnswersOf(s, call), AnswersThat(s, Truth(s), call))
    BY <2>3, <2>4, WordSingle
  <2> HIDE DEF x
  <2>8. QED BY <2>2, <2>5, <2>6, <2>7, Sent
<1>3. QED BY <1>1, <1>2, AgreedPower, AgreedDiscovery DEF BluezStep

\* Somebody else switches the adapter, or a pairing ends.
LEMMA AgreedExternal ==
  ASSUME Types, NEW s \in Switches, Agreed(s), ExternalPower \/ PairingFails
  PROVE  Agreed(s)'
<1>1. UNCHANGED <<powerState, scanState, toHardware, toCore, mainWorker, call, incoming>>
  BY DEF ExternalPower, PairingFails, External, core, channels
<1>2. UNCHANGED Truth(s) => (Told(s) => Told(s)')
  <2>1. ASSUME UNCHANGED Truth(s)
        PROVE  Told(s) => Told(s)'
    <3>1. Pending(Request(s, ~ Truth(s)))' <=> Pending(Request(s, ~ Truth(s)))
      BY <1>1, <2>1 DEF Pending
    <3>2. Shows(s, Truth(s))' <=> Shows(s, Truth(s))
      BY <1>1, <2>1 DEF Shows
    <3>3. Settled(s)' <=> Settled(s)
      BY <3>1, <3>2, Zenon DEF Settled
    <3>4. QED BY <1>1, <2>1, <3>3, Zenon DEF Told
  <2>2. QED BY <2>1
<1>3. CASE ExternalPower
  <2> DEFINE on == ~ powered
             x == PowerSignals(on)
  <2>1. /\ powered' = on /\ discovering' = FALSE /\ socket' = socket \o x
    BY <1>3, Zenon DEF ExternalPower
  <2>2. on \in BOOLEAN /\ discovering \in BOOLEAN
    <3>1. powered \in BOOLEAN /\ discovering \in BOOLEAN
      BY DEF Types, TypeOK
    <3>2. QED BY <3>1, Zenon
  <2>3. /\ x \in Seq(Msgs) /\ NoReply(x)
        /\ EndsIn(x, SignalsOf("power"), SignalThat("power", on))
        /\ discovering => EndsIn(x, SignalsOf("scan"), SignalThat("scan", FALSE))
        /\ ~ discovering => Silent(x, SignalsOf("scan"))
    BY <2>2, PowerSignalsSent, PowerWords
  <2> HIDE DEF on, x
  <2>4. Truth("power")' = on /\ Truth("scan")' = FALSE /\ Truth("scan") = discovering
    BY <2>1 DEF Truth
  <2>5. CASE s = "power" \/ discovering
    <3>1. EndsIn(x, SignalsOf(s), SignalThat(s, Truth(s)'))
      BY <2>3, <2>4, <2>5 DEF Switches
    <3>2. QED BY <1>1, <2>1, <2>3, <3>1, Sent
  <2>6. CASE s = "scan" /\ ~ discovering
    <3>1. Truth(s)' = Truth(s) /\ Silent(x, SignalsOf(s))
      BY <2>2, <2>3, <2>4, <2>6
    <3>2. Silent(x, AnswersOf(s, call))
      BY <2>3, NoReplyNoAnswer
    <3>3. Told(s) => Told(s)'
      BY <1>2, <3>1
    <3>4. QED BY <1>1, <2>1, <2>3, <3>1, <3>2, <3>3, Sent
  <2>7. QED BY <2>5, <2>6 DEF Switches
<1>4. CASE PairingFails
  <2>1. UNCHANGED <<powered, discovering>>
    BY <1>4 DEF PairingFails
  <2>2. Truth(s)' = Truth(s)
    BY <2>1 DEF Truth
  <2>3. Told(s) => Told(s)'
    BY <1>2, <2>2
  <2>4. CASE socket' = socket
    BY <1>1, <2>1, <2>3, <2>4, AgreedStays
  <2>5. CASE socket' = Append(socket, Reply(FALSE)) /\ call = "Pair"
    <3> DEFINE m == Reply(FALSE)
               x == <<m>>
    <3>1. m.kind = "Reply" /\ m \in Msgs /\ x \in Seq(Msgs)
      BY Said, Sends DEF Reply
    <3>2. socket' = socket \o x
      BY <2>5, Refusal
    <3>3. m \notin SignalsOf(s)
      <4>1. m.kind # Kind(s)
        BY <3>1 DEF Kind
      <4>2. QED BY <4>1, SignalsAside
    <3>4. m \notin AnswersOf(s, call)
      <4>1. \A b : call # Request(s, b)
        BY <2>5, Requests
      <4>2. QED BY <3>1, <4>1 DEF AnswersOf
    <3> HIDE DEF m
    <3>5. Silent(x, SignalsOf(s)) /\ Silent(x, AnswersOf(s, call))
      BY <3>3, <3>4, WordSingle
    <3> HIDE DEF x
    <3>6. QED BY <1>1, <2>2, <2>3, <3>1, <3>2, <3>5, Sent
  <2>6. QED BY <1>4, <2>4, <2>5, Zenon DEF PairingFails
<1>5. QED BY <1>3, <1>4

\* The signal that is dispatched becomes a notification, in the order of the signals.
LEMMA AgreedDispatch ==
  ASSUME Types, Types', NEW s \in Switches, Agreed(s), NEW kind, NEW noti \in Notis, Dispatch(kind, noti),
         Head(incoming) \in SignalThat(s, Truth(s)) => noti \in NotisThat(s, Truth(s)),
         Head(incoming) \notin SignalsOf(s) => noti \notin NotisOf(s)
  PROVE  Agreed(s)'
<1> DEFINE T == Truth(s)
           S == SignalsOf(s)
           W == SignalThat(s, T)
           h == Head(incoming)
           t == Tail(incoming)
<1>1. /\ worker = "dispatching" /\ incoming # <<>> /\ toCore' = Append(toCore, noti)
      /\ UNCHANGED <<powerState, scanState, toHardware, mainWorker, call, powered, discovering>>
      /\ \/ incoming' = t /\ socket' = socket
         \/ incoming' = t \o socket /\ socket' = <<>>
  BY DEF Dispatch, core, bluez
<1>2. /\ incoming \in Seq(Msgs) /\ socket \in Seq(Msgs) /\ mainWorker = "idle"
  BY <1>1 DEF Types, TypeOK, Called
<1>3. NoReply(socket) /\ NoReply(socket)'
  <2>1. NoReply(socket)
    BY <1>2 DEF Types, Awaited
  <2>2. NoReply(<<>>)
    BY Sends
  <2>3. QED BY <1>1, <2>1, <2>2
<1>4. Truth(s)' = T
  BY <1>1 DEF Truth
<1>5. /\ t \in Seq(Msgs)
      /\ Silent(incoming, S) <=> h \notin S /\ Silent(t, S)
      /\ EndsIn(incoming, S, W) <=> EndsIn(t, S, W) \/ (Silent(t, S) /\ h \in W)
  BY <1>1, <1>2, WordHead
<1>6. /\ SignalTells(s)' <=> EndsIn(socket', S, W) \/ (Silent(socket', S) /\ EndsIn(incoming', S, W))
      /\ NoSignal(s)' <=> Silent(socket', S) /\ Silent(incoming', S)
      /\ SignalTells(s) <=> EndsIn(socket, S, W) \/ (Silent(socket, S) /\ EndsIn(incoming, S, W))
      /\ NoSignal(s) <=> Silent(socket, S) /\ Silent(incoming, S)
  BY <1>4 DEF SignalTells, NoSignal
<1>7. /\ noti \in NotisThat(s, T) => Told(s)'
      /\ noti \notin NotisOf(s) => (Told(s) => Told(s)')
  <2>1. Settled(s) => Settled(s)'
    <3>1. \A c : Pending(c) => Pending(c)'
      BY <1>1 DEF Pending
    <3>2. QED BY <1>1, <1>4, <3>1, SettledStays
  <2>2. QED BY <1>1, <2>1, ToldMore
<1> HIDE DEF T, S, W, h, t
<1>8. /\ EndsIn(socket, S, W) \/ (Silent(socket, S) /\ EndsIn(t, S, W)) => SignalTells(s)'
      /\ Silent(socket, S) /\ Silent(t, S) => NoSignal(s)'
  <2>1. CASE incoming' = t /\ socket' = socket
    BY <1>6, <2>1
  <2>2. CASE incoming' = t \o socket /\ socket' = <<>>
    <3>1. /\ Silent(t \o socket, S) <=> Silent(t, S) /\ Silent(socket, S)
          /\ EndsIn(t \o socket, S, W) <=> EndsIn(socket, S, W) \/ (Silent(socket, S) /\ EndsIn(t, S, W))
      BY <1>2, <1>5, WordJoined
    <3>2. Silent(<<>>, S)
      BY WordSingle
    <3>3. QED BY <1>6, <2>2, <3>1, <3>2
  <2>3. QED BY <1>1, <2>1, <2>2 DEF t
<1>9. Heard(s)
  BY <1>3, Unanswered
<1>10. (h \in W => noti \in NotisThat(s, T)) /\ (h \notin S => noti \notin NotisOf(s))
  BY DEF h, W, S, T
<1>11. Heard(s)'
  <2>1. CASE SignalTells(s)
    BY <1>5, <1>6, <1>7, <1>8, <1>10, <2>1, Zenon DEF Heard
  <2>2. CASE NoSignal(s) /\ Told(s)
    BY <1>5, <1>6, <1>7, <1>8, <1>10, <2>2, Zenon DEF Heard
  <2>3. QED BY <1>9, <2>1, <2>2 DEF Heard
<1>12. QED BY <1>3, <1>11, Unanswered

LEMMA AgreedWorker ==
  ASSUME Types, Types', NEW s \in Switches, Agreed(s), WorkerStep
  PROVE  Agreed(s)'
<1> DEFINE h == Head(incoming)
           T == Truth(s)
<1>1. /\ UNCHANGED <<powerState, scanState, toHardware, mainWorker, call, powered, discovering>>
      /\ Truth(s)' = T /\ T \in BOOLEAN
  <2>1. UNCHANGED <<powerState, scanState, toHardware, mainWorker, call, powered, discovering>>
    BY DEF WorkerStep, Poll, ReadWrite, Dispatched, PowerChanged, DiscoveringChanged, DeviceChanged,
           HandleRequestConfirmation, Dispatch, core, channels, bluez
  <2>2. QED BY <2>1, Truths DEF Truth, Types
<1>2. UNCHANGED toCore => (Told(s) => Told(s)')
  <2>1. Settled(s) => Settled(s)'
    <3>1. \A c : Pending(c) => Pending(c)'
      BY <1>1 DEF Pending
    <3>2. QED BY <1>1, <3>1, SettledStays
  <2>2. QED BY <1>1, <2>1, ToldStays
<1>3. CASE Poll \/ Dispatched
  <2>1. UNCHANGED <<toCore, socket, incoming>>
    BY <1>3 DEF Poll, Dispatched, channels, connection
  <2>2. QED BY <1>1, <1>2, <2>1, AgreedStays
<1>4. CASE ReadWrite
  <2>1. /\ socket' = <<>> /\ incoming' = incoming \o socket /\ UNCHANGED toCore /\ mainWorker = "idle"
        /\ socket \in Seq(Msgs)
    BY <1>4 DEF ReadWrite, channels, Types, TypeOK
  <2>2. NoReply(socket) /\ NoReply(socket)'
    BY <2>1 DEF Types, Awaited, NoReply
  <2>3. (SignalTells(s) => SignalTells(s)') /\ (NoSignal(s) => NoSignal(s)')
    BY <1>1, <2>1, SignalsRead
  <2>4. Heard(s)
    BY <2>2, Unanswered
  <2>5. Heard(s)'
    BY <1>2, <2>1, <2>3, <2>4 DEF Heard
  <2>6. QED BY <2>2, <2>5, Unanswered
<1>5. incoming # <<>> => h \in Msgs
  BY DEF Types, TypeOK
<1>6. /\ Kind("power") = "Powered" /\ Kind("scan") = "Discovering"
      /\ s \in {"power", "scan"}
  BY DEF Kind, Switches
<1>7. ASSUME NEW m \in SignalThat(s, T)
      PROVE  m.kind = Kind(s) /\ m.value = T
  <2>1. Kind(s) \in {"Powered", "Discovering"}
    BY <1>6
  <2>2. Msg(Kind(s), T).kind = Kind(s) /\ Msg(Kind(s), T).value = T
    BY <1>1, <2>1, Said
  <2>3. QED BY <2>2, Zenon DEF SignalThat
<1>8. CASE PowerChanged
  <2> DEFINE n == PowerNoti(h.value)
  <2>1. Dispatch("Powered", n) /\ incoming # <<>> /\ h.kind = "Powered"
    BY <1>8 DEF PowerChanged, Dispatch
  <2>2. h.value \in BOOLEAN /\ n \in Notis
    BY <1>5, <2>1, Said
  <2>3. (h \in SignalThat(s, T) => n \in NotisThat(s, T)) /\ (h \notin SignalsOf(s) => n \notin NotisOf(s))
    <3>1. CASE s = "power"
      <4>1. h \in SignalsOf(s)
        BY <1>5, <1>6, <2>1, <3>1 DEF SignalsOf
      <4>2. h \in SignalThat(s, T) => n = PowerNoti(T)
        BY <1>7
      <4>3. QED BY <1>1, <3>1, <4>1, <4>2, NotiWords
    <3>2. CASE s = "scan"
      <4>1. h \notin SignalThat(s, T)
        BY <1>6, <1>7, <2>1, <3>2
      <4>2. QED BY <2>2, <3>2, <4>1, NotiWords
    <3>3. QED BY <1>6, <3>1, <3>2
  <2> HIDE DEF n
  <2>4. QED BY <2>1, <2>2, <2>3, AgreedDispatch
<1>9. CASE DiscoveringChanged
  <2> DEFINE n == ScanNoti(h.value)
  <2>1. Dispatch("Discovering", n) /\ incoming # <<>> /\ h.kind = "Discovering"
    BY <1>9 DEF DiscoveringChanged, Dispatch
  <2>2. h.value \in BOOLEAN /\ n \in Notis
    BY <1>5, <2>1, Said
  <2>3. (h \in SignalThat(s, T) => n \in NotisThat(s, T)) /\ (h \notin SignalsOf(s) => n \notin NotisOf(s))
    <3>1. CASE s = "scan"
      <4>1. h \in SignalsOf(s)
        BY <1>5, <1>6, <2>1, <3>1 DEF SignalsOf
      <4>2. h \in SignalThat(s, T) => n = ScanNoti(T)
        BY <1>7
      <4>3. QED BY <1>1, <3>1, <4>1, <4>2, NotiWords
    <3>2. CASE s = "power"
      <4>1. h \notin SignalThat(s, T)
        BY <1>6, <1>7, <2>1, <3>2
      <4>2. QED BY <2>2, <3>2, <4>1, NotiWords
    <3>3. QED BY <1>6, <3>1, <3>2
  <2> HIDE DEF n
  <2>4. QED BY <2>1, <2>2, <2>3, AgreedDispatch
<1>10. ASSUME NEW kind, NEW noti \in Notis, Dispatch(kind, noti), kind \in {"Paired", "RequestConfirmation"},
              noti \notin NotisOf(s)
       PROVE  Agreed(s)'
  <2>1. h.kind = kind
    BY <1>10 DEF Dispatch
  <2>2. h \notin SignalThat(s, T)
    BY <1>6, <1>7, <1>10, <2>1
  <2>3. QED BY <1>10, <2>2, AgreedDispatch
<1>11. CASE DeviceChanged
  <2>1. paired \in BOOLEAN
    BY DEF Types, TypeOK
  <2>2. Noti("PROPERTY_CHANGE", paired) \in Notis /\ Noti("PROPERTY_CHANGE", paired) \notin NotisOf(s)
    BY <2>1, Said, NotiWords
  <2>3. QED BY <1>10, <1>11, <2>2 DEF DeviceChanged
<1>12. CASE HandleRequestConfirmation
  <2>1. Noti("REQUEST_CONFIRMATION", TRUE) \in Notis /\ Noti("REQUEST_CONFIRMATION", TRUE) \notin NotisOf(s)
    BY Said, NotiWords
  <2>2. QED BY <1>10, <1>12, <2>1 DEF HandleRequestConfirmation
<1>13. QED BY <1>3, <1>4, <1>8, <1>9, <1>11, <1>12 DEF WorkerStep

-----------------------------------------------------------------------------
(* HardwareHandler and the adapter.                                        *)

LastWords == Types /\ Agreed("power") /\ (~ crossed => Agreed("scan"))

\* parseManagedObjects has reported both when MainWorker starts.
LEMMA LastWordsInit == Init => LastWords
<1> SUFFICES ASSUME Init
             PROVE  LastWords
  OBVIOUS
<1>1. Types
  BY TypesInit
<1>2. powered \in BOOLEAN /\ discovering = FALSE
  BY DEF Init
<1> DEFINE a == PowerNoti(powered)
           b == ScanNoti(FALSE)
<1>3. toCore = <<a, b>>
  BY Zenon DEF Init
<1>4. /\ a \in NotisThat("power", powered) /\ b \notin NotisOf("power") /\ b \in NotisThat("scan", FALSE)
  BY <1>2, NotiWords
<1> HIDE DEF a, b
<1>5. /\ EndsIn(toCore, NotisOf("power"), NotisThat("power", powered))
      /\ EndsIn(toCore, NotisOf("scan"), NotisThat("scan", FALSE))
  <2>1. ASSUME NEW S, NEW W, b \in W \/ (a \in W /\ b \notin S)
        PROVE  EndsIn(<<a, b>>, S, W)
    BY <2>1 DEF EndsIn
  <2>2. /\ EndsIn(<<a, b>>, NotisOf("power"), NotisThat("power", powered))
        /\ EndsIn(<<a, b>>, NotisOf("scan"), NotisThat("scan", FALSE))
    BY <1>4, <2>1
  <2>3. QED BY <1>3, <2>2
<1>6. Truth("power") = powered /\ Truth("scan") = FALSE
  BY <1>2 DEF Truth
<1>7. Told("power") /\ Told("scan")
  BY <1>5, <1>6 DEF Told
<1>8. ASSUME NEW s \in Switches
      PROVE  NoSignal(s) /\ NoAnswer(s)
  <2>1. socket = <<>> /\ incoming = <<>>
    BY DEF Init
  <2>2. QED BY <2>1, WordSingle DEF NoSignal, NoAnswer
<1>9. Agreed("power") /\ Agreed("scan")
  BY <1>7, <1>8, Zenon DEF Agreed, Switches
<1>10. QED BY <1>1, <1>9 DEF LastWords

\* Who has crossed stays so.
LEMMA CrossedStays ==
  ASSUME Types, [Next]_vars, ~ crossed'
  PROVE  ~ crossed
<1>1. CASE \E on \in BOOLEAN : SetPower(on)
  BY <1>1 DEF SetPower, Refuse
<1>2. CASE StartDiscovery \/ StopDiscovery \/ Pair \/ GetManagedObjects
  BY <1>2 DEF StartDiscovery, StopDiscovery, Pair, GetManagedObjects, Refuse, RefuseCrossed
<1>3. CASE Client \/ CoreStep
  BY <1>3 DEF Client, StartScanBTDevice, StopScanBTDevice, BluetoothPowerOn, BluetoothPowerOff,
              PairBTDevice, Join, AnswerConfirmation, Send, CoreStep, StartScanBTDeviceNOTI,
              StopScanBTDeviceNOTI, BluetoothPowerOnNOTI, BluetoothPowerOffNOTI, PairBTDeviceNOTI,
              ScanningBTDeviceFoundNOTI, ReceiveNoti, BtDevicePropertyChangeNOTI,
              BtDeviceRequestConfirmationNOTI
<1>4. CASE MainWorkerStep
  <2>1. UNCHANGED crossed
    BY <1>4, Zenon DEF MainWorkerStep, CallBluez, ConfirmRequest, ReadReply, ReadOther, PairTimesOut,
                       Return, List, Finish
  <2>2. QED BY <2>1
<1>5. CASE WorkerStep \/ ExternalPower \/ PairingFails
  BY <1>5 DEF WorkerStep, Poll, ReadWrite, Dispatched, PowerChanged, DiscoveringChanged, DeviceChanged,
              HandleRequestConfirmation, Dispatch, ExternalPower, PairingFails, External
<1>6. CASE UNCHANGED vars
  BY <1>6 DEF vars
<1>7. QED BY <1>1, <1>2, <1>3, <1>4, <1>5, <1>6 DEF Next, BluezStep

LEMMA LastWordsStep == LastWords /\ [Next]_vars => LastWords'
<1> SUFFICES ASSUME LastWords, [Next]_vars
             PROVE  LastWords'
  OBVIOUS
<1>1. Types /\ Types'
  BY TypesStep DEF LastWords
<1>2. ASSUME NEW s \in Switches, Agreed(s), ~ (s = "scan" /\ crossed')
      PROVE  Agreed(s)'
  <2>1. CASE UNCHANGED vars
    <3>1. UNCHANGED <<powerState, scanState, toHardware, toCore, mainWorker, call, socket, incoming,
                      powered, discovering>>
      BY <2>1 DEF vars, core, channels, connection, bluez
    <3>2. \A c : Pending(c) => Pending(c)'
      BY <3>1 DEF Pending
    <3>3. Truth(s)' = Truth(s)
      BY <3>1 DEF Truth
    <3>4. Told(s) => Told(s)'
      BY <3>1, <3>2, <3>3, SettledStays, ToldStays
    <3>5. QED BY <1>2, <3>1, <3>4, AgreedStays
  <2>2. CASE MainWorkerStep
    BY <1>1, <1>2, <2>2, AgreedCall, AgreedRead, AgreedOther DEF MainWorkerStep
  <2>3. CASE Client \/ CoreStep \/ WorkerStep
    BY <1>1, <1>2, <2>3, AgreedClient, AgreedCore, AgreedWorker
  <2>4. CASE BluezStep \/ ExternalPower \/ PairingFails
    BY <1>1, <1>2, <2>4, AgreedBluez, AgreedExternal
  <2>5. QED BY <2>1, <2>2, <2>3, <2>4 DEF Next
<1>3. ~ crossed' => ~ crossed
  BY <1>1, CrossedStays
<1>4. QED BY <1>1, <1>2, <1>3 DEF LastWords, Switches

\* When nothing is on its way any more, HardwareHandler shows the power state that the adapter has,
\* and also whether it scans, unless a start and a stop have crossed: however many clients ask,
\* in whatever order the errors, the listings and the signals come, whatever others do meanwhile.
THEOREM AdapterIsShown == Spec => []AdapterAgrees
<1>1. LastWords => AdapterAgrees
  <2> SUFFICES ASSUME LastWords, Quiet
               PROVE  /\ powerState = IF powered THEN "ON" ELSE "OFF"
                      /\ ~ crossed => scanState = IF discovering THEN "SCANNING" ELSE "IDLE"
    BY DEF AdapterAgrees
  <2>1. ASSUME NEW s \in Switches, Agreed(s)
        PROVE  Shows(s, Truth(s))
    <3>1. /\ \A S, W : ~ EndsIn(<<>>, S, W)
          /\ toHardware = <<>> /\ toCore = <<>> /\ socket = <<>> /\ incoming = <<>> /\ mainWorker = "idle"
      BY WordSingle DEF Quiet
    <3>2. ~ SignalTells(s) /\ ~ AnswerTells(s)
      BY <3>1 DEF SignalTells, AnswerTells
    <3>3. Told(s)
      BY <2>1, <3>2, Zenon DEF Agreed
    <3>4. Settled(s)
      BY <3>1, <3>3 DEF Told
    <3>5. ~ Pending(Request(s, ~ Truth(s)))
      BY <3>1 DEF Pending
    <3>6. QED BY <3>4, <3>5, Zenon DEF Settled
  <2>2. Shows("power", Truth("power")) /\ (~ crossed => Shows("scan", Truth("scan")))
    BY <2>1 DEF LastWords, Switches
  <2>3. QED BY <2>2 DEF Shows, Truth
<1>2. QED BY <1>1, LastWordsInit, LastWordsStep, PTL DEF Spec

=============================================================================
