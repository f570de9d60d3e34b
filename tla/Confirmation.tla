---------------------------- MODULE Confirmation ----------------------------
(***************************************************************************)
(* The passkey confirmation of Bluetooth pairing, from BlueZ's question to *)
(* the answer it gets, across both daemons.                                *)
(*                                                                         *)
(* BluetoothAgent (hardware manager) parks BlueZ's RequestConfirmation in  *)
(* pendingConfirmations_ and notifies the core manager, whose              *)
(* HardwareHandler shows it to the clients and starts a 30 s Timer.  The   *)
(* client's answer, or the timer, becomes an ACCEPT or REJECT message back *)
(* to the agent, which replies to BlueZ.  A timer is known by its id,      *)
(* remembered per device in timerIdMap_, and ids are used again.           *)
(*                                                                         *)
(* All timers last 30 s, so they expire in the order they were started.    *)
(* Requests of a device are numbered; the numbers that messages, events    *)
(* and timers carry are history: the code has only the address.            *)
(***************************************************************************)
EXTENDS Integers, Sequences, SequencesExt

CONSTANTS Devices,     \* Bluetooth device addresses
          MaxAsks,     \* bound: confirmation requests of all devices together
          MaxAnswers,  \* bound: answers the clients give in a run
          MaxTimerId   \* INT32_MAX in createNewTimerId

ASSUME BoundsAreNat == MaxAsks \in Nat /\ MaxAnswers \in Nat
ASSUME TimerIdsSuffice == MaxTimerId \in Nat /\ MaxTimerId >= 3

VARIABLES
  pending,     \* agent: the request parked for each device, 0 for none
  toCore,      \* BTDEVICE_REQUEST_CONFIRMATION_NOTI on the bus
  eventList,   \* the core manager's event queue
  timerTable,  \* Timer::timerTableMap, in the order the timers were started
  nextTimerId, \* createNewTimerId's static counter
  expired,     \* Timer::expiredTimerElementList, not pushed yet
  timerIdMap,  \* HardwareHandler::timerIdMap_, 0 for no entry
  shown,       \* the prompt the clients show for each device, 0 for none
  toAgent,     \* ACCEPT and REJECT on their way to the agent
  asked,       \* history: requests BlueZ has made for each device
  answers,     \* history: answers the clients have given
  reply,       \* history: what became of every request
  decided,     \* history: the core manager's first decision on every request
  fired,       \* history: the requests whose timer has fired
  late         \* history: an answer was handled after the device's timer fired

agent == <<pending, asked, reply>>
history == <<decided, fired, late>>
timer == <<timerTable, nextTimerId, expired>>
vars  == <<agent, toCore, eventList, timer, timerIdMap, shown, toAgent,
           answers, history>>

Numbers  == 1 .. MaxAsks
TimerIds == 1 .. MaxTimerId - 1

Ev(type, d, nr)        == [type |-> type, dev |-> d, nr |-> nr]
TimerElement(id, d, nr) == [id |-> id, dev |-> d, nr |-> nr]
Decision(d, ok)         == [dev |-> d, ok |-> ok]

\* Earlier requests, all closed by now, may have used any ids.
Init ==
  /\ pending = [d \in Devices |-> 0]
  /\ toCore = <<>> /\ eventList = <<>> /\ toAgent = <<>>
  /\ timerTable = <<>> /\ nextTimerId \in TimerIds /\ expired = {}
  /\ timerIdMap = [d \in Devices |-> 0]
  /\ shown = [d \in Devices |-> 0]
  /\ asked = [d \in Devices |-> 0] /\ answers = 0
  /\ reply = [d \in Devices |-> [k \in Numbers |-> "unasked"]]
  /\ decided = [d \in Devices |-> [k \in Numbers |-> "nothing"]]
  /\ fired = {} /\ late = FALSE

-----------------------------------------------------------------------------
(* BluetoothAgent                                                          *)

\* handleRequestConfirmation: a request already parked for the device is
\* dropped without a reply.
HandleRequestConfirmation(d) ==
  LET nr == asked[d] + 1 IN
  /\ nr \in Numbers /\ FoldFunction(+, 0, asked) < MaxAsks
  /\ asked' = [asked EXCEPT ![d] = nr]
  /\ pending' = [pending EXCEPT ![d] = nr]
  /\ reply' = [reply EXCEPT ![d] =
                 [k \in Numbers |-> IF k = nr THEN "open"
                                    ELSE IF k = pending[d] THEN "dropped" ELSE @[k]]]
  /\ toCore' = Append(toCore, Ev("NOTI", d, nr))
  /\ UNCHANGED <<eventList, timer, timerIdMap, shown, toAgent, answers,
                 history>>

\* A confirmRequest that replies and leaves the request parked.
ConfirmRequestKeeps ==
  /\ toAgent # <<>>
  /\ LET m == Head(toAgent) IN
       /\ pending[m.dev] # 0
       /\ reply' = [reply EXCEPT ![m.dev][pending[m.dev]] =
                      IF m.ok THEN "accepted" ELSE "rejected"]
  /\ toAgent' = Tail(toAgent)
  /\ UNCHANGED <<pending, asked, toCore, eventList, timer, timerIdMap, shown,
                 answers, history>>

\* confirmRequest: whatever is parked for the address gets the reply.
ConfirmRequest ==
  /\ toAgent # <<>>
  /\ LET m == Head(toAgent) IN
       IF pending[m.dev] = 0
       THEN UNCHANGED <<pending, reply>>
       ELSE /\ pending' = [pending EXCEPT ![m.dev] = 0]
            /\ reply' = [reply EXCEPT ![m.dev][pending[m.dev]] =
                           IF m.ok THEN "accepted" ELSE "rejected"]
  /\ toAgent' = Tail(toAgent)
  /\ UNCHANGED <<asked, toCore, eventList, timer, timerIdMap, shown,
                 answers, history>>

\* BlueZ releases the agent: nothing parked will be answered.
HandleRelease ==
  /\ \E d \in Devices : pending[d] # 0
  /\ pending' = [d \in Devices |-> 0]
  /\ reply' = [d \in Devices |->
                 [k \in Numbers |-> IF k = pending[d] THEN "dropped" ELSE reply[d][k]]]
  /\ UNCHANGED <<asked, toCore, eventList, timer, timerIdMap, shown, toAgent, answers,
                 history>>

-----------------------------------------------------------------------------
(* Producers of the core manager's queue                                   *)

\* DBusReceiver::handleMessageNoti
ReceiveNoti ==
  /\ toCore # <<>>
  /\ eventList' = Append(eventList, Head(toCore))
  /\ toCore' = Tail(toCore)
  /\ UNCHANGED <<agent, timer, timerIdMap, shown, toAgent, answers,
                 history>>

Running(d) == \E i \in 1 .. Len(timerTable) : timerTable[i].dev = d

\* Some client answers the prompt it shows: nothing takes the prompt away, so
\* two clients may answer it, or one long after the timer has fired.
Answer(d, type) ==
  /\ shown[d] # 0 /\ answers < MaxAnswers
  /\ answers' = answers + 1
  /\ eventList' = Append(eventList, Ev(type, d, shown[d]))
  /\ UNCHANGED <<agent, toCore, timer, timerIdMap, shown, toAgent, history>>

\* excuteIfExpiredExistAndUpdateTimerElements moves what has expired out of the
\* table ...
ExpireTimers(n) ==
  /\ expired = {}
  /\ expired' = {timerTable[i] : i \in 1 .. n}
  /\ timerTable' = SubSeq(timerTable, n + 1, Len(timerTable))
  /\ fired' = fired \cup {<<timerTable[i].dev, timerTable[i].nr>> : i \in 1 .. n}
  /\ UNCHANGED <<agent, toCore, eventList, nextTimerId, timerIdMap, shown,
                 toAgent, answers, decided, late>>

\* ... and then, with timerMutex unlocked, pushes it in no particular order.
PushExpired(t) ==
  /\ expired' = expired \ {t}
  /\ eventList' = Append(eventList, Ev("TIMEOUT", t.dev, t.nr))
  /\ UNCHANGED <<agent, toCore, timerTable, nextTimerId, timerIdMap, shown,
                 toAgent, answers,
                 history>>

-----------------------------------------------------------------------------
(* Timer::startTimer and stopTimer, called by HardwareHandler              *)

InUse(id) == \E i \in 1 .. Len(timerTable) : timerTable[i].id = id

\* The n-th id from nextTimerId on, wrapping around before MaxTimerId.
IdAfter(n) == ((nextTimerId - 1 + n) % (MaxTimerId - 1)) + 1

\* A search that does not wrap around.
CreateNewTimerIdNoWrap ==
  nextTimerId + (CHOOSE n \in 0 .. MaxTimerId - 2 :
                   /\ ~ InUse(nextTimerId + n)
                   /\ \A m \in 0 .. n - 1 : InUse(nextTimerId + m))

\* createNewTimerId: the first free id; nextTimerId stays on it.
CreateNewTimerId ==
  IdAfter(CHOOSE n \in 0 .. MaxTimerId - 2 :
            /\ ~ InUse(IdAfter(n))
            /\ \A m \in 0 .. n - 1 : InUse(IdAfter(m)))

\* A timerTableMap with MaxTimerId - 1 entries gives -1 and no timer; insert
\* leaves an entry with the same id alone.
StartTimer(d, nr) ==
  IF Len(timerTable) >= MaxTimerId - 1
  THEN UNCHANGED <<timer, timerIdMap>>
  ELSE LET id == CreateNewTimerId IN
       /\ nextTimerId' = id
       /\ timerTable' = IF InUse(id) THEN timerTable
                        ELSE Append(timerTable, TimerElement(id, d, nr))
       /\ timerIdMap' = [timerIdMap EXCEPT ![d] = id]
       /\ UNCHANGED expired

\* stopTimer: the table is a map, so there is one timer with the id or none.
StopTimer(id) ==
  \/ \E i \in 1 .. Len(timerTable) :
       timerTable[i].id = id /\ timerTable' = RemoveAt(timerTable, i)
  \/ ~ InUse(id) /\ UNCHANGED timerTable

\* A removeTimerOnTimerIdMap that forgets to erase the entry.
RemoveTimerOnTimerIdMapKeeps(d) ==
  /\ StopTimer(timerIdMap[d])
  /\ UNCHANGED <<nextTimerId, expired, timerIdMap>>

\* removeTimerOnTimerIdMap stops whatever timer has the remembered id now.
RemoveTimerOnTimerIdMap(d) ==
  /\ StopTimer(timerIdMap[d])
  /\ timerIdMap' = [timerIdMap EXCEPT ![d] = 0]
  /\ UNCHANGED <<nextTimerId, expired>>

-----------------------------------------------------------------------------
(* HardwareHandler, run by the core manager's MainWorker                   *)

Handle(type) ==
  /\ eventList # <<>> /\ Head(eventList).type = type
  /\ eventList' = Tail(eventList)
  /\ UNCHANGED <<agent, toCore, answers>>

\* What the handlers tell the agent about the device of the event.
Decide(ok) ==
  LET e == Head(eventList) IN
  /\ toAgent' = Append(toAgent, Decision(e.dev, ok))
  /\ UNCHANGED fired
  /\ decided' = IF decided[e.dev][e.nr] # "nothing" THEN decided
                ELSE [decided EXCEPT ![e.dev][e.nr] =
                        IF ok THEN "accepted" ELSE "rejected"]

\* An answer for a device whose latest prompt has already timed out.
NoteLate ==
  LET d == Head(eventList).dev IN late' = (late \/ <<d, shown[d]>> \in fired)

BtDeviceRequestConfirmationNOTI ==
  /\ Handle("NOTI")
  /\ shown' = [shown EXCEPT ![Head(eventList).dev] = Head(eventList).nr]
  /\ StartTimer(Head(eventList).dev, Head(eventList).nr)
  /\ UNCHANGED <<toAgent, history>>

AcceptBTDeviceRequestConfirmation ==
  /\ Handle("ACCEPT") /\ Decide(TRUE) /\ NoteLate
  /\ RemoveTimerOnTimerIdMap(Head(eventList).dev)
  /\ UNCHANGED shown

RejectBTDeviceRequestConfirmation ==
  /\ Handle("REJECT") /\ Decide(FALSE) /\ NoteLate
  /\ RemoveTimerOnTimerIdMap(Head(eventList).dev)
  /\ UNCHANGED shown

\* The timerIdMap_ entry of the timer that has fired stays.
HandleBTDeviceRequestConfirmationTimeout ==
  /\ Handle("TIMEOUT") /\ Decide(FALSE)
  /\ UNCHANGED <<timer, timerIdMap, shown, late>>

-----------------------------------------------------------------------------
BlueZ == HandleRelease \/ \E d \in Devices : HandleRequestConfirmation(d)

Client == \E d \in Devices, type \in {"ACCEPT", "REJECT"} : Answer(d, type)

TimerStep == \/ \E n \in 1 .. Len(timerTable) : ExpireTimers(n)
             \/ \E t \in expired : PushExpired(t)

CoreStep == \/ BtDeviceRequestConfirmationNOTI
            \/ AcceptBTDeviceRequestConfirmation
            \/ RejectBTDeviceRequestConfirmation
            \/ HandleBTDeviceRequestConfirmationTimeout

Next == BlueZ \/ Client \/ ReceiveNoti \/ TimerStep \/ CoreStep \/ ConfirmRequest

\* Both daemons' threads are scheduled and time passes; neither BlueZ nor a
\* client has to do anything.
Fairness == /\ WF_vars(ReceiveNoti) /\ WF_vars(TimerStep)
            /\ WF_vars(CoreStep) /\ WF_vars(ConfirmRequest)

Spec     == Init /\ [][Next]_vars
FairSpec == Spec /\ Fairness

-----------------------------------------------------------------------------
(* Properties                                                              *)

EventTypes == {"NOTI", "ACCEPT", "REJECT", "TIMEOUT"}
Evs    == [type : EventTypes, dev : Devices, nr : Numbers]
Timers == [id : TimerIds, dev : Devices, nr : Numbers]
Decisions == [dev : Devices, ok : BOOLEAN]

TypeOK ==
  /\ pending \in [Devices -> 0 .. MaxAsks] /\ asked \in [Devices -> 0 .. MaxAsks]
  /\ toCore \in Seq(Evs) /\ eventList \in Seq(Evs) /\ toAgent \in Seq(Decisions)
  /\ timerTable \in Seq(Timers) /\ expired \in SUBSET Timers
  /\ nextTimerId \in TimerIds
  /\ timerIdMap \in [Devices -> 0 .. MaxTimerId - 1]
  /\ shown \in [Devices -> 0 .. MaxAsks] /\ answers \in 0 .. MaxAnswers
  /\ reply \in [Devices -> [Numbers -> {"unasked", "open", "accepted", "rejected", "dropped"}]]
  /\ decided \in [Devices -> [Numbers -> {"nothing", "accepted", "rejected"}]]
  /\ fired \in SUBSET (Devices \X Numbers) /\ late \in BOOLEAN

\* A parked request always has something left that will answer it: its
\* notification, a running or fired timer of its device, or a decision.  Timer
\* ids are used again and clients answer twice, but as long as no answer comes
\* later than the timeout, nobody stops the timer of another device.
WatchedOver ==
  ~ late => \A d \in Devices : pending[d] # 0 =>
    \/ \E i \in 1 .. Len(toCore) : toCore[i].dev = d
    \/ \E i \in 1 .. Len(eventList) :
         eventList[i].dev = d /\ eventList[i].type \in {"NOTI", "TIMEOUT"}
    \/ Running(d) \/ \E t \in expired : t.dev = d
    \/ \E i \in 1 .. Len(toAgent) : toAgent[i].dev = d

Open(d, k) == reply[d][k] = "open"

\* Every confirmation is cancelled after its timeout at the latest: no request
\* stays open unless somebody answered too late.
AutoCancelInTime ==
  \A d \in Devices, k \in Numbers : Open(d, k) ~> (~ Open(d, k) \/ late)

\* BlueZ is told once, and what the core manager decided first, also when the
\* timeout and late answers of several clients cross on the way - for a device
\* that has asked once: an answer carries no request number.
FirstDecisionCounts ==
  \A d \in Devices :
    asked[d] = 1 /\ reply[d][1] \in {"accepted", "rejected"} => reply[d][1] = decided[d][1]
=============================================================================
