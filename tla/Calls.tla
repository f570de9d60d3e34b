------------------------------- MODULE Calls -------------------------------
(***************************************************************************)
(* Telephone calls: CALL_STATE of the core manager against the calls oFono *)
(* has.                                                                    *)
(*                                                                         *)
(* A client's request to dial, answer or hang up is forwarded when         *)
(* CALL_STATE allows it, and CALL_STATE is PROCESSING until the hardware   *)
(* manager says how the blocking call to oFono went.  What becomes of the  *)
(* call itself arrives as signals, which BluetoothWorker dispatches: it    *)
(* asks oFono for the state the call has by then, and notifies.  The mutex *)
(* of the connection makes one call or one handler exclude the others, so  *)
(* each is a step; answering is two, since oFono may act in between.       *)
(*                                                                         *)
(* There is one modem, the connected phone.  toHardware and toCore are the *)
(* D-Bus connection followed by the queue of the receiving MainWorker.  A  *)
(* request that HardwareHandler ignores changes nothing and is not a step. *)
(***************************************************************************)
EXTENDS Naturals, Sequences, SequencesExt

CONSTANTS CallPaths,       \* object paths of oFono's calls, which it uses again
          MaxRequests,     \* bound: requests HardwareHandler forwards in a run
          MaxCalls,        \* bound: calls that come or are dialled in a run
          MaxModemChanges, \* bound: how often the phone comes or goes
          MaxInFlight      \* bound: signals and notifications on their way when
                           \* oFono sends another on its own

ASSUME BoundsAreNat ==
  /\ MaxRequests \in Nat /\ MaxCalls \in Nat
  /\ MaxModemChanges \in Nat /\ MaxInFlight \in Nat

\* An object path starts with "/".
ASSUME IdleIsNoPath == "idle" \notin CallPaths

VARIABLES
  callState,       \* StateView::CALL_STATE
  toHardware,      \* commands on their way to, or queued in, the hardware manager
  toCore,          \* notifications on their way to HardwareHandler
  mainWorker,      \* "idle", or the path of the call MainWorker is about to answer
  modemPath,       \* OfonoDBus::modemPath_ is set
  activeCallPaths, \* OfonoDBus::activeCallPaths_
  signals,         \* sent by oFono, not dispatched
  modem,           \* the phone is connected
  call,            \* the state of each of oFono's calls
  numbers,         \* calls with a LineIdentification
  requests, calls, modemChanges, \* how many there have been
  refused,         \* history: a request was not carried out
  overlapped,      \* history: a call began when there was another
  lost             \* history: calls went with the modem, without a CallRemoved

ofono   == <<modem, call, numbers, calls, modemChanges, overlapped, lost>>
manager == <<mainWorker, modemPath, activeCallPaths>>
vars == <<callState, toHardware, toCore, manager, signals, ofono, requests, refused>>

CallStates == {"incoming", "waiting", "dialing", "alerting", "active", "held",
               "disconnected"}

Noti(cmd)          == [cmd |-> cmd, state |-> "none"]
StateNoti(state)   == [cmd |-> "CALL_STATE_CHANGED", state |-> state]
Signal(kind, path) == [kind |-> kind, path |-> path]

Present == {p \in CallPaths : call[p] # "none"}

\* A phone that was connected before the hardware manager started has sent its
\* ModemAdded already.
Init ==
  /\ callState = "IDLE" /\ toHardware = <<>> /\ toCore = <<>>
  /\ mainWorker = "idle" /\ modemPath = FALSE /\ activeCallPaths = {}
  /\ signals = <<>> /\ modem \in BOOLEAN
  /\ call = [p \in CallPaths |-> "none"] /\ numbers = {}
  /\ requests = 0 /\ calls = 0 /\ modemChanges = 0
  /\ refused = FALSE /\ overlapped = FALSE /\ lost = FALSE

-----------------------------------------------------------------------------
(* HardwareHandler                                                         *)

Send(cmd) ==
  /\ requests < MaxRequests /\ requests' = requests + 1
  /\ toHardware' = Append(toHardware, cmd) /\ callState' = "PROCESSING"
  /\ UNCHANGED <<toCore, manager, signals, ofono, refused>>

DialCall   == callState = "IDLE" /\ Send("Dial")
AnswerCall == callState = "INCOMING" /\ Send("Answer")
HangupCall == callState \in {"OUTCOMING", "INCOMING", "CALLING"} /\ Send("HangupAll")

ReceiveNoti(cmd) ==
  /\ toCore # <<>> /\ Head(toCore).cmd = cmd
  /\ toCore' = Tail(toCore)
  /\ UNCHANGED <<toHardware, manager, signals, ofono, requests, refused>>

IncomingCallNOTI == ReceiveNoti("INCOMING_CALL") /\ callState' = "INCOMING"
OutgoingCallNOTI == ReceiveNoti("OUTGOING_CALL") /\ callState' = "OUTCOMING"
CallEndedNOTI    == ReceiveNoti("CALL_ENDED")    /\ callState' = "IDLE"

\* A mapping that leaves out "incoming".
CallStateChangedNOTINoIncoming ==
  /\ ReceiveNoti("CALL_STATE_CHANGED")
  /\ callState' = CASE Head(toCore).state \in {"active", "held", "waiting"} -> "CALLING"
                    [] OTHER -> "IDLE"

\* "outgoing", which the code compares with too, is no state of a call.
CallStateChangedNOTI ==
  /\ ReceiveNoti("CALL_STATE_CHANGED")
  /\ callState' = CASE Head(toCore).state = "incoming" -> "INCOMING"
                    [] Head(toCore).state \in {"active", "held", "waiting"} -> "CALLING"
                    [] OTHER -> "IDLE"

\* Whether the request was carried out or not.
DialCallNOTI   == ReceiveNoti("DIAL_CALL")   /\ callState' = "IDLE"
AnswerCallNOTI == ReceiveNoti("ANSWER_CALL") /\ callState' = "IDLE"
HangupCallNOTI == ReceiveNoti("HANGUP_CALL") /\ callState' = "IDLE"

\* The clients are told; no state depends on it.
PbapSessionEndNOTI == ReceiveNoti("PBAP_SESSION_END") /\ UNCHANGED callState

-----------------------------------------------------------------------------
(* MainWorker and OfonoDBus, with oFono's part of each call                 *)

Take(cmd) ==
  /\ mainWorker = "idle" /\ toHardware # <<>> /\ Head(toHardware) = cmd
  /\ toHardware' = Tail(toHardware)
  /\ UNCHANGED <<callState, modemPath, activeCallPaths, requests>>

Tell(cmd) == toCore' = Append(toCore, Noti(cmd))

\* What oFono signals when its calls change to new.
ChangedSignals(new) ==
  LET changed == SetToSeq({p \in Present : new[p] # call[p]})
  IN  [i \in 1 .. Len(changed) |-> Signal("CallChanged", changed[i])]

ActiveHeld == [p \in CallPaths |-> IF call[p] = "active" THEN "held" ELSE call[p]]

\* oFono has one more call, p.
NewCall(p) ==
  /\ modem /\ call[p] = "none" /\ calls < MaxCalls /\ calls' = calls + 1
  /\ overlapped' = (overlapped \/ Present # {})
  /\ UNCHANGED <<modem, modemChanges, lost>>

Dial(p) ==
  /\ Take("Dial") /\ modemPath /\ NewCall(p)
  /\ call' = [ActiveHeld EXCEPT ![p] = "dialing"] /\ numbers' = numbers \cup {p}
  /\ signals' = Append(signals \o ChangedSignals(ActiveHeld), Signal("CallAdded", p))
  /\ Tell("DIAL_CALL")
  /\ UNCHANGED <<mainWorker, refused>>

\* No active modem path, or an error from oFono.
DialFails ==
  /\ Take("Dial") /\ Tell("DIAL_CALL") /\ refused' = TRUE
  /\ UNCHANGED <<mainWorker, signals, ofono>>

Ringing(p) == call[p] \in {"incoming", "waiting"}

FindIncomingCall(p) ==
  /\ Take("Answer") /\ p \in activeCallPaths /\ Ringing(p)
  /\ mainWorker' = p
  /\ UNCHANGED <<toCore, signals, ofono, refused>>

NoIncomingCall ==
  /\ Take("Answer") /\ \A p \in activeCallPaths : ~ Ringing(p)
  /\ Tell("ANSWER_CALL") /\ refused' = TRUE
  /\ UNCHANGED <<mainWorker, signals, ofono>>

Answered ==
  /\ mainWorker # "idle" /\ mainWorker' = "idle"
  /\ Tell("ANSWER_CALL")
  /\ UNCHANGED <<callState, toHardware, modemPath, activeCallPaths, requests, modem,
                 numbers, calls, modemChanges, overlapped, lost>>

Answer ==
  /\ Answered /\ Ringing(mainWorker)
  /\ LET new == [ActiveHeld EXCEPT ![mainWorker] = "active"]
     IN  call' = new /\ signals' = signals \o ChangedSignals(new)
  /\ UNCHANGED refused

AnswerFails == Answered /\ refused' = TRUE /\ UNCHANGED <<signals, call>>

HangupAll ==
  /\ Take("HangupAll") /\ modemPath /\ modem /\ Tell("HANGUP_CALL")
  /\ LET new == [p \in CallPaths |-> IF p \in Present THEN "disconnected" ELSE "none"]
     IN  call' = new /\ signals' = signals \o ChangedSignals(new)
  /\ UNCHANGED <<mainWorker, refused, modem, numbers, calls, modemChanges, overlapped,
                 lost>>

\* Without a modem path nobody is told.
HangupFails ==
  /\ Take("HangupAll") /\ refused' = TRUE
  /\ IF modemPath THEN Tell("HANGUP_CALL") ELSE UNCHANGED toCore
  /\ UNCHANGED <<mainWorker, signals, ofono>>

-----------------------------------------------------------------------------
(* oFono: the phone and the other party                                    *)

OfonoActs ==
  /\ Len(signals) + Len(toCore) < MaxInFlight
  /\ UNCHANGED <<callState, toHardware, toCore, manager, requests, refused>>

\* The caller's number may be known only later.
IncomingCall(p) ==
  /\ OfonoActs /\ NewCall(p)
  /\ call' = [call EXCEPT ![p] = IF Present = {} THEN "incoming" ELSE "waiting"]
  /\ numbers' \in {numbers, numbers \cup {p}}
  /\ signals' = Append(signals, Signal("CallAdded", p))

DialledOnPhone(p) ==
  /\ OfonoActs /\ NewCall(p) /\ Present = {}
  /\ call' = [call EXCEPT ![p] = "dialing"] /\ numbers' = numbers \cup {p}
  /\ signals' = Append(signals, Signal("CallAdded", p))

Change(p, new) ==
  /\ call' = [call EXCEPT ![p] = new]
  /\ signals' = Append(signals, Signal("CallChanged", p))
  /\ UNCHANGED <<modem, numbers, calls, modemChanges, overlapped, lost>>

Moves == {<<"dialing", "alerting">>, <<"dialing", "active">>, <<"alerting", "active">>,
          <<"incoming", "active">>, <<"waiting", "active">>, <<"waiting", "incoming">>,
          <<"active", "held">>, <<"held", "active">>}

CallMoves(p, new) == OfonoActs /\ <<call[p], new>> \in Moves /\ Change(p, new)

CallDisconnects(p) ==
  OfonoActs /\ call[p] \notin {"none", "disconnected"} /\ Change(p, "disconnected")

LearnNumber(p) ==
  /\ OfonoActs /\ Ringing(p) /\ p \notin numbers
  /\ numbers' = numbers \cup {p}
  /\ signals' = Append(signals, Signal("CallChanged", p))
  /\ UNCHANGED <<modem, call, calls, modemChanges, overlapped, lost>>

CallRemoved(p) ==
  /\ OfonoActs /\ call[p] = "disconnected"
  /\ call' = [call EXCEPT ![p] = "none"] /\ numbers' = numbers \ {p}
  /\ signals' = Append(signals, Signal("CallRemoved", p))
  /\ UNCHANGED <<modem, calls, modemChanges, overlapped, lost>>

ModemChange ==
  /\ OfonoActs
  /\ modemChanges < MaxModemChanges /\ modemChanges' = modemChanges + 1
  /\ modem' = ~ modem
  /\ UNCHANGED <<calls, overlapped>>

ModemAdded ==
  /\ ModemChange /\ ~ modem
  /\ signals' = Append(signals, Signal("ModemAdded", "none"))
  /\ UNCHANGED <<call, numbers, lost>>

\* Its calls go with it; oFono may say so first.
ModemRemoved ==
  /\ ModemChange /\ modem
  /\ call' = [p \in CallPaths |-> "none"] /\ numbers' = {}
  /\ LET gone    == SetToSeq(Present)
         removed == [i \in 1 .. Len(gone) |-> Signal("CallRemoved", gone[i])]
     IN  \/ /\ signals' = Append(signals \o removed, Signal("ModemRemoved", "none"))
            /\ UNCHANGED lost
         \/ /\ Present # {} /\ lost' = TRUE
            /\ signals' = Append(signals, Signal("ModemRemoved", "none"))

-----------------------------------------------------------------------------
(* BluetoothWorker                                                          *)

Dispatch(kind) ==
  /\ mainWorker = "idle" /\ signals # <<>> /\ Head(signals).kind = kind
  /\ signals' = Tail(signals)
  /\ UNCHANGED <<callState, toHardware, mainWorker, ofono, requests, refused>>

HandleModemAdded ==
  /\ Dispatch("ModemAdded")
  /\ modemPath' = TRUE
  /\ UNCHANGED <<toCore, activeCallPaths>>

HandleModemRemoved ==
  /\ Dispatch("ModemRemoved")
  /\ modemPath' = FALSE /\ activeCallPaths' = {}
  /\ Tell("PBAP_SESSION_END")

\* The state is asked for now; a call without a number is not announced.
HandleCallAdded ==
  /\ Dispatch("CallAdded")
  /\ LET path == Head(signals).path IN
     /\ activeCallPaths' = activeCallPaths \cup {path}
     /\ CASE path \in numbers /\ Ringing(path) -> Tell("INCOMING_CALL")
          [] path \in numbers /\ call[path] \in {"dialing", "alerting"} ->
               Tell("OUTGOING_CALL")
          [] OTHER -> UNCHANGED toCore
  /\ UNCHANGED modemPath

\* An answer without a state that is passed on.
HandleVoiceCallPropertyChangedUnchecked ==
  /\ Dispatch("CallChanged")
  /\ LET state == call[Head(signals).path]
     IN  IF state = "disconnected" THEN Tell("CALL_ENDED")
         ELSE toCore' = Append(toCore, StateNoti(state))
  /\ UNCHANGED <<modemPath, activeCallPaths>>

\* "State" or "LineIdentification"; oFono has no answer for a call that is gone.
HandleVoiceCallPropertyChanged ==
  /\ Dispatch("CallChanged")
  /\ LET state == call[Head(signals).path]
     IN  CASE state = "none"         -> UNCHANGED toCore
           [] state = "disconnected" -> Tell("CALL_ENDED")
           [] OTHER                  -> toCore' = Append(toCore, StateNoti(state))
  /\ UNCHANGED <<modemPath, activeCallPaths>>

\* The end was announced when the call disconnected: only the path is removed.
HandleCallRemovedSilently ==
  /\ Dispatch("CallRemoved")
  /\ activeCallPaths' = activeCallPaths \ {Head(signals).path}
  /\ UNCHANGED <<modemPath, toCore>>

HandleCallRemoved ==
  /\ Dispatch("CallRemoved")
  /\ IF Head(signals).path \in activeCallPaths THEN Tell("CALL_ENDED")
     ELSE UNCHANGED toCore
  /\ activeCallPaths' = activeCallPaths \ {Head(signals).path}
  /\ UNCHANGED modemPath

-----------------------------------------------------------------------------
CoreStep == \/ DialCall \/ AnswerCall \/ HangupCall
            \/ IncomingCallNOTI \/ OutgoingCallNOTI \/ CallStateChangedNOTI
            \/ CallEndedNOTI \/ DialCallNOTI \/ AnswerCallNOTI \/ HangupCallNOTI
            \/ PbapSessionEndNOTI

MainWorkerStep == \/ \E p \in CallPaths : Dial(p) \/ FindIncomingCall(p)
                  \/ DialFails \/ NoIncomingCall \/ Answer \/ AnswerFails
                  \/ HangupAll \/ HangupFails

OfonoStep ==
  \/ \E p \in CallPaths :
       \/ IncomingCall(p) \/ DialledOnPhone(p) \/ CallDisconnects(p)
       \/ LearnNumber(p) \/ CallRemoved(p)
       \/ \E new \in CallStates : CallMoves(p, new)
  \/ ModemAdded \/ ModemRemoved

WorkerStep == \/ HandleModemAdded \/ HandleModemRemoved \/ HandleCallAdded
              \/ HandleVoiceCallPropertyChanged \/ HandleCallRemoved

Next == CoreStep \/ MainWorkerStep \/ OfonoStep \/ WorkerStep

Spec == Init /\ [][Next]_vars

-----------------------------------------------------------------------------
(* Properties                                                              *)

TypeOK ==
  /\ callState \in {"IDLE", "PROCESSING", "INCOMING", "OUTCOMING", "CALLING"}
  /\ toHardware \in Seq({"Dial", "Answer", "HangupAll"})
  /\ \A i \in 1 .. Len(toCore) :
       /\ toCore[i].cmd \in {"INCOMING_CALL", "OUTGOING_CALL", "CALL_STATE_CHANGED",
                             "CALL_ENDED", "DIAL_CALL", "ANSWER_CALL", "HANGUP_CALL",
                             "PBAP_SESSION_END"}
       /\ toCore[i].state # "none" <=> toCore[i].cmd = "CALL_STATE_CHANGED"
       /\ toCore[i].state \in CallStates \cup {"none"}
  /\ mainWorker \in CallPaths \cup {"idle"}
  /\ modemPath \in BOOLEAN /\ activeCallPaths \subseteq CallPaths
  /\ signals \in Seq([kind : {"CallAdded", "CallChanged", "CallRemoved", "ModemAdded",
                              "ModemRemoved"}, path : CallPaths \cup {"none"}])
  /\ modem \in BOOLEAN /\ call \in [CallPaths -> CallStates \cup {"none"}]
  /\ numbers \subseteq Present
  /\ requests \in 0 .. MaxRequests /\ calls \in 0 .. MaxCalls
  /\ modemChanges \in 0 .. MaxModemChanges
  /\ refused \in BOOLEAN /\ overlapped \in BOOLEAN /\ lost \in BOOLEAN

\* Nothing is on its way any more.
Quiet == toHardware = <<>> /\ toCore = <<>> /\ signals = <<>> /\ mainWorker = "idle"

\* However requests, refusals and calls cross, when no call is left CALL_STATE is
\* IDLE and a client can dial again; provided oFono announces the end of calls
\* that go with the phone, for handleModemRemoved tells nobody of them.
IdleWhenOver == Quiet /\ Present = {} /\ ~ lost => callState = "IDLE"

\* What CALL_STATE should be for a call in a state; the number of a caller is the
\* one thing the hardware manager waits for.  An "alerting" call falls into the last
\* branch of callStateChangedNOTI and is shown as IDLE.
Expected(p) ==
  CASE call[p] = "incoming" /\ p \in numbers -> {"INCOMING"}
    [] call[p] = "dialing"                   -> {"OUTCOMING"}
    [] call[p] \in {"active", "held"}        -> {"CALLING"}
    [] OTHER -> {"IDLE", "PROCESSING", "INCOMING", "OUTCOMING", "CALLING"}

\* A call that is alone, and for which every request was carried out, is what
\* CALL_STATE says it is: the reply IDLE to a dial or an answer does not outlive
\* the signal about the call.
CallAgrees ==
  Quiet /\ ~ refused /\ ~ overlapped => \A p \in Present : callState \in Expected(p)
=============================================================================
