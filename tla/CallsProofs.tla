---------------------------- MODULE CallsProofs ----------------------------
(***************************************************************************)
(* Proofs about Calls for any calls, requests, and comings and goings of   *)
(* the phone: the types of all variables, that CALL_STATE is IDLE again    *)
(* when no call is left, and that it agrees with a call that is alone.     *)
(*                                                                         *)
(* Three arguments.  What HardwareHandler will show once it has read       *)
(* everything on its way to it (Comes).  Which calls OfonoDBus will know   *)
(* when it comes to a signal (Knows): every call that is there has been    *)
(* announced and every one that is gone taken back, as long as oFono       *)
(* announces the end of calls that go with the phone.  And that the last   *)
(* word about a call that is alone is still on its way, or shown.          *)
(***************************************************************************)
EXTENDS Calls, SequenceTheorems, FiniteSetTheorems, TLAPS

USE BoundsAreNat, IdleIsNoPath DEF BoundsAreNat, IdleIsNoPath

CoreStates == {"IDLE", "PROCESSING", "INCOMING", "OUTCOMING", "CALLING"}
Commands   == {"Dial", "Answer", "HangupAll"}

Notis == [cmd : {"INCOMING_CALL", "OUTGOING_CALL", "CALL_ENDED", "DIAL_CALL", "ANSWER_CALL",
                 "HANGUP_CALL", "PBAP_SESSION_END"}, state : {"none"}]
         \cup [cmd : {"CALL_STATE_CHANGED"}, state : CallStates]

Signals == [kind : {"CallAdded", "CallChanged", "CallRemoved"}, path : CallPaths]
           \cup [kind : {"ModemAdded", "ModemRemoved"}, path : {"none"}]

Types ==
  /\ callState \in CoreStates /\ toHardware \in Seq(Commands) /\ toCore \in Seq(Notis)
  /\ mainWorker \in CallPaths \cup {"idle"}
  /\ modemPath \in BOOLEAN /\ activeCallPaths \subseteq CallPaths
  /\ signals \in Seq(Signals)
  /\ modem \in BOOLEAN /\ call \in [CallPaths -> CallStates \cup {"none"}]
  /\ numbers \subseteq Present /\ IsFiniteSet(Present)
  /\ requests \in 0 .. MaxRequests /\ calls \in 0 .. MaxCalls
  /\ modemChanges \in 0 .. MaxModemChanges
  /\ refused \in BOOLEAN /\ overlapped \in BOOLEAN /\ lost \in BOOLEAN

-----------------------------------------------------------------------------
(* Sequences and the set of calls.                                          *)

\* A counter below its bound may be counted up.
LEMMA CountedUp ==
  \A m \in Nat : \A n \in 0 .. m : \A k \in {n, n + 1} : (k = n \/ n < m) => k \in 0 .. m
OBVIOUS

LEMMA NotiTyped ==
  /\ \A cmd \in {"INCOMING_CALL", "OUTGOING_CALL", "CALL_ENDED", "DIAL_CALL", "ANSWER_CALL",
                 "HANGUP_CALL", "PBAP_SESSION_END"} : Noti(cmd) \in Notis
  /\ \A state \in CallStates : StateNoti(state) \in Notis
BY DEF Noti, StateNoti, Notis

LEMMA SignalTyped ==
  /\ \A kind \in {"CallAdded", "CallChanged", "CallRemoved"}, p \in CallPaths :
       Signal(kind, p) \in Signals
  /\ \A kind \in {"ModemAdded", "ModemRemoved"} : Signal(kind, "none") \in Signals
BY DEF Signal, Signals

\* SetToSeq lists every element of a finite set once.
LEMMA SetToSeqLists ==
  ASSUME NEW S, IsFiniteSet(S), NEW q, q = SetToSeq(S)
  PROVE  /\ q \in Seq(S)
         /\ \A i, j \in 1 .. Len(q) : q[i] = q[j] => i = j
         /\ \A x \in S : \E i \in 1 .. Len(q) : q[i] = x
<1> DEFINE n == Cardinality(S)
<1>1. n \in Nat /\ ExistsBijection(1 .. n, S)
  BY FS_CardinalityType
<1>2. \E f \in [1 .. n -> S] : IsInjective(f)
  BY <1>1 DEF ExistsBijection, Bijection, Injection
<1>3. q \in [1 .. n -> S] /\ IsInjective(q)
  BY <1>2 DEF SetToSeq
<1>4. q \in Seq(S) /\ Len(q) = n
  BY <1>1, <1>3
<1>5. \A i, j \in 1 .. Len(q) : q[i] = q[j] => i = j
  BY <1>3, <1>4 DEF IsInjective
<1>6. Cardinality(1 .. n) = n
  BY <1>1, FS_Interval
<1>7. q \in Surjection(1 .. n, S)
  <2>1. q \in Injection(1 .. n, S)
    BY <1>3 DEF Injection
  <2>2. QED BY <1>6, <2>1, FS_Injection
<1>8. \A x \in S : \E i \in 1 .. Len(q) : q[i] = x
  BY <1>4, <1>7 DEF Surjection
<1>9. QED BY <1>4, <1>5, <1>8

\* What oFono signals when its calls change: the ones that do, each once.
LEMMA ChangedSignalsAre ==
  ASSUME IsFiniteSet(Present), NEW new, NEW c, c = ChangedSignals(new)
  PROVE  /\ c \in Seq(Signals)
         /\ \A i \in 1 .. Len(c) : \E p \in Present : c[i] = Signal("CallChanged", p) /\ new[p] # call[p]
         /\ \A p \in Present : new[p] # call[p] => Len(c) > 0
<1> DEFINE S == {p \in Present : new[p] # call[p]}
           q == SetToSeq(S)
<1>1. IsFiniteSet(S)
  BY FS_Subset
<1>2. /\ q \in Seq(S) /\ \A x \in S : \E i \in 1 .. Len(q) : q[i] = x
  <2> HIDE DEF S
  <2>1. QED BY <1>1, SetToSeqLists
<1>3. c = [i \in 1 .. Len(q) |-> Signal("CallChanged", q[i])]
  BY DEF ChangedSignals
<1> HIDE DEF q
<1>4. \A i \in 1 .. Len(q) : q[i] \in Present /\ new[q[i]] # call[q[i]]
  BY <1>2
<1>5. \A i \in 1 .. Len(q) : Signal("CallChanged", q[i]) \in Signals
  BY <1>4, SignalTyped DEF Present
<1>6. c \in Seq(Signals) /\ Len(c) = Len(q)
  BY <1>2, <1>3, <1>5
<1>7. \A i \in 1 .. Len(c) : c[i] = Signal("CallChanged", q[i])
  BY <1>3, <1>6
<1>8. \A p \in Present : new[p] # call[p] => Len(c) > 0
  BY <1>2, <1>6
<1>9. QED BY <1>4, <1>6, <1>7, <1>8

\* The same for the calls that go with the phone.
LEMMA RemovedSignalsAre ==
  ASSUME IsFiniteSet(Present), NEW gone, gone = SetToSeq(Present),
         NEW c, c = [i \in 1 .. Len(gone) |-> Signal("CallRemoved", gone[i])]
  PROVE  /\ c \in Seq(Signals)
         /\ \A i \in 1 .. Len(c) : \E p \in Present : c[i] = Signal("CallRemoved", p)
         /\ \A i, j \in 1 .. Len(c) : c[i] = c[j] => i = j
         /\ \A p \in Present : \E i \in 1 .. Len(c) : c[i] = Signal("CallRemoved", p)
<1>1. /\ gone \in Seq(Present)
      /\ \A i, j \in 1 .. Len(gone) : gone[i] = gone[j] => i = j
      /\ \A x \in Present : \E i \in 1 .. Len(gone) : gone[i] = x
  BY SetToSeqLists
<1>2. \A i \in 1 .. Len(gone) : gone[i] \in Present /\ Signal("CallRemoved", gone[i]) \in Signals
  BY <1>1, SignalTyped DEF Present
<1>3. c \in Seq(Signals) /\ Len(c) = Len(gone)
  BY <1>1, <1>2
<1>4. \A i \in 1 .. Len(c) : c[i] = Signal("CallRemoved", gone[i])
  BY <1>3
<1>5. \A i, j \in 1 .. Len(c) : c[i] = c[j] => i = j
  BY <1>1, <1>3, <1>4 DEF Signal
<1>6. \A p \in Present : \E i \in 1 .. Len(c) : c[i] = Signal("CallRemoved", p)
  BY <1>1, <1>3, <1>4
<1>7. QED BY <1>2, <1>3, <1>4, <1>5, <1>6

-----------------------------------------------------------------------------
(* The types.                                                              *)

\* One more element at the end, or one taken from the front.
LEMMA QueueTypes ==
  ASSUME NEW M
  PROVE  /\ <<>> \in Seq(M)
         /\ \A s \in Seq(M), m \in M : Append(s, m) \in Seq(M)
         /\ \A s \in Seq(M) : s # <<>> => Head(s) \in M /\ Tail(s) \in Seq(M)
         /\ \A s, t \in Seq(M) : s \o t \in Seq(M)
<1>1. \A s, t \in Seq(M) : s \o t \in Seq(M)
  BY ConcatProperties
<1>2. QED BY <1>1, EmptySeq, HeadTailProperties

LEMMA Queues ==
  /\ \A s \in Seq(Commands), m \in Commands : Append(s, m) \in Seq(Commands)
  /\ \A s \in Seq(Commands) : s # <<>> => Head(s) \in Commands /\ Tail(s) \in Seq(Commands)
  /\ \A s \in Seq(Notis), m \in Notis : Append(s, m) \in Seq(Notis)
  /\ \A s \in Seq(Notis) : s # <<>> => Head(s) \in Notis /\ Tail(s) \in Seq(Notis)
  /\ \A s \in Seq(Signals), m \in Signals : Append(s, m) \in Seq(Signals)
  /\ \A s \in Seq(Signals) : s # <<>> => Head(s) \in Signals /\ Tail(s) \in Seq(Signals)
  /\ \A s, t \in Seq(Signals) : s \o t \in Seq(Signals)
BY QueueTypes

LEMMA TypesInit == Init => Types
<1> SUFFICES ASSUME Init
             PROVE  Types
  OBVIOUS
<1>1. /\ callState \in CoreStates /\ mainWorker \in CallPaths \cup {"idle"}
      /\ activeCallPaths \subseteq CallPaths
      /\ call \in [CallPaths -> CallStates \cup {"none"}]
      /\ Present = {} /\ numbers = {}
  BY DEF Init, CoreStates, Present
<1>2. toHardware \in Seq(Commands) /\ toCore \in Seq(Notis) /\ signals \in Seq(Signals)
  BY QueueTypes DEF Init
<1>3. /\ requests \in 0 .. MaxRequests /\ calls \in 0 .. MaxCalls /\ modemChanges \in 0 .. MaxModemChanges
  BY DEF Init
<1>4. /\ modemPath \in BOOLEAN /\ modem \in BOOLEAN
      /\ refused \in BOOLEAN /\ overlapped \in BOOLEAN /\ lost \in BOOLEAN
  BY Zenon DEF Init
<1>5. QED BY <1>1, <1>2, <1>3, <1>4, FS_EmptySet, Zenon DEF Types

\* Steps of the core manager leave oFono and the hardware manager alone.
LEMMA TypesCore == Types /\ CoreStep => Types'
<1> SUFFICES ASSUME Types, CoreStep
             PROVE  Types'
  OBVIOUS
<1> USE DEF CoreStep, DialCall, AnswerCall, HangupCall, Send, ReceiveNoti, IncomingCallNOTI, OutgoingCallNOTI,
            CallStateChangedNOTI, CallEndedNOTI, DialCallNOTI, AnswerCallNOTI, HangupCallNOTI,
            PbapSessionEndNOTI
<1>1. UNCHANGED <<manager, signals, ofono, refused>>
  OBVIOUS
<1>2. /\ UNCHANGED <<mainWorker, activeCallPaths, signals, call, numbers, calls, modemChanges>>
      /\ modemPath' = modemPath /\ modem' = modem
      /\ refused' = refused /\ overlapped' = overlapped /\ lost' = lost
      /\ Present' = Present
  BY <1>1 DEF manager, ofono, Present
<1>3. callState' \in CoreStates
  BY DEF CoreStates, Types
<1>4. toHardware' \in Seq(Commands) /\ toCore' \in Seq(Notis)
  <2>1. "Dial" \in Commands /\ "Answer" \in Commands /\ "HangupAll" \in Commands
    BY DEF Commands
  <2>2. \/ toHardware' = toHardware /\ toCore' = Tail(toCore) /\ toCore # <<>>
        \/ toCore' = toCore /\ \E cmd \in Commands : toHardware' = Append(toHardware, cmd)
    BY <2>1
  <2>3. QED BY <2>2, Queues, Zenon DEF Types
<1>5. requests' \in 0 .. MaxRequests
  <2>1. requests' \in {requests, requests + 1} /\ (requests' = requests \/ requests < MaxRequests)
    OBVIOUS
  <2>2. QED BY <2>1, CountedUp, Zenon DEF Types
<1>6. QED BY <1>2, <1>3, <1>4, <1>5, Zenon DEF Types

\* Which calls are there after a step.
LEMMA PresentAfter ==
  ASSUME call \in [CallPaths -> CallStates \cup {"none"}], NEW p \in CallPaths
  PROVE  /\ ActiveHeld \in [CallPaths -> CallStates \cup {"none"}]
         /\ \A q \in CallPaths : ActiveHeld[q] # "none" <=> q \in Present
         /\ \A st \in CallStates :
              /\ call' = [call EXCEPT ![p] = st] => Present' = Present \cup {p}
              /\ call' = [ActiveHeld EXCEPT ![p] = st] => Present' = Present \cup {p}
         /\ call' = [call EXCEPT ![p] = "none"] => Present' = Present \ {p}
<1>1. /\ ActiveHeld \in [CallPaths -> CallStates \cup {"none"}]
      /\ \A q \in CallPaths : ActiveHeld[q] # "none" <=> q \in Present
  BY DEF ActiveHeld, Present, CallStates
<1>2. ASSUME NEW st \in CallStates, call' = [call EXCEPT ![p] = st]
      PROVE  Present' = Present \cup {p}
  BY <1>2 DEF Present, CallStates
<1>3. ASSUME NEW st \in CallStates, call' = [ActiveHeld EXCEPT ![p] = st]
      PROVE  Present' = Present \cup {p}
  <2>1. \A q \in CallPaths : call'[q] # "none" <=> q \in Present \cup {p}
    BY <1>1, <1>3 DEF CallStates
  <2>2. QED BY <2>1 DEF Present
<1>4. call' = [call EXCEPT ![p] = "none"] => Present' = Present \ {p}
  BY DEF Present
<1>5. QED BY <1>1, <1>2, <1>3, <1>4

LEMMA PresentAfterAll ==
  /\ call' = [q \in CallPaths |-> IF q \in Present THEN "disconnected" ELSE "none"] =>
       Present' = Present
  /\ call' = [q \in CallPaths |-> "none"] => Present' = {}
  /\ call' = call => Present' = Present
BY DEF Present

\* What a step may do to oFono's side.
OfonoTypes ==
  /\ modem \in BOOLEAN /\ call \in [CallPaths -> CallStates \cup {"none"}]
  /\ numbers \subseteq Present /\ IsFiniteSet(Present)
  /\ calls \in 0 .. MaxCalls /\ modemChanges \in 0 .. MaxModemChanges
  /\ overlapped \in BOOLEAN /\ lost \in BOOLEAN /\ signals \in Seq(Signals)

LEMMA OfonoUnchanged == Types /\ UNCHANGED ofono /\ signals' \in Seq(Signals) => OfonoTypes'
<1> SUFFICES ASSUME Types, UNCHANGED ofono, signals' \in Seq(Signals)
             PROVE  OfonoTypes'
  OBVIOUS
<1>1. /\ UNCHANGED <<call, numbers, calls, modemChanges>> /\ Present' = Present
      /\ modem' = modem /\ overlapped' = overlapped /\ lost' = lost
  BY DEF ofono, Present
<1>2. QED BY <1>1, Zenon DEF Types, OfonoTypes

\* What a new call does to the counters and the history.
CountsCall ==
  /\ modem' \in {modem, ~ modem} /\ overlapped' \in BOOLEAN /\ lost' \in {lost, TRUE}
  /\ calls' \in {calls, calls + 1} /\ (calls' = calls \/ calls < MaxCalls)
  /\ modemChanges' \in {modemChanges, modemChanges + 1}
  /\ (modemChanges' = modemChanges \/ modemChanges < MaxModemChanges)

LEMMA NewCallCounts ==
  ASSUME Types, NEW p \in CallPaths, NewCall(p)
  PROVE  CountsCall
<1>1. modem' = modem /\ lost' = lost /\ modemChanges' = modemChanges /\ calls' = calls + 1 /\ calls < MaxCalls
  BY DEF NewCall
<1>2. overlapped' \in BOOLEAN
  BY Zenon DEF NewCall
<1>3. QED BY <1>1, <1>2 DEF CountsCall

LEMMA NoNewCallCounts ==
  ASSUME Types, UNCHANGED <<modem, calls, modemChanges, overlapped, lost>>
  PROVE  CountsCall
BY Zenon DEF CountsCall, Types

LEMMA StillFinite ==
  ASSUME Types, NEW p
  PROVE  /\ IsFiniteSet(Present) /\ IsFiniteSet({})
         /\ IsFiniteSet(Present \cup {p}) /\ IsFiniteSet(Present \ {p})
BY FS_AddElement, FS_RemoveElement, FS_EmptySet DEF Types

\* A call more, changed or less.
LEMMA OfonoChanged ==
  ASSUME Types, call' \in [CallPaths -> CallStates \cup {"none"}],
         IsFiniteSet(Present'), numbers' \subseteq Present',
         CountsCall,
         signals' \in Seq(Signals)
  PROVE  OfonoTypes'
<1>1. modem' \in BOOLEAN /\ lost' \in BOOLEAN /\ overlapped' \in BOOLEAN
  BY Zenon DEF Types, CountsCall
<1>2. calls' \in 0 .. MaxCalls /\ modemChanges' \in 0 .. MaxModemChanges
  BY CountedUp, Zenon DEF Types, CountsCall
<1>3. QED BY <1>1, <1>2, Zenon DEF OfonoTypes

\* Everything but oFono, for the steps of MainWorker and BluetoothWorker.
LEMMA TypesTogether ==
  ASSUME OfonoTypes', callState' \in CoreStates, toHardware' \in Seq(Commands), toCore' \in Seq(Notis),
         mainWorker' \in CallPaths \cup {"idle"}, modemPath' \in BOOLEAN,
         activeCallPaths' \subseteq CallPaths,
         requests' \in 0 .. MaxRequests, refused' \in BOOLEAN
  PROVE  Types'
BY Zenon DEF Types, OfonoTypes

LEMMA TypesMainWorker == Types /\ MainWorkerStep => Types'
<1> SUFFICES ASSUME Types, MainWorkerStep
             PROVE  Types'
  OBVIOUS
<1> USE DEF MainWorkerStep, Dial, DialFails, FindIncomingCall, NoIncomingCall, Answer, AnswerFails, Answered,
            HangupAll, HangupFails, Take, Tell
<1>1. UNCHANGED <<callState, activeCallPaths, requests>> /\ modemPath' = modemPath
  OBVIOUS
<1>2. mainWorker' \in CallPaths \cup {"idle"}
  BY DEF Types
<1>3. refused' \in BOOLEAN
  <2>1. refused' = refused \/ refused' = TRUE
    OBVIOUS
  <2>2. QED BY <2>1, Zenon DEF Types
<1>4. toHardware' \in Seq(Commands)
  <2>1. toHardware' = toHardware \/ (toHardware # <<>> /\ toHardware' = Tail(toHardware))
    OBVIOUS
  <2>2. QED BY <2>1, Queues, Zenon DEF Types
<1>5. toCore' \in Seq(Notis)
  <2>1. \/ toCore' = toCore
        \/ \E cmd \in {"DIAL_CALL", "ANSWER_CALL", "HANGUP_CALL"} : toCore' = Append(toCore, Noti(cmd))
    OBVIOUS
  <2>2. QED BY <2>1, Queues, NotiTyped, Zenon DEF Types
<1>6. OfonoTypes'
  <2>1. CASE UNCHANGED <<signals, ofono>>
    BY <2>1, OfonoUnchanged DEF Types
  <2>2. ASSUME NEW p \in CallPaths, Dial(p)
        PROVE  OfonoTypes'
    <3>1. /\ call' = [ActiveHeld EXCEPT ![p] = "dialing"] /\ numbers' = numbers \cup {p} /\ NewCall(p)
          /\ signals' = Append(signals \o ChangedSignals(ActiveHeld), Signal("CallAdded", p))
      BY <2>2
    <3>2. call' \in [CallPaths -> CallStates \cup {"none"}] /\ Present' = Present \cup {p}
      BY <3>1, PresentAfter DEF Types, CallStates
    <3>3. signals' \in Seq(Signals)
      <4>1. ChangedSignals(ActiveHeld) \in Seq(Signals)
        BY ChangedSignalsAre DEF Types
      <4>2. QED BY <3>1, <4>1, SignalTyped, Queues, Zenon DEF Types
    <3>4. numbers' \subseteq Present'
      BY <3>1, <3>2 DEF Types
    <3>5. CountsCall
      BY <3>1, NewCallCounts
    <3>6. IsFiniteSet(Present')
      BY <3>2, StillFinite
    <3>7. QED BY <3>2, <3>3, <3>4, <3>5, <3>6, OfonoChanged, Zenon
  <2>3. CASE Answer \/ HangupAll
    <3>1. UNCHANGED <<numbers, calls, modemChanges, modem, overlapped, lost>>
      BY <2>3
    <3>2. /\ call' \in [CallPaths -> CallStates \cup {"none"}] /\ Present' = Present
          /\ \E new : signals' = signals \o ChangedSignals(new)
      <4>1. CASE Answer
        <5>1. PICK p \in CallPaths : p = mainWorker
          BY <4>1 DEF Types
        <5>2. p \in Present /\ call' = [ActiveHeld EXCEPT ![p] = "active"]
          BY <4>1, <5>1 DEF Ringing, Present
        <5>3. ActiveHeld \in [CallPaths -> CallStates \cup {"none"}] /\ "active" \in CallStates
              /\ Present' = Present \cup {p}
          BY <5>2, PresentAfter DEF Types, CallStates
        <5>4. call' \in [CallPaths -> CallStates \cup {"none"}]
          BY <5>2, <5>3
        <5>5. \E new : signals' = signals \o ChangedSignals(new)
          BY <4>1
        <5>6. QED BY <5>2, <5>3, <5>4, <5>5
      <4>2. CASE HangupAll
        <5>1. call' = [q \in CallPaths |-> IF q \in Present THEN "disconnected" ELSE "none"]
          BY <4>2
        <5>2. call' \in [CallPaths -> CallStates \cup {"none"}]
          BY <5>1 DEF CallStates
        <5>3. \E new : signals' = signals \o ChangedSignals(new)
          BY <4>2
        <5>4. QED BY <5>1, <5>2, <5>3, PresentAfterAll
      <4>3. QED BY <2>3, <4>1, <4>2
    <3>3. signals' \in Seq(Signals)
      <4>1. PICK new : signals' = signals \o ChangedSignals(new)
        BY <3>2
      <4>2. ChangedSignals(new) \in Seq(Signals)
        BY ChangedSignalsAre DEF Types
      <4>3. QED BY <4>1, <4>2, Queues, Zenon DEF Types
    <3>4. CountsCall
      BY <3>1, NoNewCallCounts
    <3>5. numbers' \subseteq Present'
      BY <3>1, <3>2 DEF Types
    <3>6. IsFiniteSet(Present')
      BY <3>2, StillFinite
    <3>7. QED BY <3>2, <3>3, <3>4, <3>5, <3>6, OfonoChanged, Zenon
  <2>4. QED BY <2>1, <2>2, <2>3 DEF ofono
<1>7. QED BY <1>1, <1>2, <1>3, <1>4, <1>5, <1>6, TypesTogether, Zenon DEF Types

LEMMA TypesOfono == Types /\ OfonoStep => Types'
<1> SUFFICES ASSUME Types, OfonoStep
             PROVE  Types'
  OBVIOUS
<1>1. OfonoActs
  BY DEF OfonoStep, IncomingCall, DialledOnPhone, CallDisconnects, LearnNumber, CallRemoved, CallMoves,
         ModemAdded, ModemRemoved, ModemChange
<1>2. /\ UNCHANGED <<callState, toHardware, toCore, mainWorker, activeCallPaths, requests>>
      /\ modemPath' = modemPath /\ refused' = refused
  BY <1>1 DEF OfonoActs, manager
<1>3. ASSUME NEW p \in CallPaths, NEW s \in Signals, signals' = Append(signals, s),
             NEW st \in CallStates \cup {"none"}, call' = [call EXCEPT ![p] = st],
             st = "none" => p \notin numbers', numbers' \subseteq numbers \cup {p}, CountsCall
      PROVE  OfonoTypes'
  <2>1. call' \in [CallPaths -> CallStates \cup {"none"}] /\ signals' \in Seq(Signals)
    BY <1>3, Queues DEF Types
  <2>2. \/ st # "none" /\ Present' = Present \cup {p}
        \/ st = "none" /\ Present' = Present \ {p}
    BY <1>3, PresentAfter DEF Types
  <2>3. numbers' \subseteq Present'
    BY <1>3, <2>2 DEF Types
  <2>4. IsFiniteSet(Present')
    BY <2>2, StillFinite
  <2>5. QED BY <1>3, <2>1, <2>3, <2>4, OfonoChanged, Zenon
<1>4. ASSUME NEW p \in CallPaths, IncomingCall(p) \/ DialledOnPhone(p)
      PROVE  OfonoTypes'
  <2>1. CountsCall
    BY <1>4, NewCallCounts DEF IncomingCall, DialledOnPhone
  <2>2. PICK st \in {"incoming", "waiting", "dialing"} : call' = [call EXCEPT ![p] = st]
    BY <1>4 DEF IncomingCall, DialledOnPhone
  <2>3. signals' = Append(signals, Signal("CallAdded", p)) /\ numbers' \subseteq numbers \cup {p}
    BY <1>4 DEF IncomingCall, DialledOnPhone
  <2>4. st \in CallStates \cup {"none"} /\ st # "none" /\ Signal("CallAdded", p) \in Signals
    BY SignalTyped DEF CallStates
  <2>5. QED BY <1>3, <2>1, <2>2, <2>3, <2>4, Zenon
<1>5. ASSUME NEW p \in CallPaths, NEW new \in CallStates, CallMoves(p, new) \/ CallDisconnects(p)
      PROVE  OfonoTypes'
  <2>1. CountsCall
    BY <1>5, NoNewCallCounts DEF CallMoves, CallDisconnects, Change
  <2>2. PICK st \in CallStates : call' = [call EXCEPT ![p] = st]
    BY <1>5 DEF CallMoves, CallDisconnects, Change, CallStates
  <2>3. signals' = Append(signals, Signal("CallChanged", p)) /\ numbers' = numbers
    BY <1>5 DEF CallMoves, CallDisconnects, Change
  <2>4. st # "none" /\ Signal("CallChanged", p) \in Signals
    BY SignalTyped DEF CallStates
  <2>5. QED BY <1>3, <2>1, <2>2, <2>3, <2>4, Zenon
<1>6. ASSUME NEW p \in CallPaths, LearnNumber(p)
      PROVE  OfonoTypes'
  <2>1. CountsCall
    BY <1>6, NoNewCallCounts DEF LearnNumber
  <2>2. /\ call' = call /\ call \in [CallPaths -> CallStates \cup {"none"}] /\ numbers' = numbers \cup {p}
        /\ signals' = Append(signals, Signal("CallChanged", p)) /\ Signal("CallChanged", p) \in Signals
        /\ p \in Present
    BY <1>6, SignalTyped DEF LearnNumber, Types, Ringing, Present
  <2>3. signals' \in Seq(Signals) /\ Present' = Present
    BY <2>2, Queues DEF Types, Present
  <2>4. numbers' \subseteq Present'
    BY <2>2, <2>3 DEF Types
  <2>5. call' \in [CallPaths -> CallStates \cup {"none"}]
    BY <2>2
  <2>6. IsFiniteSet(Present')
    BY <2>3, StillFinite
  <2>7. QED BY <2>1, <2>3, <2>4, <2>5, <2>6, OfonoChanged, Zenon
<1>7. ASSUME NEW p \in CallPaths, CallRemoved(p)
      PROVE  OfonoTypes'
  <2>1. CountsCall
    BY <1>7, NoNewCallCounts DEF CallRemoved
  <2>2. /\ call' = [call EXCEPT ![p] = "none"] /\ p \notin numbers' /\ numbers' \subseteq numbers \cup {p}
        /\ signals' = Append(signals, Signal("CallRemoved", p)) /\ Signal("CallRemoved", p) \in Signals
        /\ "none" \in CallStates \cup {"none"}
    BY <1>7, SignalTyped DEF CallRemoved
  <2>3. QED BY <1>3, <2>1, <2>2, Zenon
<1>8. ASSUME ModemAdded \/ ModemRemoved
      PROVE  OfonoTypes'
  <2>1. CountsCall
    <3>1. /\ modem' = ~ modem /\ calls' = calls /\ modemChanges' = modemChanges + 1
          /\ modemChanges < MaxModemChanges /\ overlapped' = overlapped
      BY <1>8 DEF ModemAdded, ModemRemoved, ModemChange
    <3>2. lost' \in {lost, TRUE}
      BY <1>8 DEF ModemAdded, ModemRemoved
    <3>3. overlapped' \in BOOLEAN
      BY <3>1, Zenon DEF Types
    <3>4. QED BY <3>1, <3>2, <3>3 DEF CountsCall
  <2>2. /\ call' \in [CallPaths -> CallStates \cup {"none"}] /\ Present' \in {Present, {}}
        /\ numbers' \subseteq Present'
    <3>1. CASE ModemAdded
      BY <3>1, PresentAfterAll DEF ModemAdded, Types
    <3>2. CASE ModemRemoved
      BY <3>2, PresentAfterAll DEF ModemRemoved
    <3>3. QED BY <1>8, <3>1, <3>2
  <2>3. signals' \in Seq(Signals)
    <3>1. CASE ModemAdded
      BY <3>1, SignalTyped, Queues DEF ModemAdded, Types
    <3>2. CASE ModemRemoved
      <4> DEFINE gone    == SetToSeq(Present)
                 removed == [i \in 1 .. Len(gone) |-> Signal("CallRemoved", gone[i])]
      <4>1. removed \in Seq(Signals)
        BY RemovedSignalsAre DEF Types
      <4>2. \/ signals' = Append(signals \o removed, Signal("ModemRemoved", "none"))
            \/ signals' = Append(signals, Signal("ModemRemoved", "none"))
        BY <3>2 DEF ModemRemoved
      <4> HIDE DEF removed
      <4>3. signals \o removed \in Seq(Signals) /\ Signal("ModemRemoved", "none") \in Signals
        BY <4>1, SignalTyped, Queues, Zenon DEF Types
      <4>4. QED BY <4>2, <4>3, Queues, Zenon DEF Types
    <3>3. QED BY <1>8, <3>1, <3>2
  <2>4. IsFiniteSet(Present')
    BY <2>2, StillFinite
  <2>5. QED BY <2>1, <2>2, <2>3, <2>4, OfonoChanged, Zenon
<1>9. OfonoTypes'
  <2>1. "active" \in CallStates
    BY DEF CallStates
  <2>2. QED BY <1>4, <1>5, <1>6, <1>7, <1>8, <2>1, Zenon DEF OfonoStep
<1>10. QED BY <1>2, <1>9, TypesTogether, Zenon DEF Types

LEMMA TypesWorker == Types /\ WorkerStep => Types'
<1> SUFFICES ASSUME Types, WorkerStep
             PROVE  Types'
  OBVIOUS
<1> USE DEF WorkerStep, HandleModemAdded, HandleModemRemoved, HandleCallAdded, HandleVoiceCallPropertyChanged,
            HandleCallRemoved, Dispatch, Tell
<1>1. UNCHANGED <<callState, toHardware, mainWorker, requests, ofono>> /\ refused' = refused
      /\ signals # <<>> /\ signals' = Tail(signals)
  OBVIOUS
<1>2. modemPath' \in BOOLEAN
  <2>1. modemPath' = modemPath \/ modemPath' = TRUE \/ modemPath' = FALSE
    OBVIOUS
  <2>2. QED BY <2>1, Zenon DEF Types
<1>3. OfonoTypes'
  BY <1>1, Queues, OfonoUnchanged DEF Types
<1>4. toCore' \in Seq(Notis) /\ activeCallPaths' \subseteq CallPaths
  <2>1. CASE HandleModemAdded \/ HandleModemRemoved
    BY <2>1, NotiTyped, Queues DEF Types
  <2>2. CASE HandleCallAdded
    <3>1. Head(signals) \in Signals /\ Head(signals).kind = "CallAdded"
      BY <1>1, <2>2, Queues DEF Types
    <3>2. Head(signals).path \in CallPaths
      BY <3>1 DEF Signals
    <3>3. \/ toCore' = toCore
          \/ \E cmd \in {"INCOMING_CALL", "OUTGOING_CALL"} : toCore' = Append(toCore, Noti(cmd))
      BY <2>2
    <3>4. QED BY <2>2, <3>2, <3>3, NotiTyped, Queues DEF Types
  <2>3. CASE HandleCallRemoved
    BY <2>3, NotiTyped, Queues DEF Types
  <2>4. CASE HandleVoiceCallPropertyChanged
    <3>1. Head(signals) \in Signals /\ Head(signals).kind = "CallChanged"
      BY <1>1, <2>4, Queues DEF Types
    <3>2. Head(signals).path \in CallPaths
      BY <3>1 DEF Signals
    <3>3. \/ toCore' = toCore \/ toCore' = Append(toCore, Noti("CALL_ENDED"))
          \/ \E st \in CallStates : toCore' = Append(toCore, StateNoti(st))
      BY <2>4, <3>2 DEF Types
    <3>4. UNCHANGED activeCallPaths
      BY <2>4
    <3>5. toCore' \in Seq(Notis)
      <4>1. toCore' = toCore \/ \E m \in Notis : toCore' = Append(toCore, m)
        BY <3>3, NotiTyped, Zenon
      <4>2. QED BY <4>1, Queues, Zenon DEF Types
    <3>6. QED BY <3>4, <3>5 DEF Types
  <2>5. QED BY <2>1, <2>2, <2>3, <2>4
<1>5. QED BY <1>1, <1>2, <1>3, <1>4, TypesTogether, Zenon DEF Types

LEMMA TypesStep == Types /\ [Next]_vars => Types'
<1>1. Types /\ UNCHANGED vars => Types'
  <2> SUFFICES ASSUME Types, UNCHANGED vars
               PROVE  Types'
    OBVIOUS
  <2>1. /\ UNCHANGED <<callState, toHardware, toCore, mainWorker, activeCallPaths, signals, requests, ofono>>
        /\ modemPath' = modemPath /\ refused' = refused
    BY DEF vars, manager
  <2>2. OfonoTypes'
    BY <2>1, OfonoUnchanged DEF Types
  <2>3. QED BY <2>1, <2>2, TypesTogether, Zenon DEF Types
<1>2. QED BY <1>1, TypesCore, TypesMainWorker, TypesOfono, TypesWorker DEF Next

LEMMA AlwaysTypes == Spec => []Types
BY TypesInit, TypesStep, PTL DEF Spec

\* The variables keep their types: a notification carries a state if and only if it says
\* that a call changed, and only calls that are there have a number.
THEOREM TypeCorrect == Spec => []TypeOK
<1>1. Types => TypeOK
  <2> SUFFICES ASSUME Types
               PROVE  TypeOK
    OBVIOUS
  <2>1. toHardware \in Seq({"Dial", "Answer", "HangupAll"}) /\ callState \in CoreStates
    BY DEF Types, Commands
  <2>2. ASSUME NEW i \in 1 .. Len(toCore)
        PROVE  /\ toCore[i].cmd \in {"INCOMING_CALL", "OUTGOING_CALL", "CALL_STATE_CHANGED",
                                     "CALL_ENDED", "DIAL_CALL", "ANSWER_CALL", "HANGUP_CALL",
                                     "PBAP_SESSION_END"}
               /\ toCore[i].state # "none" <=> toCore[i].cmd = "CALL_STATE_CHANGED"
               /\ toCore[i].state \in CallStates \cup {"none"}
    <3>1. toCore[i] \in Notis
      BY <2>2 DEF Types
    <3>2. QED BY <3>1 DEF Notis, CallStates
  <2>3. signals \in Seq([kind : {"CallAdded", "CallChanged", "CallRemoved", "ModemAdded", "ModemRemoved"},
                         path : CallPaths \cup {"none"}])
    <3> DEFINE S == [kind : {"CallAdded", "CallChanged", "CallRemoved", "ModemAdded", "ModemRemoved"},
                     path : CallPaths \cup {"none"}]
    <3>1. \A m \in Signals : m \in S
      BY DEF Signals
    <3> HIDE DEF S
    <3>2. signals \in Seq(S)
      BY <3>1 DEF Types
    <3>3. QED BY <3>2 DEF S
  <2>4. QED BY <2>1, <2>2, <2>3, Zenon DEF Types, TypeOK, CoreStates
<1>2. QED BY <1>1, AlwaysTypes, PTL

-----------------------------------------------------------------------------
(* What CALL_STATE will be when HardwareHandler has read all that is on its *)
(* way to it.                                                               *)

\* What CALL_STATE is after a notification.
Shown(m) == CASE m.cmd = "INCOMING_CALL" -> "INCOMING"
              [] m.cmd = "OUTGOING_CALL" -> "OUTCOMING"
              [] m.state = "incoming" -> "INCOMING"
              [] m.state \in {"active", "held", "waiting"} -> "CALLING"
              [] OTHER -> "IDLE"

Says(m) == m.cmd # "PBAP_SESSION_END"

\* The i-th is the last in q that changes CALL_STATE; 0 stands for CALL_STATE as it is.
IsLast(q, i) == /\ i = 0 \/ Says(q[i])
                /\ \A j \in i + 1 .. Len(q) : ~ Says(q[j])

Comes(q, now, st) ==
  \E i \in 0 .. Len(q) : IsLast(q, i) /\ st = (IF i = 0 THEN now ELSE Shown(q[i]))

LEMMA ComesAppended ==
  ASSUME NEW q \in Seq(Notis), NEW m \in Notis, NEW t, t = Append(q, m), NEW now, NEW st
  PROVE  /\ Says(m) => Comes(t, now, Shown(m))
         /\ ~ Says(m) /\ Comes(q, now, st) => Comes(t, now, st)
<1>1. /\ t \in Seq(Notis) /\ Len(t) = Len(q) + 1 /\ t[Len(t)] = m /\ Len(q) \in Nat
      /\ \A i \in 1 .. Len(q) : t[i] = q[i]
  OBVIOUS
<1>2. Says(m) => Comes(t, now, Shown(m))
  BY <1>1 DEF Comes, IsLast
<1>3. ASSUME ~ Says(m), Comes(q, now, st)
      PROVE  Comes(t, now, st)
  <2>1. PICK i \in 0 .. Len(q) : IsLast(q, i) /\ st = (IF i = 0 THEN now ELSE Shown(q[i]))
    BY <1>3 DEF Comes
  <2>2. IsLast(t, i) /\ i \in 0 .. Len(t) /\ st = (IF i = 0 THEN now ELSE Shown(t[i]))
    BY <1>1, <1>3, <2>1 DEF IsLast
  <2>3. QED BY <2>2 DEF Comes
<1>4. QED BY <1>2, <1>3

LEMMA ComesTaken ==
  ASSUME NEW q \in Seq(Notis), q # <<>>, NEW now, NEW next, NEW st, Comes(q, now, st),
         next = IF Says(Head(q)) THEN Shown(Head(q)) ELSE now
  PROVE  Comes(Tail(q), next, st)
<1>1. /\ Tail(q) \in Seq(Notis) /\ Len(Tail(q)) = Len(q) - 1 /\ Head(q) = q[1] /\ Len(q) \in Nat
      /\ \A i \in 1 .. Len(q) - 1 : Tail(q)[i] = q[i + 1]
  OBVIOUS
<1>2. PICK i \in 0 .. Len(q) : IsLast(q, i) /\ st = (IF i = 0 THEN now ELSE Shown(q[i]))
  BY DEF Comes
<1>3. CASE i \in {0, 1}
  <2>1. st = next
    BY <1>1, <1>2, <1>3 DEF IsLast
  <2>2. IsLast(Tail(q), 0)
    BY <1>1, <1>2, <1>3 DEF IsLast
  <2>3. QED BY <1>1, <2>1, <2>2 DEF Comes
<1>4. CASE i > 1
  <2>1. i - 1 \in 1 .. Len(Tail(q)) /\ Tail(q)[i - 1] = q[i]
    BY <1>1, <1>2, <1>4
  <2>2. IsLast(Tail(q), i - 1)
    BY <1>1, <1>2, <1>4, <2>1 DEF IsLast
  <2>3. QED BY <1>2, <1>4, <2>1, <2>2 DEF Comes
<1>5. QED BY <1>2, <1>3, <1>4

\* A new CALL_STATE is overridden by what is on its way, if anything is.
LEMMA ComesSet ==
  ASSUME NEW q, NEW now, NEW next, NEW st, Comes(q, now, st)
  PROVE  Comes(q, next, st) \/ (st = now /\ Comes(q, next, next))
BY DEF Comes

LEMMA ComesNow ==
  ASSUME NEW now, NEW st, Comes(<<>>, now, st)
  PROVE  st = now
BY DEF Comes

LEMMA ShownIs ==
  /\ \A cmd \in {"CALL_ENDED", "DIAL_CALL", "ANSWER_CALL", "HANGUP_CALL"} :
       Says(Noti(cmd)) /\ Shown(Noti(cmd)) = "IDLE"
  /\ Says(Noti("INCOMING_CALL")) /\ Shown(Noti("INCOMING_CALL")) = "INCOMING"
  /\ Says(Noti("OUTGOING_CALL")) /\ Shown(Noti("OUTGOING_CALL")) = "OUTCOMING"
  /\ ~ Says(Noti("PBAP_SESSION_END"))
  /\ \A state \in CallStates :
       /\ Says(StateNoti(state))
       /\ Shown(StateNoti(state)) = IF state = "incoming" THEN "INCOMING"
                                    ELSE IF state \in {"active", "held", "waiting"} THEN "CALLING"
                                    ELSE "IDLE"
BY DEF Says, Shown, Noti, StateNoti

\* What comes when a notification is sent.
LEMMA ComesTell ==
  ASSUME Types, UNCHANGED callState, NEW cmd \in {"CALL_ENDED", "INCOMING_CALL", "OUTGOING_CALL"}, Tell(cmd)
  PROVE  Comes(toCore', callState', Shown(Noti(cmd)))
<1>1. PICK m \in Notis : m = Noti(cmd) /\ Says(m)
  BY NotiTyped, ShownIs
<1>2. toCore' = Append(toCore, m)
  BY <1>1 DEF Tell
<1>3. Comes(toCore', callState', Shown(m))
  BY <1>1, <1>2, ComesAppended DEF Types
<1>4. QED BY <1>1, <1>3

\* Reading a notification changes nothing of what comes.
LEMMA ComesRead ==
  ASSUME Types, NEW st, Comes(toCore, callState, st),
         \/ IncomingCallNOTI \/ OutgoingCallNOTI \/ CallStateChangedNOTI \/ CallEndedNOTI
         \/ DialCallNOTI \/ AnswerCallNOTI \/ HangupCallNOTI \/ PbapSessionEndNOTI
  PROVE  Comes(toCore', callState', st)
<1> USE DEF IncomingCallNOTI, OutgoingCallNOTI, CallStateChangedNOTI, CallEndedNOTI, DialCallNOTI,
            AnswerCallNOTI, HangupCallNOTI, PbapSessionEndNOTI, ReceiveNoti
<1>1. toCore # <<>> /\ toCore' = Tail(toCore)
  OBVIOUS
<1>2. PICK m \in Notis : m = Head(toCore)
  BY <1>1, Queues DEF Types
<1>3. callState' = IF Says(m) THEN Shown(m) ELSE callState
  BY <1>2 DEF Says, Shown, Notis, CallStates
<1>4. QED BY <1>1, <1>2, <1>3, ComesTaken DEF Types

-----------------------------------------------------------------------------
(* Which calls OfonoDBus will know when it comes to the k-th signal, if it  *)
(* knows the calls act now.                                                 *)

About(s, p) == s.kind \in {"CallAdded", "CallRemoved"} /\ s.path = p

Silent(sig, i, k, p) == \A j \in i .. k - 1 : ~ About(sig[j], p)

Knows(sig, act, k, p) ==
  \/ p \in act /\ Silent(sig, 1, k, p)
  \/ \E i \in 1 .. k - 1 : sig[i] = Signal("CallAdded", p) /\ Silent(sig, i + 1, k, p)

KnowsNot(sig, act, k, p) ==
  \/ p \notin act /\ Silent(sig, 1, k, p)
  \/ \E i \in 1 .. k - 1 : sig[i] = Signal("CallRemoved", p) /\ Silent(sig, i + 1, k, p)

\* A signal finds the call it is about as it should.
Finds(sig, act, k) ==
  /\ sig[k].kind \in {"CallChanged", "CallRemoved"} => Knows(sig, act, k, sig[k].path)
  /\ sig[k].kind = "CallAdded"    => KnowsNot(sig, act, k, sig[k].path)
  /\ sig[k].kind = "ModemRemoved" => \A p \in CallPaths : KnowsNot(sig, act, k, p)

\* And after all of them OfonoDBus knows the calls that are there.
Chain(sig, act, there) ==
  /\ \A k \in 1 .. Len(sig) : Finds(sig, act, k)
  /\ \A p \in there : Knows(sig, act, Len(sig) + 1, p)
  /\ \A p \in CallPaths \ there : KnowsNot(sig, act, Len(sig) + 1, p)

\* Signals that come later do not matter.
LEMMA KnowsPrefix ==
  ASSUME NEW sig \in Seq(Signals), NEW t \in Seq(Signals), Len(sig) <= Len(t),
         \A i \in 1 .. Len(sig) : t[i] = sig[i],
         NEW act, NEW p, NEW k \in 1 .. Len(sig) + 1
  PROVE  /\ Knows(sig, act, k, p) => Knows(t, act, k, p)
         /\ KnowsNot(sig, act, k, p) => KnowsNot(t, act, k, p)
<1>1. Len(sig) \in Nat
  OBVIOUS
<1>2. \A i \in 1 .. k : Silent(sig, i, k, p) => Silent(t, i, k, p)
  BY <1>1 DEF Silent
<1>3. \A i \in 1 .. k - 1 : i + 1 \in 1 .. k /\ t[i] = sig[i]
  BY <1>1
<1>4. 1 \in 1 .. k
  BY <1>1
<1>5. QED BY <1>2, <1>3, <1>4 DEF Knows, KnowsNot

\* Nor do signals about other calls.
LEMMA KnowsOn ==
  ASSUME NEW t, NEW act, NEW p, NEW k \in Nat \ {0}, NEW m \in Nat, k <= m, Silent(t, k, m, p)
  PROVE  /\ Knows(t, act, k, p) => Knows(t, act, m, p)
         /\ KnowsNot(t, act, k, p) => KnowsNot(t, act, m, p)
<1>1. \A i \in 1 .. k : Silent(t, i, k, p) => Silent(t, i, m, p)
  BY DEF Silent
<1>2. \A i \in 1 .. k - 1 : i + 1 \in 1 .. k /\ i \in 1 .. m - 1
  OBVIOUS
<1>3. 1 \in 1 .. k
  OBVIOUS
<1>4. QED BY <1>1, <1>2, <1>3 DEF Knows, KnowsNot

\* What a signal does to the calls that are known.
Updates(s, act, next) ==
  \A p \in CallPaths : p \in next <=> \/ s = Signal("CallAdded", p)
                                      \/ p \in act /\ s # Signal("CallRemoved", p)

LEMMA AboutIs ==
  ASSUME NEW s \in Signals, NEW p \in CallPaths
  PROVE  About(s, p) <=> s = Signal("CallAdded", p) \/ s = Signal("CallRemoved", p)
BY DEF About, Signals, Signal

LEMMA KnowsTail ==
  ASSUME NEW sig \in Seq(Signals), sig # <<>>, NEW act, NEW next, Updates(Head(sig), act, next),
         NEW p \in CallPaths, NEW k \in 1 .. Len(sig)
  PROVE  /\ Knows(sig, act, k + 1, p) => Knows(Tail(sig), next, k, p)
         /\ KnowsNot(sig, act, k + 1, p) => KnowsNot(Tail(sig), next, k, p)
<1> DEFINE t == Tail(sig)
<1>1. /\ t \in Seq(Signals) /\ Len(t) = Len(sig) - 1 /\ Head(sig) = sig[1] /\ Len(sig) \in Nat
      /\ \A i \in 1 .. Len(sig) - 1 : t[i] = sig[i + 1]
      /\ sig[1] \in Signals
  OBVIOUS
<1> HIDE DEF t
<1>2. \A i \in 1 .. k : Silent(sig, i + 1, k + 1, p) => Silent(t, i, k, p)
  <2> SUFFICES ASSUME NEW i \in 1 .. k, Silent(sig, i + 1, k + 1, p), NEW j \in i .. k - 1
               PROVE  ~ About(t[j], p)
    BY DEF Silent
  <2>1. j + 1 \in i + 1 .. k /\ t[j] = sig[j + 1]
    BY <1>1
  <2>2. QED BY <2>1 DEF Silent
<1>3. ASSUME Silent(sig, 1, k + 1, p)
      PROVE  /\ Silent(t, 1, k, p) /\ (p \in next <=> p \in act)
  <2>1. Silent(sig, 1 + 1, k + 1, p) /\ ~ About(sig[1], p)
    BY <1>3 DEF Silent
  <2>2. Silent(t, 1, k, p)
    BY <1>2, <2>1
  <2>3. QED BY <1>1, <2>1, <2>2, AboutIs DEF Updates
<1>4. ASSUME NEW i \in 1 .. k, sig[i] \in {Signal("CallAdded", p), Signal("CallRemoved", p)},
             Silent(sig, i + 1, k + 1, p)
      PROVE  \/ /\ i = 1 /\ Silent(t, 1, k, p)
                /\ p \in next <=> sig[i] = Signal("CallAdded", p)
             \/ i - 1 \in 1 .. k - 1 /\ t[i - 1] = sig[i] /\ Silent(t, i - 1 + 1, k, p)
  <2>1. Silent(t, i, k, p)
    BY <1>2, <1>4
  <2>2. CASE i = 1
    BY <1>1, <1>4, <2>1, <2>2 DEF Updates, Signal
  <2>3. CASE i # 1
    BY <1>1, <2>1, <2>3
  <2>4. QED BY <2>2, <2>3
<1>5. (k + 1) - 1 = k
  OBVIOUS
<1>6. ASSUME Knows(sig, act, k + 1, p)
      PROVE  Knows(t, next, k, p)
  BY <1>3, <1>4, <1>5, <1>6 DEF Knows
<1>7. ASSUME KnowsNot(sig, act, k + 1, p)
      PROVE  KnowsNot(t, next, k, p)
  <2>1. Signal("CallRemoved", p) # Signal("CallAdded", p)
    BY DEF Signal
  <2>2. QED BY <1>3, <1>4, <1>5, <1>7, <2>1 DEF KnowsNot
<1>8. QED BY <1>6, <1>7 DEF t

\* Handling a signal keeps the chain.
LEMMA ChainTail ==
  ASSUME NEW sig \in Seq(Signals), sig # <<>>, NEW act, NEW next, Updates(Head(sig), act, next),
         NEW there \in SUBSET CallPaths, Chain(sig, act, there)
  PROVE  Chain(Tail(sig), next, there)
<1> DEFINE t == Tail(sig)
<1>1. /\ t \in Seq(Signals) /\ Len(t) + 1 = Len(sig) /\ Len(sig) \in 1 .. Len(sig) /\ Len(sig) \in Nat
      /\ \A k \in 1 .. Len(t) : t[k] = sig[k + 1] /\ k + 1 \in 1 .. Len(sig) /\ k \in 1 .. Len(sig)
                                /\ t[k] \in Signals
  OBVIOUS
<1>2. \A p \in CallPaths, k \in 1 .. Len(sig) :
        /\ Knows(sig, act, k + 1, p) => Knows(t, next, k, p)
        /\ KnowsNot(sig, act, k + 1, p) => KnowsNot(t, next, k, p)
  BY KnowsTail
<1> HIDE DEF t
<1>3. \A k \in 1 .. Len(t) : Finds(t, next, k)
  <2> SUFFICES ASSUME NEW k \in 1 .. Len(t)
               PROVE  Finds(t, next, k)
    OBVIOUS
  <2>1. Finds(sig, act, k + 1) /\ t[k] = sig[k + 1] /\ k \in 1 .. Len(sig)
    BY <1>1 DEF Chain
  <2>2. t[k].kind \in {"CallAdded", "CallChanged", "CallRemoved"} => t[k].path \in CallPaths
    BY <1>1 DEF Signals
  <2>3. QED BY <1>2, <2>1, <2>2 DEF Finds
<1>4. \A p \in there : Knows(t, next, Len(t) + 1, p)
  BY <1>1, <1>2 DEF Chain
<1>5. \A p \in CallPaths \ there : KnowsNot(t, next, Len(t) + 1, p)
  BY <1>1, <1>2 DEF Chain
<1>6. QED BY <1>3, <1>4, <1>5 DEF Chain, t

\* The chain up to the n-th signal of t.
ChainUpTo(t, n, act, there) ==
  /\ \A k \in 1 .. n : Finds(t, act, k)
  /\ \A p \in there : Knows(t, act, n + 1, p)
  /\ \A p \in CallPaths \ there : KnowsNot(t, act, n + 1, p)

\* What is signalled next finds what the signals before it leave.
LEMMA ChainGrows ==
  ASSUME NEW sig \in Seq(Signals), NEW t \in Seq(Signals), Len(sig) <= Len(t),
         \A i \in 1 .. Len(sig) : t[i] = sig[i],
         NEW act, NEW there \in SUBSET CallPaths, Chain(sig, act, there)
  PROVE  ChainUpTo(t, Len(sig), act, there)
<1>1. ASSUME NEW p, NEW k \in 1 .. Len(sig) + 1
      PROVE  /\ Knows(sig, act, k, p) => Knows(t, act, k, p)
             /\ KnowsNot(sig, act, k, p) => KnowsNot(t, act, k, p)
  BY <1>1, KnowsPrefix
<1>2. \A k \in 1 .. Len(sig) : Finds(t, act, k)
  <2> SUFFICES ASSUME NEW k \in 1 .. Len(sig)
               PROVE  Finds(t, act, k)
    OBVIOUS
  <2>1. Finds(sig, act, k) /\ t[k] = sig[k] /\ k \in 1 .. Len(sig) + 1
    BY DEF Chain
  <2>2. QED BY <1>1, <2>1 DEF Finds
<1>3. Len(sig) + 1 \in 1 .. Len(sig) + 1
  OBVIOUS
<1>4. \A p \in there : Knows(t, act, Len(sig) + 1, p)
  BY <1>1, <1>3 DEF Chain
<1>5. \A p \in CallPaths \ there : KnowsNot(t, act, Len(sig) + 1, p)
  BY <1>1, <1>3 DEF Chain
<1>6. QED BY <1>2, <1>4, <1>5 DEF ChainUpTo

\* One signal more.
LEMMA ChainGrowsByOne ==
  ASSUME NEW sig \in Seq(Signals), NEW s \in Signals, NEW t, t = Append(sig, s), NEW n, n = Len(sig),
         NEW act, NEW there \in SUBSET CallPaths, Chain(sig, act, there)
  PROVE  /\ Len(t) = n + 1 /\ n \in Nat /\ t[n + 1] = s
         /\ \A k \in 1 .. n + 1 : k \in 1 .. n \/ k = n + 1
         /\ ChainUpTo(t, n, act, there)
<1>1. /\ t \in Seq(Signals) /\ Len(t) = n + 1 /\ n \in Nat /\ t[n + 1] = s
      /\ \A i \in 1 .. Len(sig) : t[i] = sig[i]
  OBVIOUS
<1>2. ChainUpTo(t, n, act, there)
  <2>1. Len(sig) <= Len(t)
    BY <1>1
  <2>2. QED BY <1>1, <2>1, ChainGrows
<1>3. QED BY <1>1, <1>2

\* Changes of calls that are there.
LEMMA ChainChanged ==
  ASSUME NEW sig \in Seq(Signals), NEW act, NEW there \in SUBSET CallPaths, Chain(sig, act, there),
         NEW c \in Seq(Signals), \A i \in 1 .. Len(c) : \E p \in there : c[i] = Signal("CallChanged", p)
  PROVE  Chain(sig \o c, act, there)
<1> DEFINE t == sig \o c
<1>1. /\ t \in Seq(Signals) /\ Len(t) = Len(sig) + Len(c) /\ Len(sig) \in Nat /\ Len(c) \in Nat
      /\ \A i \in 1 .. Len(c) : t[Len(sig) + i] = c[i]
      /\ \A i \in 1 .. Len(sig) : t[i] = sig[i]
  BY ConcatProperties
<1> HIDE DEF t
<1>2. ChainUpTo(t, Len(sig), act, there)
  <2>1. Len(sig) <= Len(t)
    BY <1>1
  <2>2. QED BY <1>1, <2>1, ChainGrows
<1>3. ASSUME NEW m \in Len(sig) + 1 .. Len(t) + 1, NEW p
      PROVE  Silent(t, Len(sig) + 1, m, p)
  <2> SUFFICES ASSUME NEW j \in Len(sig) + 1 .. m - 1
               PROVE  ~ About(t[j], p)
    BY DEF Silent
  <2>1. j - Len(sig) \in 1 .. Len(c) /\ t[j] = c[j - Len(sig)]
    BY <1>1
  <2>2. PICK q \in there : c[j - Len(sig)] = Signal("CallChanged", q)
    BY <2>1
  <2>3. QED BY <2>1, <2>2 DEF About, Signal
<1>4. \A m \in Len(sig) + 1 .. Len(t) + 1, p \in CallPaths :
        /\ p \in there => Knows(t, act, m, p)
        /\ p \notin there => KnowsNot(t, act, m, p)
  BY <1>1, <1>2, <1>3, KnowsOn DEF ChainUpTo
<1>5. \A k \in 1 .. Len(t) : Finds(t, act, k)
  <2> SUFFICES ASSUME NEW k \in 1 .. Len(t), k \notin 1 .. Len(sig)
               PROVE  Finds(t, act, k)
    BY <1>2 DEF ChainUpTo
  <2>1. k \in Len(sig) + 1 .. Len(t) + 1
    BY <1>1
  <2>2. PICK i \in 1 .. Len(c) : k = Len(sig) + i
    <3>1. k - Len(sig) \in 1 .. Len(c) /\ k = Len(sig) + (k - Len(sig))
      BY <1>1, <2>1
    <3>2. QED BY <3>1
  <2>3. PICK p \in there : t[k] = Signal("CallChanged", p)
    BY <1>1, <2>2
  <2>4. QED BY <1>4, <2>1, <2>3 DEF Finds, Signal
<1>6. Len(t) + 1 \in Len(sig) + 1 .. Len(t) + 1
  BY <1>1
<1>7. QED BY <1>4, <1>5, <1>6 DEF Chain, t

\* A call that is new, ...
LEMMA ChainAdded ==
  ASSUME NEW sig \in Seq(Signals), NEW act, NEW there \in SUBSET CallPaths, Chain(sig, act, there),
         NEW p \in CallPaths \ there
  PROVE  Chain(Append(sig, Signal("CallAdded", p)), act, there \cup {p})
<1> DEFINE s == Signal("CallAdded", p)
           n == Len(sig)
<1>1. s \in Signals /\ s.kind = "CallAdded" /\ s.path = p
  BY SignalTyped DEF Signal
<1> DEFINE t == Append(sig, s)
<1> HIDE DEF s, n
<1>2. /\ Len(t) = n + 1 /\ n \in Nat /\ t[n + 1] = s
      /\ \A k \in 1 .. n + 1 : k \in 1 .. n \/ k = n + 1
      /\ ChainUpTo(t, n, act, there)
  BY <1>1, ChainGrowsByOne DEF n
<1> HIDE DEF t
<1>3. /\ \A k \in 1 .. n : Finds(t, act, k)
      /\ \A q \in there : Knows(t, act, n + 1, q)
      /\ \A q \in CallPaths \ there : KnowsNot(t, act, n + 1, q)
  BY <1>2 DEF ChainUpTo
<1>4. \A q \in CallPaths \ {p} : Silent(t, n + 1, n + 1 + 1, q)
  BY <1>1, <1>2, <1>3 DEF Silent, About
<1>5. /\ \A q \in there : Knows(t, act, n + 1 + 1, q)
      /\ \A q \in CallPaths \ (there \cup {p}) : KnowsNot(t, act, n + 1 + 1, q)
  BY <1>2, <1>3, <1>4, KnowsOn
<1>6. Knows(t, act, n + 1 + 1, p)
  BY <1>2, <1>3 DEF Knows, Silent, s
<1>7. \A k \in 1 .. n + 1 : Finds(t, act, k)
  BY <1>1, <1>2, <1>3 DEF Finds
<1>8. Chain(t, act, there \cup {p})
  BY <1>2, <1>5, <1>6, <1>7 DEF Chain
<1>9. QED BY <1>8 DEF s, t

\* ... that is over, ...
LEMMA ChainRemoved ==
  ASSUME NEW sig \in Seq(Signals), NEW act, NEW there \in SUBSET CallPaths, Chain(sig, act, there),
         NEW p \in there
  PROVE  Chain(Append(sig, Signal("CallRemoved", p)), act, there \ {p})
<1> DEFINE s == Signal("CallRemoved", p)
           n == Len(sig)
<1>1. s \in Signals /\ s.kind = "CallRemoved" /\ s.path = p
  BY SignalTyped DEF Signal
<1> DEFINE t == Append(sig, s)
<1> HIDE DEF s, n
<1>2. /\ Len(t) = n + 1 /\ n \in Nat /\ t[n + 1] = s
      /\ \A k \in 1 .. n + 1 : k \in 1 .. n \/ k = n + 1
      /\ ChainUpTo(t, n, act, there)
  BY <1>1, ChainGrowsByOne DEF n
<1> HIDE DEF t
<1>3. /\ \A k \in 1 .. n : Finds(t, act, k)
      /\ \A q \in there : Knows(t, act, n + 1, q)
      /\ \A q \in CallPaths \ there : KnowsNot(t, act, n + 1, q)
  BY <1>2 DEF ChainUpTo
<1>4. \A q \in CallPaths \ {p} : Silent(t, n + 1, n + 1 + 1, q)
  BY <1>1, <1>2, <1>3 DEF Silent, About
<1>5. /\ \A q \in there \ {p} : Knows(t, act, n + 1 + 1, q)
      /\ \A q \in CallPaths \ there : KnowsNot(t, act, n + 1 + 1, q)
  BY <1>2, <1>3, <1>4, KnowsOn
<1>6. KnowsNot(t, act, n + 1 + 1, p)
  BY <1>2, <1>3 DEF KnowsNot, Silent, s
<1>7. \A k \in 1 .. n + 1 : Finds(t, act, k)
  BY <1>1, <1>2, <1>3 DEF Finds
<1>8. Chain(t, act, there \ {p})
  BY <1>2, <1>5, <1>6, <1>7 DEF Chain
<1>9. QED BY <1>8 DEF s, t

\* ... and the modem, which goes when no call is left.
LEMMA ChainModem ==
  ASSUME NEW sig \in Seq(Signals), NEW act, NEW there \in SUBSET CallPaths, Chain(sig, act, there),
         NEW kind \in {"ModemAdded", "ModemRemoved"}, kind = "ModemRemoved" => there = {}
  PROVE  Chain(Append(sig, Signal(kind, "none")), act, there)
<1> DEFINE s == Signal(kind, "none")
           n == Len(sig)
<1>1. s \in Signals /\ s.kind = kind
  BY SignalTyped DEF Signal
<1> DEFINE t == Append(sig, s)
<1> HIDE DEF s, n
<1>2. /\ Len(t) = n + 1 /\ n \in Nat /\ t[n + 1] = s
      /\ \A k \in 1 .. n + 1 : k \in 1 .. n \/ k = n + 1
      /\ ChainUpTo(t, n, act, there)
  BY <1>1, ChainGrowsByOne DEF n
<1> HIDE DEF t
<1>3. /\ \A k \in 1 .. n : Finds(t, act, k)
      /\ \A q \in there : Knows(t, act, n + 1, q)
      /\ \A q \in CallPaths \ there : KnowsNot(t, act, n + 1, q)
  BY <1>2 DEF ChainUpTo
<1>4. \A q \in CallPaths : Silent(t, n + 1, n + 1 + 1, q)
  BY <1>1, <1>2, <1>3 DEF Silent, About
<1>5. /\ \A q \in there : Knows(t, act, n + 1 + 1, q)
      /\ \A q \in CallPaths \ there : KnowsNot(t, act, n + 1 + 1, q)
  BY <1>2, <1>3, <1>4, KnowsOn
<1>6. \A k \in 1 .. n + 1 : Finds(t, act, k)
  BY <1>1, <1>2, <1>3 DEF Finds
<1>7. Chain(t, act, there)
  BY <1>2, <1>5, <1>6 DEF Chain
<1>8. QED BY <1>7 DEF s, t

\* All calls go, each once.
LEMMA ChainRemovedAll ==
  ASSUME NEW sig \in Seq(Signals), NEW act, NEW there \in SUBSET CallPaths, Chain(sig, act, there),
         NEW c \in Seq(Signals), \A i \in 1 .. Len(c) : \E p \in there : c[i] = Signal("CallRemoved", p),
         \A i, j \in 1 .. Len(c) : c[i] = c[j] => i = j,
         \A p \in there : \E i \in 1 .. Len(c) : c[i] = Signal("CallRemoved", p)
  PROVE  Chain(sig \o c, act, {})
<1>0. ASSUME NEW i \in 1 .. Len(c), NEW j \in 1 .. Len(c), NEW p, c[i] = Signal("CallRemoved", p),
             c[j] = Signal("CallRemoved", p)
      PROVE  i = j
  <2>1. c[i] = c[j]
    BY <1>0
  <2>2. QED BY <2>1
<1> DEFINE t == sig \o c
           n == Len(sig)
<1>1. /\ t \in Seq(Signals) /\ Len(t) = n + Len(c) /\ n \in Nat /\ Len(c) \in Nat
      /\ \A i \in 1 .. Len(c) : t[n + i] = c[i]
      /\ \A i \in 1 .. Len(sig) : t[i] = sig[i]
  BY ConcatProperties
<1> HIDE DEF t
<1>2. ChainUpTo(t, n, act, there)
  <2>1. Len(sig) <= Len(t)
    BY <1>1
  <2>2. QED BY <1>1, <2>1, ChainGrows
<1> HIDE DEF n
<1>3. ASSUME NEW p, NEW a \in 1 .. Len(c) + 1, NEW b \in a .. Len(c) + 1,
             \A i \in a .. b - 1 : c[i] # Signal("CallRemoved", p)
      PROVE  Silent(t, n + a, n + b, p)
  <2> SUFFICES ASSUME NEW j \in n + a .. (n + b) - 1
               PROVE  ~ About(t[j], p)
    BY DEF Silent
  <2>1. PICK i \in 1 .. Len(c) : j = n + i /\ i \in a .. b - 1
    <3>1. j - n \in 1 .. Len(c) /\ j = n + (j - n) /\ j - n \in a .. b - 1
      BY <1>1
    <3>2. QED BY <3>1
  <2>2. t[j] = c[i] /\ c[i] # Signal("CallRemoved", p)
    BY <1>1, <1>3, <2>1
  <2>3. PICK q \in there : c[i] = Signal("CallRemoved", q)
    OBVIOUS
  <2>4. QED BY <2>2, <2>3 DEF About, Signal
<1>4. ASSUME NEW i \in 1 .. Len(c)
      PROVE  Finds(t, act, n + i)
  <2>1. PICK p \in there : c[i] = Signal("CallRemoved", p)
    OBVIOUS
  <2>2. Silent(t, n + 1, n + i, p)
    <3>1. \A j \in 1 .. i - 1 : c[j] # Signal("CallRemoved", p)
      <4>1. \A j \in 1 .. i - 1 : j \in 1 .. Len(c) /\ j # i
        BY <1>1, SMTT(30)
      <4>2. QED BY <1>0, <2>1, <4>1
    <3>2. 1 \in 1 .. Len(c) + 1 /\ i \in 1 .. Len(c) + 1
      BY <1>1, SMTT(30)
    <3>3. QED BY <1>3, <3>1, <3>2
  <2>3. Knows(t, act, n + i, p)
    <3>1. Knows(t, act, n + 1, p) /\ n + 1 \in Nat \ {0} /\ n + i \in Nat /\ n + 1 <= n + i
      BY <1>1, <1>2 DEF ChainUpTo
    <3>2. QED BY <2>2, <3>1, KnowsOn
  <2>4. t[n + i] = Signal("CallRemoved", p)
    BY <1>1, <2>1
  <2>5. QED BY <2>3, <2>4 DEF Finds, Signal
<1>5. \A k \in 1 .. Len(t) : Finds(t, act, k)
  <2> SUFFICES ASSUME NEW k \in 1 .. Len(t)
               PROVE  Finds(t, act, k)
    OBVIOUS
  <2>1. CASE k \in 1 .. n
    BY <1>2, <2>1 DEF ChainUpTo
  <2>2. CASE k \notin 1 .. n
    <3>1. k - n \in 1 .. Len(c) /\ n + (k - n) = k
      BY <1>1, <2>2
    <3>2. QED BY <1>4, <3>1
  <2>3. QED BY <2>1, <2>2
<1>6. ASSUME NEW p \in there
      PROVE  KnowsNot(t, act, Len(t) + 1, p)
  <2>1. PICK i \in 1 .. Len(c) : c[i] = Signal("CallRemoved", p)
    OBVIOUS
  <2>2. \A j \in i + 1 .. (Len(c) + 1) - 1 : c[j] # Signal("CallRemoved", p)
    <3>1. \A j \in i + 1 .. (Len(c) + 1) - 1 : j \in 1 .. Len(c) /\ j # i
      BY <1>1
    <3>2. QED BY <1>0, <2>1, <3>1
  <2>3. Silent(t, n + (i + 1), n + (Len(c) + 1), p)
    <3>1. i + 1 \in 1 .. Len(c) + 1 /\ Len(c) + 1 \in i + 1 .. Len(c) + 1
      BY <1>1
    <3>2. QED BY <1>3, <2>2, <3>1
  <2>4. t[n + i] = Signal("CallRemoved", p)
    BY <1>1, <2>1
  <2>5. /\ n + i \in 1 .. (Len(t) + 1) - 1
        /\ n + (i + 1) = (n + i) + 1 /\ n + (Len(c) + 1) = Len(t) + 1
    BY <1>1
  <2>6. QED BY <2>3, <2>4, <2>5 DEF KnowsNot
<1>7. ASSUME NEW p \in CallPaths \ there
      PROVE  KnowsNot(t, act, Len(t) + 1, p)
  <2>1. \A j \in 1 .. (Len(c) + 1) - 1 : c[j] # Signal("CallRemoved", p)
    <3> SUFFICES ASSUME NEW j \in 1 .. Len(c)
                 PROVE  c[j] # Signal("CallRemoved", p)
      BY <1>1
    <3>1. PICK q \in there : c[j] = Signal("CallRemoved", q)
      OBVIOUS
    <3>2. QED BY <3>1 DEF Signal
  <2>2. Silent(t, n + 1, n + (Len(c) + 1), p)
    <3>1. 1 \in 1 .. Len(c) + 1 /\ Len(c) + 1 \in 1 .. Len(c) + 1
      BY <1>1
    <3>2. QED BY <1>3, <2>1, <3>1
  <2>3. /\ KnowsNot(t, act, n + 1, p) /\ n + 1 \in Nat \ {0} /\ Len(t) + 1 \in Nat
        /\ n + 1 <= Len(t) + 1 /\ n + (Len(c) + 1) = Len(t) + 1
    BY <1>1, <1>2 DEF ChainUpTo
  <2>4. QED BY <2>2, <2>3, KnowsOn
<1>8. Chain(t, act, {})
  BY <1>5, <1>6, <1>7 DEF Chain
<1>9. QED BY <1>8 DEF t

-----------------------------------------------------------------------------
(* The invariant.                                                          *)

\* A CALL_STATE other than IDLE is that of a known call, or of a request that is answered
\* in any case; a request to hang up needs a known call.
Justified(st) ==
  \/ st = "IDLE" \/ activeCallPaths # {}
  \/ /\ st = "PROCESSING"
     /\ mainWorker # "idle" \/ \E i \in 1 .. Len(toHardware) : toHardware[i] \in {"Dial", "Answer"}

\* As long as no call overlaps another one, there is one at most, ...
Alone ==
  /\ Present # {} => modem
  /\ \A p, q \in Present : p = q
  /\ \A p \in Present : call[p] = "dialing" => p \in numbers

\* ... the last signal is about it, and its handling will say what it is, ...
LastSignal(p) ==
  LET s == signals[Len(signals)] IN
  \/ s = Signal("CallAdded", p) /\ call[p] \in {"incoming", "waiting", "dialing"}
  \/ s = Signal("CallChanged", p) /\ call[p] # "dialing"

\* ... or it has been handled, and CALL_STATE will be what the call is unless a request is
\* still to be answered.
Told(st, p) ==
  /\ signals # <<>> => LastSignal(p)
  /\ signals = <<>> /\ toHardware = <<>> /\ mainWorker = "idle" => st \in Expected(p)

AloneInv(st) == ~ overlapped => Alone /\ (~ refused => \A p \in Present : Told(st, p))

Known == Chain(signals, activeCallPaths, Present)

Holds(st) == /\ Comes(toCore, callState, st)
             /\ AloneInv(st)
             /\ ~ lost => Known /\ Justified(st)

Inv == \E st \in CoreStates : Holds(st)

LEMMA InvInit == Init => Inv
<1> SUFFICES ASSUME Init
             PROVE  Holds("IDLE")
  BY DEF Inv, CoreStates
<1>1. Present = {}
  BY DEF Init, Present
<1>2. Comes(toCore, callState, "IDLE")
  BY DEF Init, Comes, IsLast
<1>3. Known
  BY <1>1 DEF Init, Known, Chain, KnowsNot, Silent
<1>4. QED BY <1>1, <1>2, <1>3 DEF Holds, AloneInv, Alone, Justified

LEMMA AloneKept ==
  ASSUME NEW st, AloneInv(st), UNCHANGED <<modem, call, numbers, overlapped, refused, signals>>,
         toHardware' # <<>> \/ mainWorker' # "idle" \/ UNCHANGED <<toHardware, mainWorker>>
  PROVE  AloneInv(st)'
<1>1. Present' = Present /\ Alone' = Alone
  BY DEF Present, Alone
<1>2. \A p \in Present : LastSignal(p)' = LastSignal(p) /\ Expected(p)' = Expected(p)
  BY DEF LastSignal, Expected
<1>3. \A p \in Present : Told(st, p) => Told(st, p)'
  BY <1>2 DEF Told
<1>4. overlapped' = overlapped /\ refused' = refused
  OBVIOUS
<1>5. QED BY <1>1, <1>3, <1>4 DEF AloneInv

LEMMA KnownKept == Known /\ UNCHANGED <<signals, activeCallPaths, call>> => Known'
BY DEF Known, Present

LEMMA InvCore == Types /\ Inv /\ CoreStep => Inv'
<1> SUFFICES ASSUME Types, NEW st \in CoreStates, Holds(st), CoreStep
             PROVE  \E next \in CoreStates : Holds(next)'
  BY DEF Inv
<1>1. UNCHANGED <<mainWorker, activeCallPaths, signals, modem, call, numbers, overlapped, refused, lost>>
  BY DEF CoreStep, DialCall, AnswerCall, HangupCall, Send, ReceiveNoti, IncomingCallNOTI, OutgoingCallNOTI,
         CallStateChangedNOTI, CallEndedNOTI, DialCallNOTI, AnswerCallNOTI, HangupCallNOTI,
         PbapSessionEndNOTI, manager, ofono
<1>2. ~ lost' => Known'
  BY <1>1, KnownKept DEF Holds
<1>3. CASE DialCall \/ AnswerCall \/ HangupCall
  <2>1. PICK cmd \in Commands :
          /\ toHardware' = Append(toHardware, cmd) /\ callState' = "PROCESSING" /\ toCore' = toCore
          /\ cmd = "HangupAll" => callState \in {"OUTCOMING", "INCOMING", "CALLING"}
    BY <1>3 DEF DialCall, AnswerCall, HangupCall, Send, Commands
  <2>2. /\ toHardware' # <<>> /\ Len(toHardware') = Len(toHardware) + 1 /\ Len(toHardware) \in Nat
        /\ toHardware'[Len(toHardware')] = cmd
        /\ \A i \in 1 .. Len(toHardware) : toHardware'[i] = toHardware[i]
    BY <2>1 DEF Types
  <2>3. \A next : AloneInv(next)'
    <3>1. AloneInv(st)'
      BY <1>1, <2>2, AloneKept DEF Holds
    <3>2. QED BY <2>2, <3>1 DEF AloneInv, Told
  <2>4. \/ Comes(toCore, "PROCESSING", st)
        \/ st = callState /\ Comes(toCore, "PROCESSING", "PROCESSING")
    BY ComesSet DEF Holds
  <2>5. CASE Comes(toCore, "PROCESSING", st)
    <3>1. Justified(st) => Justified(st)'
      BY <1>1, <2>2 DEF Justified
    <3>2. Comes(toCore', callState', st)
      BY <2>1, <2>5
    <3>3. QED BY <1>1, <1>2, <2>3, <3>1, <3>2 DEF Holds
  <2>6. CASE st = callState /\ Comes(toCore, "PROCESSING", "PROCESSING")
    <3>1. Justified(st) => Justified("PROCESSING")'
      <4>1. CASE cmd = "HangupAll"
        BY <1>1, <2>1, <2>6, <4>1 DEF Justified
      <4>2. CASE cmd # "HangupAll"
        BY <2>2, <4>2 DEF Justified, Commands
      <4>3. QED BY <4>1, <4>2
    <3>2. Comes(toCore', callState', "PROCESSING") /\ "PROCESSING" \in CoreStates
      BY <2>1, <2>6 DEF CoreStates
    <3>3. QED BY <1>1, <1>2, <2>3, <3>1, <3>2 DEF Holds
  <2>7. QED BY <2>4, <2>5, <2>6
<1>4. CASE ~ (DialCall \/ AnswerCall \/ HangupCall)
  <2>1. \/ IncomingCallNOTI \/ OutgoingCallNOTI \/ CallStateChangedNOTI \/ CallEndedNOTI
        \/ DialCallNOTI \/ AnswerCallNOTI \/ HangupCallNOTI \/ PbapSessionEndNOTI
    BY <1>4 DEF CoreStep
  <2>2. toHardware' = toHardware
    BY <2>1 DEF ReceiveNoti, IncomingCallNOTI, OutgoingCallNOTI, CallStateChangedNOTI, CallEndedNOTI,
                DialCallNOTI, AnswerCallNOTI, HangupCallNOTI, PbapSessionEndNOTI
  <2>3. Comes(toCore', callState', st)
    BY <2>1, ComesRead DEF Holds
  <2>4. AloneInv(st)'
    BY <1>1, <2>2, AloneKept DEF Holds
  <2>5. Justified(st) => Justified(st)'
    BY <1>1, <2>2 DEF Justified
  <2>6. QED BY <1>1, <1>2, <2>3, <2>4, <2>5 DEF Holds
<1>5. QED BY <1>3, <1>4

\* The last of a sequence when some are appended, or the first is taken.
LEMMA LastAfter ==
  /\ \A s, c \in Seq(Signals) : /\ Len(c) > 0 => s \o c # <<>> /\ (s \o c)[Len(s \o c)] = c[Len(c)]
                                /\ Len(c) = 0 => s \o c = s
  /\ \A s \in Seq(Signals), e \in Signals :
       Append(s, e) # <<>> /\ Append(s, e)[Len(Append(s, e))] = e
  /\ \A s \in Seq(Signals) : s # <<>> => IF Tail(s) = <<>> THEN Head(s) = s[Len(s)]
                                        ELSE Tail(s)[Len(Tail(s))] = s[Len(s)]
<1>1. ASSUME NEW s \in Seq(Signals), NEW c \in Seq(Signals)
      PROVE  /\ Len(c) > 0 => s \o c # <<>> /\ (s \o c)[Len(s \o c)] = c[Len(c)]
             /\ Len(c) = 0 => s \o c = s
  <2>1. /\ s \o c \in Seq(Signals) /\ Len(s \o c) = Len(s) + Len(c) /\ Len(s) \in Nat /\ Len(c) \in Nat
        /\ \A i \in 1 .. Len(c) : (s \o c)[Len(s) + i] = c[i]
    BY ConcatProperties
  <2>2. Len(c) > 0 => (s \o c)[Len(s \o c)] = c[Len(c)] /\ s \o c # <<>>
    BY <2>1
  <2>3. Len(c) = 0 => s \o c = s
    <3>1. Len(c) = 0 => c = <<>>
      BY EmptySeq
    <3>2. QED BY <3>1, ConcatEmptySeq
  <2>4. QED BY <2>2, <2>3
<1>2. ASSUME NEW s \in Seq(Signals), NEW e \in Signals
      PROVE  Append(s, e) # <<>> /\ Append(s, e)[Len(Append(s, e))] = e
  <2>1. Len(Append(s, e)) = Len(s) + 1 /\ Append(s, e)[Len(s) + 1] = e /\ Len(s) \in Nat
    OBVIOUS
  <2>2. QED BY <2>1
<1>3. ASSUME NEW s \in Seq(Signals), s # <<>>
      PROVE  IF Tail(s) = <<>> THEN Head(s) = s[Len(s)] ELSE Tail(s)[Len(Tail(s))] = s[Len(s)]
  <2>1. /\ Tail(s) \in Seq(Signals) /\ Len(Tail(s)) = Len(s) - 1 /\ Len(s) \in Nat \ {0} /\ Head(s) = s[1]
        /\ \A i \in 1 .. Len(s) - 1 : Tail(s)[i] = s[i + 1]
    BY <1>3
  <2>2. CASE Tail(s) = <<>>
    BY <2>1, <2>2
  <2>3. CASE Tail(s) # <<>>
    <3>1. Len(Tail(s)) # 0
      BY <2>1, <2>3
    <3>2. QED BY <2>1, <2>3, <3>1
  <2>4. QED BY <2>2, <2>3
<1>4. QED BY <1>1, <1>2, <1>3

\* What is signalled when calls to oFono change a call that is alone.
LEMMA ChangedTold ==
  ASSUME Types, Alone, NEW new, signals' = signals \o ChangedSignals(new),
         NEW p \in Present, call'[p] = new[p], new[p] # "dialing"
  PROVE  /\ new[p] # call[p] => signals' # <<>> /\ LastSignal(p)'
         /\ new[p] = call[p] => signals' = signals
<1>1. PICK c : c = ChangedSignals(new)
  OBVIOUS
<1>2. /\ c \in Seq(Signals)
      /\ \A i \in 1 .. Len(c) : \E q \in Present : c[i] = Signal("CallChanged", q) /\ new[q] # call[q]
      /\ \A q \in Present : new[q] # call[q] => Len(c) > 0
  BY <1>1, ChangedSignalsAre, SMTT(30) DEF Types
<1>3. /\ Len(c) > 0 => signals' # <<>> /\ signals'[Len(signals')] = c[Len(c)]
      /\ Len(c) = 0 => signals' = signals
      /\ Len(c) \in Nat
  BY <1>1, <1>2, LastAfter DEF Types
<1>4. \A i \in 1 .. Len(c) : c[i] = Signal("CallChanged", p) /\ new[p] # call[p]
  BY <1>2 DEF Alone
<1>5. ASSUME new[p] # call[p]
      PROVE  signals' # <<>> /\ LastSignal(p)'
  <2>1. Len(c) > 0 /\ Len(c) \in 1 .. Len(c)
    BY <1>2, <1>3, <1>5
  <2>2. QED BY <1>3, <1>4, <2>1 DEF LastSignal
<1>6. ASSUME new[p] = call[p]
      PROVE  signals' = signals
  <2>1. Len(c) = 0
    BY <1>3, <1>4, <1>6
  <2>2. QED BY <1>3, <2>1
<1>7. QED BY <1>5, <1>6

LEMMA AloneDial ==
  ASSUME Types, NEW st \in CoreStates, AloneInv(st), NEW p \in CallPaths, Dial(p)
  PROVE  AloneInv("IDLE")'
<1>1. /\ NewCall(p) /\ call' = [ActiveHeld EXCEPT ![p] = "dialing"] /\ numbers' = numbers \cup {p}
      /\ signals' = Append(signals \o ChangedSignals(ActiveHeld), Signal("CallAdded", p))
  BY DEF Dial
<1>2. Present' = Present \cup {p} /\ call'[p] = "dialing"
  BY <1>1, PresentAfter DEF Types, CallStates
<1>3. overlapped' = (overlapped \/ Present # {}) /\ modem' = modem /\ modem
  BY <1>1, Zenon DEF NewCall
<1> SUFFICES ASSUME ~ overlapped'
             PROVE  Alone' /\ \A q \in Present' : Told("IDLE", q)'
  BY DEF AloneInv
<1>4. Present' = {p}
  BY <1>2, <1>3
<1>5. Alone'
  BY <1>1, <1>3, <1>4 DEF Alone
<1>6. signals' # <<>> /\ signals'[Len(signals')] = Signal("CallAdded", p)
  <2>1. signals \o ChangedSignals(ActiveHeld) \in Seq(Signals)
    BY ChangedSignalsAre, Queues DEF Types
  <2>2. QED BY <1>1, <2>1, SignalTyped, LastAfter
<1>7. QED BY <1>2, <1>4, <1>5, <1>6 DEF Told, LastSignal

LEMMA AloneAnswer ==
  ASSUME Types, NEW st \in CoreStates, AloneInv(st), Answer
  PROVE  AloneInv("IDLE")'
<1>1. PICK p \in CallPaths : p = mainWorker
  BY DEF Answer, Answered, Types
<1> DEFINE new == [ActiveHeld EXCEPT ![p] = "active"]
<1>2. /\ Ringing(p) /\ call' = new /\ signals' = signals \o ChangedSignals(new)
      /\ UNCHANGED <<modem, numbers, overlapped, refused>>
  BY <1>1 DEF Answer, Answered
<1>3. p \in Present /\ new[p] = "active" /\ new[p] # call[p] /\ Present' = Present \cup {p}
  <2>1. ActiveHeld \in [CallPaths -> CallStates \cup {"none"}] /\ "active" \in CallStates
    BY PresentAfter DEF Types, CallStates
  <2>2. Present' = Present \cup {p}
    BY <1>2, <2>1, PresentAfter DEF Types
  <2>3. p \in Present /\ new[p] = "active" /\ new[p] # call[p]
    BY <1>2, <2>1 DEF Ringing, Present
  <2>4. QED BY <2>2, <2>3
<1> HIDE DEF new
<1> SUFFICES ASSUME ~ overlapped
             PROVE  Alone' /\ \A q \in Present' : Told("IDLE", q)'
  BY <1>2 DEF AloneInv
<1>4. Alone /\ Present' = {p}
  BY <1>3 DEF AloneInv, Alone
<1>5. signals' # <<>> /\ LastSignal(p)'
  BY <1>2, <1>3, <1>4, ChangedTold
<1>6. Alone'
  BY <1>2, <1>3, <1>4 DEF Alone
<1>7. QED BY <1>4, <1>5, <1>6 DEF Told

LEMMA AloneHangup ==
  ASSUME Types, NEW st \in CoreStates, AloneInv(st), HangupAll
  PROVE  AloneInv("IDLE")'
<1> DEFINE new == [p \in CallPaths |-> IF p \in Present THEN "disconnected" ELSE "none"]
<1>1. /\ call' = new /\ signals' = signals \o ChangedSignals(new)
      /\ UNCHANGED <<modem, numbers, overlapped, refused>>
  BY DEF HangupAll
<1>2. Present' = Present /\ \A p \in Present : new[p] = "disconnected" /\ p \in CallPaths
  BY <1>1, PresentAfterAll DEF Present
<1> HIDE DEF new
<1> SUFFICES ASSUME ~ overlapped
             PROVE  Alone' /\ (~ refused => \A q \in Present : Told("IDLE", q)')
  BY <1>1, <1>2 DEF AloneInv
<1>3. Alone /\ Alone'
  BY <1>1, <1>2 DEF AloneInv, Alone
<1>4. ASSUME ~ refused, NEW p \in Present
      PROVE  Told("IDLE", p)'
  <2>1. Told(st, p)
    BY <1>4 DEF AloneInv
  <2>2. /\ new[p] # call[p] => signals' # <<>> /\ LastSignal(p)'
        /\ new[p] = call[p] => signals' = signals
    BY <1>1, <1>2, <1>3, ChangedTold
  <2>3. LastSignal(p) /\ new[p] = call[p] => LastSignal(p)'
    BY <1>1, <2>2 DEF LastSignal
  <2>4. "IDLE" \in Expected(p)'
    BY <1>1, <1>2 DEF Expected
  <2>5. QED BY <2>1, <2>2, <2>3, <2>4 DEF Told
<1>5. QED BY <1>3, <1>4

LEMMA AloneRefused ==
  ASSUME NEW st, NEW next, AloneInv(st), UNCHANGED <<modem, call, numbers, overlapped>>, refused'
  PROVE  AloneInv(next)'
<1>1. Alone => Alone'
  BY DEF Alone, Present
<1>2. overlapped' = overlapped
  OBVIOUS
<1>3. QED BY <1>1, <1>2 DEF AloneInv

\* The chain after changes of calls that are there.
LEMMA KnownChanged ==
  ASSUME Types, Known, NEW new
  PROVE  Chain(signals \o ChangedSignals(new), activeCallPaths, Present)
<1>1. PICK c : c = ChangedSignals(new)
  OBVIOUS
<1>2. /\ c \in Seq(Signals)
      /\ \A i \in 1 .. Len(c) : \E q \in Present : c[i] = Signal("CallChanged", q)
  BY <1>1, ChangedSignalsAre DEF Types
<1>3. Present \in SUBSET CallPaths /\ signals \in Seq(Signals)
  BY DEF Present, Types
<1>4. Chain(signals \o c, activeCallPaths, Present)
  BY <1>2, <1>3, ChainChanged DEF Known
<1>5. QED BY <1>1, <1>4

LEMMA KnownMainWorker ==
  ASSUME Types, Known, MainWorkerStep
  PROVE  Known'
<1> USE DEF MainWorkerStep, DialFails, FindIncomingCall, NoIncomingCall, AnswerFails, Answered, HangupFails,
            Take
<1>1. UNCHANGED activeCallPaths
  BY DEF Dial, Answer, HangupAll
<1>2. CASE UNCHANGED <<signals, call>>
  BY <1>1, <1>2, KnownKept
<1>3. ASSUME NEW p \in CallPaths, Dial(p)
      PROVE  Known'
  <2>1. /\ NewCall(p) /\ call' = [ActiveHeld EXCEPT ![p] = "dialing"]
        /\ signals' = Append(signals \o ChangedSignals(ActiveHeld), Signal("CallAdded", p))
    BY <1>3 DEF Dial
  <2>2. Present' = Present \cup {p} /\ p \in CallPaths \ Present /\ Present \in SUBSET CallPaths
    BY <2>1, PresentAfter DEF Types, CallStates, NewCall, Present
  <2>3. Chain(signals \o ChangedSignals(ActiveHeld), activeCallPaths, Present)
    BY KnownChanged
  <2>4. signals \o ChangedSignals(ActiveHeld) \in Seq(Signals)
    BY ChangedSignalsAre, Queues DEF Types
  <2>5. Chain(Append(signals \o ChangedSignals(ActiveHeld), Signal("CallAdded", p)), activeCallPaths,
              Present \cup {p})
    BY <2>2, <2>3, <2>4, ChainAdded
  <2>6. QED BY <1>1, <2>1, <2>2, <2>5 DEF Known
<1>4. CASE Answer \/ HangupAll
  <2>1. PICK new : call' = new /\ signals' = signals \o ChangedSignals(new)
    BY <1>4 DEF Answer, HangupAll
  <2>2. Present' = Present
    <3>1. CASE Answer
      <4>1. PICK p \in CallPaths : p = mainWorker /\ p \in Present
                                   /\ call' = [ActiveHeld EXCEPT ![p] = "active"]
        BY <3>1 DEF Answer, Types, Ringing, Present
      <4>2. Present' = Present \cup {p}
        BY <4>1, PresentAfter DEF Types, CallStates
      <4>3. QED BY <4>1, <4>2
    <3>2. CASE HangupAll
      BY <3>2, PresentAfterAll DEF HangupAll
    <3>3. QED BY <1>4, <3>1, <3>2
  <2>3. QED BY <1>1, <2>1, <2>2, KnownChanged DEF Known
<1>5. QED BY <1>2, <1>3, <1>4 DEF ofono

LEMMA InvMainWorker == Types /\ Inv /\ MainWorkerStep => Inv'
<1> SUFFICES ASSUME Types, NEW st \in CoreStates, Holds(st), MainWorkerStep
             PROVE  \E next \in CoreStates : Holds(next)'
  BY DEF Inv
<1>1. UNCHANGED <<callState, activeCallPaths, lost>>
  BY DEF MainWorkerStep, Dial, DialFails, FindIncomingCall, NoIncomingCall, Answer, AnswerFails, Answered,
         HangupAll, HangupFails, Take, NewCall, ofono
<1>2. ~ lost' => Known'
  BY <1>1, KnownMainWorker DEF Holds
<1>3. ASSUME NEW cmd \in {"DIAL_CALL", "ANSWER_CALL", "HANGUP_CALL"}, Tell(cmd), AloneInv("IDLE")'
      PROVE  \E next \in CoreStates : Holds(next)'
  <2>1. Says(Noti(cmd)) /\ Shown(Noti(cmd)) = "IDLE" /\ Noti(cmd) \in Notis
    BY NotiTyped, ShownIs
  <2>2. Comes(toCore', callState', "IDLE")
    BY <1>1, <1>3, <2>1, ComesAppended DEF Tell, Types
  <2>3. Justified("IDLE")' /\ "IDLE" \in CoreStates
    BY DEF Justified, CoreStates
  <2>4. QED BY <1>2, <1>3, <2>2, <2>3 DEF Holds
<1>4. CASE NoIncomingCall \/ DialFails \/ AnswerFails \/ (HangupFails /\ modemPath)
  <2>1. AloneInv("IDLE")'
    BY <1>4, AloneRefused DEF Holds, NoIncomingCall, DialFails, AnswerFails, Answered, HangupFails, ofono
  <2>2. \E cmd \in {"DIAL_CALL", "ANSWER_CALL", "HANGUP_CALL"} : Tell(cmd)
    BY <1>4 DEF NoIncomingCall, DialFails, AnswerFails, Answered, HangupFails
  <2>3. QED BY <1>3, <2>1, <2>2
<1>5. CASE HangupFails /\ ~ modemPath
  <2>1. /\ UNCHANGED <<toCore, mainWorker, modem, call, numbers, overlapped>> /\ refused'
        /\ toHardware # <<>> /\ Head(toHardware) = "HangupAll" /\ toHardware' = Tail(toHardware)
    BY <1>5 DEF HangupFails, Take, ofono
  <2>2. /\ Len(toHardware) \in Nat /\ Len(Tail(toHardware)) = Len(toHardware) - 1
        /\ toHardware[1] = "HangupAll"
        /\ \A i \in 1 .. Len(toHardware) - 1 : Tail(toHardware)[i] = toHardware[i + 1]
    BY <2>1 DEF Types
  <2>3. \A i \in 1 .. Len(toHardware) : toHardware[i] \in {"Dial", "Answer"} =>
          i - 1 \in 1 .. Len(toHardware') /\ toHardware'[i - 1] = toHardware[i]
    BY <2>1, <2>2
  <2>4. Justified(st) => Justified(st)'
    BY <1>1, <2>1, <2>3 DEF Justified
  <2>5. AloneInv(st)'
    BY <2>1, AloneRefused DEF Holds
  <2>6. Comes(toCore', callState', st)
    BY <1>1, <2>1 DEF Holds
  <2>7. QED BY <1>1, <1>2, <2>4, <2>5, <2>6 DEF Holds
<1>6. ASSUME NEW p \in CallPaths, FindIncomingCall(p)
      PROVE  \E next \in CoreStates : Holds(next)'
  <2>1. /\ UNCHANGED <<toCore, modem, call, numbers, overlapped, refused, signals>>
        /\ mainWorker' # "idle"
    BY <1>6 DEF FindIncomingCall, Take, ofono
  <2>2. AloneInv(st)'
    BY <2>1, AloneKept DEF Holds
  <2>3. Justified(st) => Justified(st)'
    BY <1>1, <2>1 DEF Justified
  <2>4. Comes(toCore', callState', st)
    BY <1>1, <2>1 DEF Holds
  <2>5. QED BY <1>1, <1>2, <2>2, <2>3, <2>4 DEF Holds
<1>7. ASSUME NEW p \in CallPaths, Dial(p)
      PROVE  \E next \in CoreStates : Holds(next)'
  <2>1. Tell("DIAL_CALL")
    BY <1>7 DEF Dial
  <2>2. QED BY <1>3, <1>7, <2>1, AloneDial DEF Holds
<1>8. CASE Answer
  <2>1. Tell("ANSWER_CALL")
    BY <1>8 DEF Answer, Answered
  <2>2. QED BY <1>3, <1>8, <2>1, AloneAnswer DEF Holds
<1>9. CASE HangupAll
  <2>1. Tell("HANGUP_CALL")
    BY <1>9 DEF HangupAll
  <2>2. QED BY <1>3, <1>9, <2>1, AloneHangup DEF Holds
<1>10. QED BY <1>4, <1>5, <1>6, <1>7, <1>8, <1>9 DEF MainWorkerStep

\* A call that is alone comes, ...
LEMMA AloneComes ==
  ASSUME Types, NEW st, AloneInv(st), NEW p \in CallPaths, IncomingCall(p) \/ DialledOnPhone(p)
  PROVE  AloneInv(st)'
<1>1. PICK new \in {"incoming", "waiting", "dialing"} :
        /\ NewCall(p) /\ call' = [call EXCEPT ![p] = new] /\ (new = "dialing" => p \in numbers')
        /\ signals' = Append(signals, Signal("CallAdded", p))
  BY DEF IncomingCall, DialledOnPhone
<1>2. Present' = Present \cup {p} /\ call'[p] = new
  <2>1. new \in CallStates
    BY DEF CallStates
  <2>2. Present' = Present \cup {p}
    BY <1>1, <2>1, PresentAfter DEF Types
  <2>3. QED BY <1>1, <2>2 DEF Types
<1>3. overlapped' = (overlapped \/ Present # {}) /\ modem' = modem /\ modem
  BY <1>1, Zenon DEF NewCall
<1> SUFFICES ASSUME ~ overlapped'
             PROVE  Alone' /\ \A q \in Present' : Told(st, q)'
  BY DEF AloneInv
<1>4. Present' = {p}
  BY <1>2, <1>3
<1>5. Alone'
  BY <1>1, <1>2, <1>3, <1>4 DEF Alone
<1>6. signals' # <<>> /\ signals'[Len(signals')] = Signal("CallAdded", p)
  BY <1>1, SignalTyped, LastAfter DEF Types
<1>7. QED BY <1>2, <1>4, <1>5, <1>6 DEF Told, LastSignal

\* ... changes, ...
LEMMA AloneChanges ==
  ASSUME Types, NEW st, AloneInv(st), NEW p \in Present, NEW new \in CallStates, new # "dialing",
         call' = [call EXCEPT ![p] = new], signals' = Append(signals, Signal("CallChanged", p)),
         UNCHANGED <<modem, overlapped, refused>>, numbers \subseteq numbers'
  PROVE  AloneInv(st)'
<1>1. p \in CallPaths
  BY DEF Present
<1>2. Present' = Present /\ call'[p] = new
  <2>1. Present' = Present \cup {p}
    BY <1>1, PresentAfter DEF Types
  <2>2. QED BY <1>1, <2>1 DEF Types
<1> SUFFICES ASSUME ~ overlapped
             PROVE  Alone' /\ \A q \in Present' : Told(st, q)'
  BY DEF AloneInv
<1>3. Present' = {p}
  BY <1>2 DEF AloneInv, Alone
<1>4. Alone'
  BY <1>2, <1>3 DEF AloneInv, Alone
<1>5. signals' # <<>> /\ signals'[Len(signals')] = Signal("CallChanged", p)
  BY <1>1, SignalTyped, LastAfter DEF Types
<1>6. QED BY <1>2, <1>3, <1>4, <1>5 DEF Told, LastSignal

\* ... and is over.
LEMMA AloneOver ==
  ASSUME NEW st, ~ overlapped' => Present' = {}
  PROVE  AloneInv(st)'
BY DEF AloneInv, Alone

LEMMA AloneOfono ==
  ASSUME Types, NEW st, AloneInv(st), OfonoStep
  PROVE  AloneInv(st)'
<1>1. ASSUME NEW p \in CallPaths, IncomingCall(p) \/ DialledOnPhone(p)
      PROVE  AloneInv(st)'
  BY <1>1, AloneComes
<1>2. ASSUME NEW p \in CallPaths, NEW new \in CallStates, CallMoves(p, new) \/ CallDisconnects(p)
      PROVE  AloneInv(st)'
  <2>1. p \in Present /\ UNCHANGED <<modem, overlapped, refused>> /\ numbers \subseteq numbers'
        /\ signals' = Append(signals, Signal("CallChanged", p))
    BY <1>2 DEF CallMoves, CallDisconnects, Change, OfonoActs, Moves, Present
  <2>2. PICK to \in CallStates : to # "dialing" /\ call' = [call EXCEPT ![p] = to]
    BY <1>2 DEF CallMoves, CallDisconnects, Change, Moves, CallStates
  <2>3. QED BY <2>1, <2>2, AloneChanges
<1>3. ASSUME NEW p \in CallPaths, LearnNumber(p)
      PROVE  AloneInv(st)'
  <2>1. /\ p \in Present /\ UNCHANGED <<modem, overlapped, refused>> /\ numbers \subseteq numbers'
        /\ signals' = Append(signals, Signal("CallChanged", p))
        /\ call[p] \in CallStates /\ call[p] # "dialing"
    BY <1>3 DEF LearnNumber, OfonoActs, Ringing, Present, CallStates
  <2>2. call' = [call EXCEPT ![p] = call[p]]
    BY <1>3 DEF LearnNumber, Types
  <2>3. QED BY <2>1, <2>2, AloneChanges
<1>4. ASSUME NEW p \in CallPaths, CallRemoved(p)
      PROVE  AloneInv(st)'
  <2>1. Present' = Present \ {p} /\ p \in Present /\ overlapped' = overlapped
    BY <1>4, PresentAfter DEF CallRemoved, Types, Present
  <2>2. QED BY <2>1, AloneOver DEF AloneInv, Alone
<1>5. CASE ModemAdded
  <2>1. Present' = Present /\ ~ modem /\ overlapped' = overlapped
    BY <1>5 DEF ModemAdded, ModemChange, Present
  <2>2. QED BY <2>1, AloneOver DEF AloneInv, Alone
<1>6. CASE ModemRemoved
  BY <1>6, PresentAfterAll, AloneOver DEF ModemRemoved
<1>7. "active" \in CallStates
  BY DEF CallStates
<1>8. QED BY <1>1, <1>2, <1>3, <1>4, <1>5, <1>6, <1>7 DEF OfonoStep

LEMMA KnownOfono ==
  ASSUME Types, Known, OfonoStep, ~ lost'
  PROVE  Known'
<1>1. /\ UNCHANGED activeCallPaths /\ signals \in Seq(Signals) /\ Present \in SUBSET CallPaths
  BY DEF OfonoStep, IncomingCall, DialledOnPhone, CallDisconnects, LearnNumber, CallRemoved, CallMoves,
         ModemAdded, ModemRemoved, ModemChange, OfonoActs, manager, Types, Present
<1>2. ASSUME NEW p \in CallPaths, IncomingCall(p) \/ DialledOnPhone(p)
      PROVE  Known'
  <2>1. PICK new \in CallStates :
          /\ call' = [call EXCEPT ![p] = new] /\ p \notin Present
          /\ signals' = Append(signals, Signal("CallAdded", p))
    BY <1>2 DEF IncomingCall, DialledOnPhone, NewCall, CallStates, Present
  <2>2. Present' = Present \cup {p}
    BY <2>1, PresentAfter DEF Types
  <2>3. Chain(Append(signals, Signal("CallAdded", p)), activeCallPaths, Present \cup {p})
    BY <1>1, <2>1, ChainAdded DEF Known
  <2>4. QED BY <1>1, <2>1, <2>2, <2>3 DEF Known
<1>3. ASSUME NEW p \in CallPaths, NEW new \in CallStates,
             CallMoves(p, new) \/ CallDisconnects(p) \/ LearnNumber(p)
      PROVE  Known'
  <2>1. /\ signals' = Append(signals, Signal("CallChanged", p)) /\ p \in Present
        /\ call' = call \/ \E st \in CallStates : call' = [call EXCEPT ![p] = st]
    BY <1>3 DEF CallMoves, CallDisconnects, LearnNumber, Change, Moves, Ringing, Present, CallStates
  <2>2. Present' = Present
    <3>1. CASE call' = call
      BY <3>1, PresentAfterAll
    <3>2. ASSUME NEW st \in CallStates, call' = [call EXCEPT ![p] = st]
          PROVE  Present' = Present
      <4>1. Present' = Present \cup {p}
        BY <3>2, PresentAfter DEF Types
      <4>2. QED BY <2>1, <4>1
    <3>3. QED BY <2>1, <3>1, <3>2
  <2>3. Chain(signals \o <<Signal("CallChanged", p)>>, activeCallPaths, Present)
    <3>1. PICK c : c = <<Signal("CallChanged", p)>>
      OBVIOUS
    <3>2. c \in Seq(Signals) /\ \A i \in 1 .. Len(c) : \E q \in Present : c[i] = Signal("CallChanged", q)
      BY <2>1, <3>1, SignalTyped
    <3>3. Chain(signals \o c, activeCallPaths, Present)
      BY <1>1, <3>2, ChainChanged DEF Known
    <3>4. QED BY <3>1, <3>3
  <2>4. signals' = signals \o <<Signal("CallChanged", p)>>
    BY <1>1, <2>1, SignalTyped, AppendIsConcat
  <2>5. QED BY <1>1, <2>2, <2>3, <2>4 DEF Known
<1>4. ASSUME NEW p \in CallPaths, CallRemoved(p)
      PROVE  Known'
  <2>1. /\ signals' = Append(signals, Signal("CallRemoved", p)) /\ p \in Present
        /\ call' = [call EXCEPT ![p] = "none"]
    BY <1>4 DEF CallRemoved, Present
  <2>2. Present' = Present \ {p}
    BY <2>1, PresentAfter DEF Types
  <2>3. Chain(Append(signals, Signal("CallRemoved", p)), activeCallPaths, Present \ {p})
    BY <1>1, <2>1, ChainRemoved DEF Known
  <2>4. QED BY <1>1, <2>1, <2>2, <2>3 DEF Known
<1>5. CASE ModemAdded
  <2>1. signals' = Append(signals, Signal("ModemAdded", "none")) /\ Present' = Present
    BY <1>5 DEF ModemAdded, Present
  <2>2. Chain(Append(signals, Signal("ModemAdded", "none")), activeCallPaths, Present)
    BY <1>1, ChainModem DEF Known
  <2>3. QED BY <1>1, <2>1, <2>2 DEF Known
<1>6. CASE ModemRemoved
  <2>1. PICK gone, c : /\ gone = SetToSeq(Present)
                       /\ c = [i \in 1 .. Len(gone) |-> Signal("CallRemoved", gone[i])]
    OBVIOUS
  <2>2. signals' = Append(signals \o c, Signal("ModemRemoved", "none")) /\ Present' = {}
    BY <1>6, <2>1, PresentAfterAll DEF ModemRemoved
  <2>3. /\ c \in Seq(Signals)
        /\ \A i \in 1 .. Len(c) : \E p \in Present : c[i] = Signal("CallRemoved", p)
        /\ \A i, j \in 1 .. Len(c) : c[i] = c[j] => i = j
        /\ \A p \in Present : \E i \in 1 .. Len(c) : c[i] = Signal("CallRemoved", p)
    BY <2>1, RemovedSignalsAre, SMTT(30) DEF Types
  <2>4. Chain(signals \o c, activeCallPaths, {}) /\ signals \o c \in Seq(Signals)
    BY <1>1, <2>3, ChainRemovedAll, Queues DEF Known
  <2>5. Chain(Append(signals \o c, Signal("ModemRemoved", "none")), activeCallPaths, {})
    BY <2>4, ChainModem
  <2>6. QED BY <1>1, <2>2, <2>5 DEF Known
<1>7. "active" \in CallStates
  BY DEF CallStates
<1>8. QED BY <1>2, <1>3, <1>4, <1>5, <1>6, <1>7 DEF OfonoStep

LEMMA InvOfono == Types /\ Inv /\ OfonoStep => Inv'
<1> SUFFICES ASSUME Types, NEW st \in CoreStates, Holds(st), OfonoStep
             PROVE  Holds(st)'
  BY DEF Inv
<1>1. UNCHANGED <<callState, toHardware, toCore, mainWorker, activeCallPaths>>
  BY DEF OfonoStep, IncomingCall, DialledOnPhone, CallDisconnects, LearnNumber, CallRemoved, CallMoves,
         ModemAdded, ModemRemoved, ModemChange, OfonoActs, manager
<1>2. ~ lost' => ~ lost
  BY DEF OfonoStep, IncomingCall, DialledOnPhone, CallDisconnects, LearnNumber, CallRemoved, CallMoves,
         Change, NewCall, ModemAdded, ModemRemoved
<1>3. ~ lost' => Known' /\ Justified(st)'
  <2>1. Justified(st) => Justified(st)'
    BY <1>1 DEF Justified
  <2>2. QED BY <1>2, <2>1, KnownOfono DEF Holds
<1>4. AloneInv(st)'
  BY AloneOfono DEF Holds
<1>5. Comes(toCore', callState', st)
  BY <1>1 DEF Holds
<1>6. QED BY <1>3, <1>4, <1>5 DEF Holds

-----------------------------------------------------------------------------
(* BluetoothWorker handles a signal.                                        *)

\* The steps have this in common.
Handles == /\ UNCHANGED <<callState, toHardware, mainWorker, modem, call, numbers, overlapped, refused, lost>>
           /\ mainWorker = "idle" /\ signals # <<>> /\ signals' = Tail(signals)

LEMMA WorkerHandles == WorkerStep => Handles
BY DEF WorkerStep, HandleModemAdded, HandleModemRemoved, HandleCallAdded, HandleVoiceCallPropertyChanged,
       HandleCallRemoved, Dispatch, Handles, ofono

\* The chain holds on, and the calls known are those the signal leaves.
LEMMA KnownHandled ==
  ASSUME Types, Known, Handles, Updates(Head(signals), activeCallPaths, activeCallPaths')
  PROVE  Known'
<1>1. Present' = Present /\ Present \in SUBSET CallPaths
  BY DEF Handles, Present
<1>2. Chain(Tail(signals), activeCallPaths', Present)
  BY <1>1, ChainTail DEF Types, Known, Handles
<1>3. QED BY <1>1, <1>2 DEF Known, Handles

\* The last signal about the call that is alone says what it is, one before the last need not.
LEMMA AloneHandled ==
  ASSUME Types, NEW st, NEW next, AloneInv(st), Handles,
         \A p \in Present : ~ overlapped /\ LastSignal(p) /\ Head(signals) = signals[Len(signals)] =>
                             next \in Expected(p)
  PROVE  AloneInv(next)'
<1>1. Present' = Present /\ Alone' = Alone
  BY DEF Handles, Present, Alone
<1>2. \A p \in Present : Expected(p)' = Expected(p)
  BY DEF Handles, Expected
<1>3. ASSUME NEW p \in Present, Told(st, p), ~ overlapped
      PROVE  Told(next, p)'
  <2>1. LastSignal(p)
    BY <1>3 DEF Told, Handles
  <2>2. IF Tail(signals) = <<>> THEN Head(signals) = signals[Len(signals)]
        ELSE Tail(signals)[Len(Tail(signals))] = signals[Len(signals)]
    BY LastAfter DEF Handles, Types
  <2>3. CASE Tail(signals) = <<>>
    BY <1>2, <1>3, <2>1, <2>2, <2>3 DEF Told, Handles
  <2>4. CASE Tail(signals) # <<>>
    <3>1. LastSignal(p)'
      BY <2>1, <2>2, <2>4 DEF LastSignal, Handles
    <3>2. QED BY <2>4, <3>1 DEF Told, Handles
  <2>5. QED BY <2>3, <2>4
<1>4. overlapped' = overlapped /\ refused' = refused
  BY DEF Handles
<1>5. QED BY <1>1, <1>3, <1>4 DEF AloneInv

\* The head of the signals is one, and while no call was lost it finds what it is about.
LEMMA HeadSignal ==
  ASSUME Types, Handles
  PROVE  /\ Head(signals) \in Signals /\ Head(signals) = signals[1]
         /\ Known => Finds(signals, activeCallPaths, 1)
<1>1. Head(signals) \in Signals /\ Head(signals) = signals[1] /\ 1 \in 1 .. Len(signals)
  BY DEF Types, Handles
<1>2. QED BY <1>1 DEF Known, Chain

\* Before the first signal, what is known is what activeCallPaths says.
LEMMA KnownFirst ==
  ASSUME NEW p
  PROVE  /\ Knows(signals, activeCallPaths, 1, p) => p \in activeCallPaths
         /\ KnowsNot(signals, activeCallPaths, 1, p) => p \notin activeCallPaths
BY DEF Knows, KnowsNot

\* What the head being the last signal about a call means for it.
LEMMA HeadIsLast ==
  ASSUME NEW p, LastSignal(p), Head(signals) = signals[Len(signals)]
  PROVE  /\ Head(signals).kind \in {"CallAdded", "CallChanged"} /\ Head(signals).path = p
         /\ Head(signals).kind = "CallAdded" => call[p] \in {"incoming", "waiting", "dialing"}
         /\ Head(signals).kind = "CallChanged" => call[p] # "dialing"
BY DEF LastSignal, Signal

LEMMA InvModem == Types /\ Inv /\ (HandleModemAdded \/ HandleModemRemoved) => Inv'
<1> SUFFICES ASSUME Types, NEW st \in CoreStates, Holds(st), HandleModemAdded \/ HandleModemRemoved
             PROVE  Holds(st)'
  BY DEF Inv
<1>1. Handles
  BY WorkerHandles DEF WorkerStep
<1>2. /\ Head(signals).kind \in {"ModemAdded", "ModemRemoved"}
      /\ Head(signals).kind = "ModemAdded" => UNCHANGED <<toCore, activeCallPaths>>
      /\ Head(signals).kind = "ModemRemoved" => activeCallPaths' = {} /\ Tell("PBAP_SESSION_END")
  BY DEF HandleModemAdded, HandleModemRemoved, Dispatch
<1>3. Known => activeCallPaths' = activeCallPaths
  <2>1. CASE Head(signals).kind = "ModemAdded"
    BY <1>2, <2>1
  <2>2. ASSUME Head(signals).kind = "ModemRemoved", Known
        PROVE  activeCallPaths = {}
    <3>1. \A p \in CallPaths : KnowsNot(signals, activeCallPaths, 1, p)
      BY <1>1, <2>2, HeadSignal DEF Finds
    <3>2. \A p \in CallPaths : p \notin activeCallPaths
      BY <3>1, KnownFirst
    <3>3. QED BY <3>2 DEF Types
  <2>3. QED BY <1>2, <2>1, <2>2
<1>4. Known => Updates(Head(signals), activeCallPaths, activeCallPaths')
  BY <1>2, <1>3 DEF Updates, Signal
<1>5. ~ lost' => Known' /\ Justified(st)'
  <2>1. lost' = lost /\ UNCHANGED <<toHardware, mainWorker>>
    BY <1>1 DEF Handles
  <2>2. Known /\ Justified(st) => Justified(st)'
    BY <1>3, <2>1 DEF Justified
  <2>3. QED BY <1>1, <1>4, <2>1, <2>2, KnownHandled DEF Holds
<1>6. AloneInv(st)'
  BY <1>1, <1>2, HeadIsLast, AloneHandled DEF Holds
<1>7. Comes(toCore', callState', st)
  <2>1. callState' = callState
    BY <1>1 DEF Handles
  <2>2. CASE UNCHANGED toCore
    BY <2>1, <2>2 DEF Holds
  <2>3. CASE Tell("PBAP_SESSION_END")
    <3>1. ~ Says(Noti("PBAP_SESSION_END")) /\ Noti("PBAP_SESSION_END") \in Notis
      BY NotiTyped, ShownIs
    <3>2. QED BY <2>1, <2>3, <3>1, ComesAppended DEF Holds, Tell, Types
  <2>4. QED BY <1>2, <2>2, <2>3
<1>8. QED BY <1>5, <1>6, <1>7 DEF Holds

LEMMA InvCallAdded == Types /\ Inv /\ HandleCallAdded => Inv'
<1> SUFFICES ASSUME Types, NEW st \in CoreStates, Holds(st), HandleCallAdded
             PROVE  \E next \in CoreStates : Holds(next)'
  BY DEF Inv
<1>1. Handles
  BY WorkerHandles DEF WorkerStep
<1>2. PICK p \in CallPaths : Head(signals) = Signal("CallAdded", p)
  <2>1. Head(signals) \in Signals /\ Head(signals).kind = "CallAdded"
    BY <1>1, HeadSignal DEF HandleCallAdded, Dispatch
  <2>2. QED BY <2>1 DEF Signals, Signal
<1>3. /\ activeCallPaths' = activeCallPaths \cup {p}
      /\ CASE p \in numbers /\ Ringing(p) -> Tell("INCOMING_CALL")
           [] p \in numbers /\ call[p] \in {"dialing", "alerting"} -> Tell("OUTGOING_CALL")
           [] OTHER -> UNCHANGED toCore
  <2>1. Head(signals).path = p
    BY <1>2 DEF Signal
  <2>2. QED BY <2>1 DEF HandleCallAdded
<1>4. Updates(Head(signals), activeCallPaths, activeCallPaths')
  BY <1>2, <1>3 DEF Updates, Signal
<1>5. lost' = lost /\ callState' = callState
  BY <1>1 DEF Handles
<1>6. ASSUME NEW next \in CoreStates, Comes(toCore', callState', next), AloneInv(next)'
      PROVE  \E later \in CoreStates : Holds(later)'
  <2>1. Justified(next)'
    BY <1>3 DEF Justified
  <2>2. QED BY <1>1, <1>4, <1>5, <1>6, <2>1, KnownHandled DEF Holds
<1>7. ASSUME NEW next \in CoreStates,
             ~ overlapped /\ p \in Present /\ call[p] \in {"incoming", "waiting", "dialing"} =>
               next \in Expected(p)
      PROVE  AloneInv(next)'
  <2>1. Head(signals).path = p /\ Head(signals).kind = "CallAdded"
    BY <1>2 DEF Signal
  <2>2. QED BY <1>1, <1>7, <2>1, HeadIsLast, AloneHandled DEF Holds
<1>8. CASE p \in numbers /\ Ringing(p)
  <2>1. Comes(toCore', callState', "INCOMING")
    <3>1. Tell("INCOMING_CALL")
      BY <1>3, <1>8 DEF Ringing
    <3>2. QED BY <1>5, <3>1, ComesTell, ShownIs
  <2>2. "INCOMING" \in CoreStates /\ "INCOMING" \in Expected(p)
    BY <1>8 DEF CoreStates, Expected, Ringing
  <2>3. QED BY <1>6, <1>7, <2>1, <2>2
<1>9. CASE p \in numbers /\ call[p] \in {"dialing", "alerting"}
  <2>1. Tell("OUTGOING_CALL")
    BY <1>3, <1>9 DEF Ringing
  <2>2. Comes(toCore', callState', "OUTCOMING")
    <3>1. Tell("OUTGOING_CALL")
      BY <2>1
    <3>2. QED BY <1>5, <3>1, ComesTell, ShownIs
  <2>3. "OUTCOMING" \in CoreStates /\ "OUTCOMING" \in Expected(p)
    BY <1>9 DEF CoreStates, Expected
  <2>4. QED BY <1>6, <1>7, <2>2, <2>3
<1>10. CASE ~ (p \in numbers /\ (Ringing(p) \/ call[p] \in {"dialing", "alerting"}))
  <2>1. Comes(toCore', callState', st)
    BY <1>3, <1>5, <1>10 DEF Holds
  <2>2. ~ overlapped /\ p \in Present /\ call[p] \in {"incoming", "waiting", "dialing"} => p \notin numbers
    BY <1>10 DEF Ringing
  <2>3. ~ overlapped /\ p \in Present /\ call[p] = "dialing" => p \in numbers
    BY DEF Holds, AloneInv, Alone
  <2>4. ~ overlapped /\ p \in Present /\ call[p] \in {"incoming", "waiting", "dialing"} => st \in Expected(p)
    BY <2>2, <2>3 DEF Expected, CoreStates
  <2>5. QED BY <1>6, <1>7, <2>1, <2>4
<1>11. QED BY <1>8, <1>9, <1>10

LEMMA InvCallChanged == Types /\ Inv /\ HandleVoiceCallPropertyChanged => Inv'
<1> SUFFICES ASSUME Types, NEW st \in CoreStates, Holds(st), HandleVoiceCallPropertyChanged
             PROVE  \E next \in CoreStates : Holds(next)'
  BY DEF Inv
<1>1. Handles
  BY WorkerHandles DEF WorkerStep
<1>2. PICK p \in CallPaths : Head(signals) = Signal("CallChanged", p)
  <2>1. Head(signals) \in Signals /\ Head(signals).kind = "CallChanged"
    BY <1>1, HeadSignal DEF HandleVoiceCallPropertyChanged, Dispatch
  <2>2. QED BY <2>1 DEF Signals, Signal
<1>3. /\ activeCallPaths' = activeCallPaths
      /\ CASE call[p] = "none" -> UNCHANGED toCore
           [] call[p] = "disconnected" -> Tell("CALL_ENDED")
           [] OTHER -> toCore' = Append(toCore, StateNoti(call[p]))
  <2>1. Head(signals).path = p
    BY <1>2 DEF Signal
  <2>2. QED BY <2>1 DEF HandleVoiceCallPropertyChanged
<1>4. Updates(Head(signals), activeCallPaths, activeCallPaths')
  BY <1>2, <1>3 DEF Updates, Signal
<1>5. /\ UNCHANGED <<lost, callState, toHardware, mainWorker>>
      /\ call[p] \in CallStates \cup {"none"}
  BY <1>1 DEF Handles, Types
<1>6. Known => activeCallPaths' # {}
  <2>1. Known => Knows(signals, activeCallPaths, 1, p)
    BY <1>1, <1>2, HeadSignal DEF Finds, Signal
  <2>2. QED BY <1>3, <2>1, KnownFirst
<1>7. ASSUME NEW next \in CoreStates, Comes(toCore', callState', next),
             ~ overlapped /\ p \in Present /\ call[p] # "dialing" => next \in Expected(p)
      PROVE  Holds(next)'
  <2>1. Head(signals).path = p /\ Head(signals).kind = "CallChanged"
    BY <1>2 DEF Signal
  <2>2. AloneInv(next)'
    BY <1>1, <1>7, <2>1, HeadIsLast, AloneHandled DEF Holds
  <2>3. Known => Justified(next)'
    BY <1>6 DEF Justified
  <2>4. QED BY <1>1, <1>4, <1>5, <1>7, <2>2, <2>3, KnownHandled DEF Holds
<1>8. CASE call[p] = "none"
  <2>1. Comes(toCore', callState', st) /\ p \notin Present
    BY <1>3, <1>5, <1>8 DEF Holds, Present
  <2>2. QED BY <1>7, <2>1
<1>9. CASE call[p] = "disconnected"
  <2>1. Comes(toCore', callState', "IDLE")
    <3>1. Tell("CALL_ENDED")
      BY <1>3, <1>9
    <3>2. QED BY <1>5, <3>1, ComesTell, ShownIs
  <2>2. "IDLE" \in CoreStates /\ "IDLE" \in Expected(p)
    BY <1>9 DEF CoreStates, Expected
  <2>3. QED BY <1>7, <2>1, <2>2
<1>10. CASE call[p] \notin {"none", "disconnected"}
  <2>1. call[p] \in CallStates /\ toCore' = Append(toCore, StateNoti(call[p]))
    BY <1>3, <1>5, <1>10
  <2> DEFINE next == Shown(StateNoti(call[p]))
  <2>2. Comes(toCore', callState', next)
    BY <1>5, <2>1, NotiTyped, ShownIs, ComesAppended DEF Types
  <2>3. next = IF call[p] = "incoming" THEN "INCOMING"
               ELSE IF call[p] \in {"active", "held", "waiting"} THEN "CALLING" ELSE "IDLE"
    BY <2>1, ShownIs
  <2> HIDE DEF next
  <2>4. next \in CoreStates /\ (call[p] # "dialing" => next \in Expected(p))
    BY <2>3 DEF CoreStates, Expected
  <2>5. QED BY <1>7, <2>2, <2>4
<1>11. QED BY <1>8, <1>9, <1>10

LEMMA InvCallRemoved == Types /\ Inv /\ HandleCallRemoved => Inv'
<1> SUFFICES ASSUME Types, NEW st \in CoreStates, Holds(st), HandleCallRemoved
             PROVE  \E next \in CoreStates : Holds(next)'
  BY DEF Inv
<1>1. Handles
  BY WorkerHandles DEF WorkerStep
<1>2. PICK p \in CallPaths : Head(signals) = Signal("CallRemoved", p)
  <2>1. Head(signals) \in Signals /\ Head(signals).kind = "CallRemoved"
    BY <1>1, HeadSignal DEF HandleCallRemoved, Dispatch
  <2>2. QED BY <2>1 DEF Signals, Signal
<1>3. /\ activeCallPaths' = activeCallPaths \ {p}
      /\ IF p \in activeCallPaths THEN Tell("CALL_ENDED") ELSE UNCHANGED toCore
  <2>1. Head(signals).path = p
    BY <1>2 DEF Signal
  <2>2. QED BY <2>1 DEF HandleCallRemoved
<1>4. Updates(Head(signals), activeCallPaths, activeCallPaths')
  BY <1>2, <1>3 DEF Updates, Signal
<1>5. UNCHANGED <<lost, callState, toHardware, mainWorker>>
  BY <1>1 DEF Handles
<1>6. \A next : AloneInv(next)'
  <2>1. Head(signals).kind = "CallRemoved"
    BY <1>2 DEF Signal
  <2>2. QED BY <1>1, <2>1, HeadIsLast, AloneHandled DEF Holds
<1>7. CASE p \in activeCallPaths
  <2>1. Comes(toCore', callState', "IDLE")
    <3>1. Tell("CALL_ENDED")
      BY <1>3, <1>7
    <3>2. QED BY <1>5, <3>1, ComesTell, ShownIs
  <2>2. Justified("IDLE")' /\ "IDLE" \in CoreStates
    BY DEF Justified, CoreStates
  <2>3. QED BY <1>1, <1>4, <1>5, <1>6, <2>1, <2>2, KnownHandled DEF Holds
<1>8. CASE p \notin activeCallPaths
  <2>1. Comes(toCore', callState', st) /\ activeCallPaths' = activeCallPaths
    BY <1>3, <1>5, <1>8 DEF Holds
  <2>2. Justified(st) => Justified(st)'
    BY <1>5, <2>1 DEF Justified
  <2>3. QED BY <1>1, <1>4, <1>5, <1>6, <2>1, <2>2, KnownHandled DEF Holds
<1>9. QED BY <1>7, <1>8

-----------------------------------------------------------------------------
LEMMA InvStep == Types /\ Inv /\ [Next]_vars => Inv'
<1>1. Types /\ Inv /\ UNCHANGED vars => Inv'
  <2> SUFFICES ASSUME NEW st \in CoreStates, Holds(st), UNCHANGED vars
               PROVE  Holds(st)'
    BY DEF Inv
  <2>1. UNCHANGED <<callState, toHardware, toCore, mainWorker, activeCallPaths, signals, modem, call, numbers,
                    overlapped, refused, lost>>
    BY DEF vars, manager, ofono
  <2>2. AloneInv(st)'
    BY <2>1, AloneKept DEF Holds
  <2>3. Known => Known'
    BY <2>1, KnownKept
  <2>4. Justified(st) => Justified(st)'
    BY <2>1 DEF Justified
  <2>5. Comes(toCore', callState', st)
    BY <2>1 DEF Holds
  <2>6. QED BY <2>1, <2>2, <2>3, <2>4, <2>5 DEF Holds
<1>2. QED BY <1>1, InvCore, InvMainWorker, InvOfono, InvModem, InvCallAdded, InvCallChanged, InvCallRemoved
      DEF Next, WorkerStep

LEMMA AlwaysInv == Spec => [](Types /\ Inv)
<1>1. Types /\ Inv /\ [Next]_vars => (Types /\ Inv)'
  BY TypesStep, InvStep
<1>2. QED BY <1>1, TypesInit, InvInit, PTL DEF Spec

\* When no call is left and nothing is on its way, CALL_STATE is IDLE, for any calls,
\* requests and modem changes, unless calls went with the phone unannounced.
THEOREM OverIsIdle == Spec => []IdleWhenOver
<1>1. Types /\ Inv => IdleWhenOver
  <2> SUFFICES ASSUME Types, NEW st \in CoreStates, Holds(st), Quiet, Present = {}, ~ lost
               PROVE  callState = "IDLE"
    BY DEF Inv, IdleWhenOver
  <2>1. callState = st
    BY ComesNow DEF Holds, Quiet
  <2>2. \A p \in CallPaths : KnowsNot(signals, activeCallPaths, 1, p)
    BY DEF Holds, Known, Chain, Quiet
  <2>3. activeCallPaths = {}
    BY <2>2, KnownFirst DEF Types
  <2>4. QED BY <2>1, <2>3 DEF Holds, Justified, Quiet
<1>2. QED BY <1>1, AlwaysInv, PTL

\* When nothing is on its way, a call that is alone is what CALL_STATE says it is, as long as
\* every request was carried out and no call began during another.
THEOREM StateAgrees == Spec => []CallAgrees
<1>1. Inv => CallAgrees
  BY ComesNow DEF Inv, Holds, AloneInv, Told, Quiet, CallAgrees
<1>2. QED BY <1>1, AlwaysInv, PTL

=============================================================================
