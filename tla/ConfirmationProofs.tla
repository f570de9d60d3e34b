------------------------ MODULE ConfirmationProofs ------------------------
(***************************************************************************)
(* Proofs about Confirmation for any devices, requests and answers: the    *)
(* types, createNewTimerId, that a parked request is watched over as long  *)
(* as there is a timer id for it and no answer is late, and that BlueZ is  *)
(* told what was decided first.                                            *)
(***************************************************************************)
EXTENDS Confirmation, SequenceTheorems, FiniteSetTheorems, WellFoundedInduction, TLAPS

USE BoundsAreNat, TimerIdsSuffice DEF BoundsAreNat, TimerIdsSuffice

(* createNewTimerId.                                                        *)

Ids == MaxTimerId - 1

\* The search wraps around before MaxTimerId and never leaves the ids.
LEMMA IdAfterIsId ==
  ASSUME nextTimerId \in TimerIds, NEW n \in 0 .. Ids - 1
  PROVE  /\ IdAfter(n) = IF nextTimerId + n <= Ids THEN nextTimerId + n
                         ELSE nextTimerId + n - Ids
         /\ IdAfter(n) \in TimerIds
<1>1. \A a \in 0 .. Ids - 1 : a % Ids = a /\ (a + Ids) % Ids = a
  BY SMT DEF Ids
<1>2. CASE nextTimerId + n <= Ids
  <2>1. nextTimerId - 1 + n \in 0 .. Ids - 1
    BY <1>2, SMT DEF TimerIds, Ids
  <2>2. (nextTimerId - 1 + n) % Ids = nextTimerId - 1 + n
    BY <1>1, <2>1
  <2>3. QED BY <1>2, <2>2, SMT DEF IdAfter, TimerIds, Ids
<1>3. CASE nextTimerId + n > Ids
  <2>1. nextTimerId - 1 + n - Ids \in 0 .. Ids - 1
    BY <1>3, SMT DEF TimerIds, Ids
  <2>2. (nextTimerId - 1 + n - Ids) + Ids = nextTimerId - 1 + n
    BY SMT DEF TimerIds, Ids
  <2>3. (nextTimerId - 1 + n) % Ids = nextTimerId - 1 + n - Ids
    BY <1>1, <2>1, <2>2
  <2>4. QED BY <1>3, <2>3, SMT DEF IdAfter, TimerIds, Ids
<1>4. QED BY <1>2, <1>3, SMT DEF TimerIds, Ids

\* Fewer timers than ids leave an id free.
LEMMA SomeIdIsFree ==
  ASSUME TypeOK, Len(timerTable) < Ids
  PROVE  \E id \in TimerIds : ~ InUse(id)
<1> SUFFICES ASSUME \A id \in TimerIds : InUse(id)
             PROVE  FALSE
  OBVIOUS
<1> DEFINE f == [id \in TimerIds |-> CHOOSE i \in 1 .. Len(timerTable) : timerTable[i].id = id]
<1>1. Len(timerTable) \in Nat
  BY DEF TypeOK
<1>2. ASSUME NEW id \in TimerIds
      PROVE  f[id] \in 1 .. Len(timerTable) /\ timerTable[f[id]].id = id
  BY DEF InUse
<1>3. f \in [TimerIds -> 1 .. Len(timerTable)]
  BY <1>2
<1>4. /\ IsFiniteSet(TimerIds) /\ Cardinality(TimerIds) = Ids
      /\ IsFiniteSet(1 .. Len(timerTable)) /\ Cardinality(1 .. Len(timerTable)) = Len(timerTable)
  <2>1. 1 \in Int /\ Ids \in Int /\ Len(timerTable) \in Int /\ Ids >= 1
    BY <1>1, SMT DEF Ids
  <2>2. /\ IsFiniteSet(1 .. Ids) /\ Cardinality(1 .. Ids) = IF 1 > Ids THEN 0 ELSE Ids - 1 + 1
        /\ IsFiniteSet(1 .. Len(timerTable))
        /\ Cardinality(1 .. Len(timerTable)) =
             IF 1 > Len(timerTable) THEN 0 ELSE Len(timerTable) - 1 + 1
    BY <2>1, FS_Interval
  <2>3. QED BY <1>1, <2>1, <2>2, SMT DEF TimerIds, Ids
<1>5. \E x, y \in TimerIds : x # y /\ f[x] = f[y]
  <2> HIDE DEF f
  <2>1. QED BY <1>3, <1>4, FS_PigeonHole
<1>6. QED BY <1>2, <1>5

\* A set of natural numbers has a least element.
LEMMA Least ==
  ASSUME NEW T \in SUBSET Nat, T # {}
  PROVE  \E m \in T : \A k \in T : m <= k
<1>1. \E m \in T : \A k \in T : ~ (<<k, m>> \in OpToRel(<, Nat))
  BY NatLessThanWellFounded, WFMin
<1>2. \A k, m \in T : <<k, m>> \in OpToRel(<, Nat) <=> k < m
  BY DEF OpToRel
<1>3. PICK m \in T : \A k \in T : ~ (<<k, m>> \in OpToRel(<, Nat))
  BY <1>1
<1>4. \A k \in T : ~ (k < m)
  BY <1>2, <1>3
<1>5. \A k \in T : m <= k
  BY <1>4, SMT
<1>6. QED BY <1>5

\* What createNewTimerId gives is an id that no running timer has.
LEMMA NewTimerIdIsFree ==
  ASSUME TypeOK, Len(timerTable) < Ids
  PROVE  CreateNewTimerId \in TimerIds /\ ~ InUse(CreateNewTimerId)
<1> DEFINE Free == {n \in 0 .. Ids - 1 : ~ InUse(IdAfter(n))}
<1>1. nextTimerId \in TimerIds
  BY DEF TypeOK
<1>2. PICK id \in TimerIds : ~ InUse(id)
  BY SomeIdIsFree
<1>3. \E n \in 0 .. Ids - 1 : IdAfter(n) = id
  <2>1. CASE id >= nextTimerId
    <3>1. id - nextTimerId \in 0 .. Ids - 1 /\ nextTimerId + (id - nextTimerId) = id /\ id <= Ids
      BY <1>1, <2>1, SMT DEF TimerIds, Ids
    <3>2. IdAfter(id - nextTimerId) = id
      BY <1>1, <3>1, IdAfterIsId
    <3>3. QED BY <3>1, <3>2
  <2>2. CASE id < nextTimerId
    <3>1. /\ id - nextTimerId + Ids \in 0 .. Ids - 1
          /\ nextTimerId + (id - nextTimerId + Ids) > Ids
          /\ nextTimerId + (id - nextTimerId + Ids) - Ids = id
      BY <1>1, <2>2, SMT DEF TimerIds, Ids
    <3>2. IdAfter(id - nextTimerId + Ids) =
            IF nextTimerId + (id - nextTimerId + Ids) <= Ids
            THEN nextTimerId + (id - nextTimerId + Ids)
            ELSE nextTimerId + (id - nextTimerId + Ids) - Ids
      BY <1>1, <3>1, IdAfterIsId
    <3>3. ~ (nextTimerId + (id - nextTimerId + Ids) <= Ids)
      BY <1>1, <3>1, SMT DEF TimerIds, Ids
    <3>4. QED BY <3>1, <3>2, <3>3
  <2>3. QED BY <1>1, <2>1, <2>2, SMT DEF TimerIds
<1>4. Free \in SUBSET Nat /\ Free # {}
  BY <1>2, <1>3, SMT DEF Ids
<1>5. PICK n \in Free : \A k \in Free : n <= k
  <2> HIDE DEF Free
  <2>1. QED BY <1>4, Least
<1>6. \A m \in 0 .. n - 1 : InUse(IdAfter(m))
  <2> SUFFICES ASSUME NEW m \in 0 .. n - 1, ~ InUse(IdAfter(m))
               PROVE  FALSE
    OBVIOUS
  <2>1. m \in 0 .. Ids - 1 /\ m < n
    BY <1>5, SMT DEF Ids
  <2>2. QED BY <1>5, <2>1, SMT DEF Ids
<1> DEFINE First(k) == /\ ~ InUse(IdAfter(k))
                       /\ \A m \in 0 .. k - 1 : InUse(IdAfter(m))
           c == CHOOSE k \in 0 .. Ids - 1 : First(k)
<1>7. c \in 0 .. Ids - 1 /\ First(c)
  <2>1. n \in 0 .. Ids - 1 /\ First(n)
    BY <1>5, <1>6
  <2> HIDE DEF First
  <2>2. QED BY <2>1
<1>8. CreateNewTimerId = IdAfter(c)
  <2>1. Ids - 1 = MaxTimerId - 2
    BY SMT DEF Ids
  <2>2. QED BY <2>1, Zenon DEF CreateNewTimerId
<1>9. IdAfter(c) \in TimerIds
  <2> HIDE DEF c
  <2>1. QED BY <1>1, <1>7, IdAfterIsId
<1>10. QED BY <1>7, <1>8, <1>9
-----------------------------------------------------------------------------
(* Types.                                                                   *)

\* The records the daemons build are events, timers and decisions.
LEMMA RecordTypes ==
  /\ \A type \in EventTypes, d \in Devices, nr \in Numbers : Ev(type, d, nr) \in Evs
  /\ \A id \in TimerIds, d \in Devices, nr \in Numbers : TimerElement(id, d, nr) \in Timers
  /\ \A d \in Devices, ok \in BOOLEAN : Decision(d, ok) \in Decisions
BY DEF Ev, Evs, TimerElement, Timers, Decision, Decisions

\* What RemoveAt leaves: every element but one, and nothing else.
LEMMA RemoveAtKeeps ==
  ASSUME NEW S, NEW s \in Seq(S), NEW i \in 1 .. Len(s), NEW t, t = RemoveAt(s, i)
  PROVE  /\ t \in Seq(S) /\ Len(s) = Len(t) + 1 /\ Len(t) \in Nat
         /\ \A j \in 1 .. Len(t) : t[j] = IF j < i THEN s[j] ELSE s[j + 1]
<1> DEFINE a == SubSeq(s, 1, i - 1)
           b == SubSeq(s, i + 1, Len(s))
<1>1. Len(s) \in Nat /\ i \in Int /\ \A j \in 1 .. Len(s) : s[j] \in S
  OBVIOUS
<1>2. /\ a \in Seq(S) /\ Len(a) = i - 1
      /\ \A j \in 1 .. i - 1 : a[j] = s[j]
  <2>1. 1 \in Int /\ i - 1 \in Int /\ \A j \in 1 .. i - 1 : s[j] \in S
    BY <1>1
  <2>2. /\ SubSeq(s, 1, i - 1) \in Seq(S)
        /\ Len(SubSeq(s, 1, i - 1)) = IF 1 <= i - 1 THEN i - 1 - 1 + 1 ELSE 0
        /\ \A j \in 1 .. i - 1 - 1 + 1 : SubSeq(s, 1, i - 1)[j] = s[1 + j - 1]
    BY <2>1, SubSeqProperties
  <2>3. QED BY <2>2
<1>3. /\ b \in Seq(S) /\ Len(b) = Len(s) - i
      /\ \A j \in 1 .. Len(s) - i : b[j] = s[i + j]
  <2>1. i + 1 \in Int /\ Len(s) \in Int /\ \A j \in i + 1 .. Len(s) : s[j] \in S
    BY <1>1
  <2>2. /\ SubSeq(s, i + 1, Len(s)) \in Seq(S)
        /\ Len(SubSeq(s, i + 1, Len(s))) =
             IF i + 1 <= Len(s) THEN Len(s) - (i + 1) + 1 ELSE 0
        /\ \A j \in 1 .. Len(s) - (i + 1) + 1 :
             SubSeq(s, i + 1, Len(s))[j] = s[i + 1 + j - 1]
    BY <2>1, SubSeqProperties
  <2>3. QED BY <1>1, <2>2
<1>4. t = a \o b
  BY DEF RemoveAt
<1> HIDE DEF a, b
<1>5. /\ t \in Seq(S) /\ Len(t) = Len(a) + Len(b)
      /\ \A j \in 1 .. Len(a) + Len(b) : t[j] = IF j <= Len(a) THEN a[j] ELSE b[j - Len(a)]
  <2>1. /\ a \o b \in Seq(S) /\ Len(a \o b) = Len(a) + Len(b)
        /\ \A j \in 1 .. Len(a) + Len(b) :
             (a \o b)[j] = IF j <= Len(a) THEN a[j] ELSE b[j - Len(a)]
    BY <1>2, <1>3, ConcatProperties
  <2>2. QED BY <1>4, <2>1
<1>6. Len(s) = Len(t) + 1 /\ Len(t) \in Nat
  BY <1>1, <1>2, <1>3, <1>5
<1>7. ASSUME NEW j \in 1 .. Len(t)
      PROVE  t[j] = IF j < i THEN s[j] ELSE s[j + 1]
  <2>1. CASE j < i
    BY <1>2, <1>5, <2>1
  <2>2. CASE j >= i
    <3>1. j - (i - 1) \in 1 .. Len(s) - i /\ i + (j - (i - 1)) = j + 1
      BY <1>1, <1>2, <1>3, <1>5, <2>2
    <3>2. t[j] = b[j - (i - 1)]
      BY <1>2, <1>5, <2>2
    <3>3. QED BY <1>3, <2>2, <3>1, <3>2
  <2>3. QED BY <2>1, <2>2
<1>8. QED BY <1>5, <1>6, <1>7

LEMMA TypeInit == Init => TypeOK
<1> SUFFICES ASSUME Init
             PROVE  TypeOK
  OBVIOUS
<1>1. 0 \in 0 .. MaxAsks /\ 0 \in 0 .. MaxAnswers /\ 0 \in 0 .. MaxTimerId - 1
  BY SMT
<1>2. <<>> \in Seq(Evs) /\ <<>> \in Seq(Decisions) /\ <<>> \in Seq(Timers)
  BY EmptySeq
<1>3. QED BY <1>1, <1>2 DEF Init, TypeOK

LEMMA TypeAgent ==
  TypeOK /\ (BlueZ \/ ConfirmRequest) => TypeOK'
<1> SUFFICES ASSUME TypeOK, BlueZ \/ ConfirmRequest
             PROVE  TypeOK'
  OBVIOUS
<1> USE DEF timer, history, agent
<1> DEFINE Replies == {"unasked", "open", "accepted", "rejected", "dropped"}
<1>1. ASSUME NEW d \in Devices, HandleRequestConfirmation(d)
      PROVE  TypeOK'
  <2>1. asked[d] + 1 \in Numbers
    BY <1>1 DEF HandleRequestConfirmation
  <2>2. asked[d] + 1 \in 0 .. MaxAsks
    BY <2>1, SMT DEF Numbers
  <2>3. asked' \in [Devices -> 0 .. MaxAsks] /\ pending' \in [Devices -> 0 .. MaxAsks]
    BY <1>1, <2>2 DEF HandleRequestConfirmation, TypeOK
  <2>4. reply' \in [Devices -> [Numbers -> Replies]]
    BY <1>1 DEF HandleRequestConfirmation, TypeOK
  <2>5. "NOTI" \in EventTypes
    BY DEF EventTypes
  <2>6. toCore' \in Seq(Evs)
    <3>1. toCore' = Append(toCore, Ev("NOTI", d, asked[d] + 1)) /\ toCore \in Seq(Evs)
      BY <1>1 DEF HandleRequestConfirmation, TypeOK
    <3>2. Ev("NOTI", d, asked[d] + 1) \in Evs
      BY <2>1, <2>5, RecordTypes
    <3>3. QED BY <3>1, <3>2, AppendProperties
  <2>7. QED BY <1>1, <2>3, <2>4, <2>6 DEF HandleRequestConfirmation, TypeOK
<1>2. CASE HandleRelease
  <2>1. pending' \in [Devices -> 0 .. MaxAsks]
    BY <1>2, SMT DEF HandleRelease
  <2>2. reply' \in [Devices -> [Numbers -> Replies]]
    BY <1>2 DEF HandleRelease, TypeOK
  <2>3. QED BY <1>2, <2>1, <2>2 DEF HandleRelease, TypeOK
<1>3. CASE ConfirmRequest
  <2>1. Head(toAgent) \in Decisions /\ toAgent' \in Seq(Decisions)
    BY <1>3, HeadTailProperties DEF ConfirmRequest, TypeOK
  <2>2. Head(toAgent).dev \in Devices
    BY <2>1 DEF Decisions
  <2>3. pending' \in [Devices -> 0 .. MaxAsks]
    <3>1. 0 \in 0 .. MaxAsks
      BY SMT
    <3>2. QED BY <1>3, <2>2, <3>1 DEF ConfirmRequest, TypeOK
  <2>4. reply' \in [Devices -> [Numbers -> Replies]]
    <3>1. reply \in [Devices -> [Numbers -> Replies]]
      BY DEF TypeOK
    <3>2. ASSUME NEW d \in Devices, NEW k, NEW r \in Replies
          PROVE  [reply EXCEPT ![d][k] = r] \in [Devices -> [Numbers -> Replies]]
      <4>1. reply[d] \in [Numbers -> Replies]
        BY <3>1
      <4>2. [reply[d] EXCEPT ![k] = r] \in [Numbers -> Replies]
        BY <4>1
      <4>3. QED BY <3>1, <4>2
    <3>3. "accepted" \in Replies /\ "rejected" \in Replies
      OBVIOUS
    <3>4. (IF Head(toAgent).ok THEN "accepted" ELSE "rejected") \in Replies
      BY <3>3
    <3> HIDE DEF Replies
    <3>5. \/ reply' = reply
          \/ reply' = [reply EXCEPT ![Head(toAgent).dev][pending[Head(toAgent).dev]] =
                         IF Head(toAgent).ok THEN "accepted" ELSE "rejected"]
      BY <1>3 DEF ConfirmRequest
    <3>6. QED BY <2>2, <3>1, <3>2, <3>4, <3>5
  <2>5. UNCHANGED <<asked, toCore, eventList, timer, timerIdMap, shown, answers, history>>
    BY <1>3 DEF ConfirmRequest
  <2>6. QED BY <2>1, <2>3, <2>4, <2>5 DEF TypeOK
<1>4. QED BY <1>1, <1>2, <1>3 DEF BlueZ

\* Events are pushed: by the bus, by clients, by the timer.
LEMMA TypeProducers ==
  TypeOK /\ (Client \/ ReceiveNoti \/ TimerStep) => TypeOK'
<1> SUFFICES ASSUME TypeOK, Client \/ ReceiveNoti \/ TimerStep
             PROVE  TypeOK'
  OBVIOUS
<1> USE DEF timer, history, agent
<1>1. \A e \in Evs : Append(eventList, e) \in Seq(Evs)
  BY AppendProperties DEF TypeOK
<1>2. ASSUME NEW d \in Devices, NEW type \in {"ACCEPT", "REJECT"}, Answer(d, type)
      PROVE  TypeOK'
  <2>1. shown[d] \in Numbers /\ type \in EventTypes
    BY <1>2 DEF Answer, TypeOK, Numbers, EventTypes
  <2>2. eventList' \in Seq(Evs)
    BY <1>1, <1>2, <2>1, RecordTypes DEF Answer
  <2>3. answers' \in 0 .. MaxAnswers
    BY <1>2, SMT DEF Answer, TypeOK
  <2>4. QED BY <1>2, <2>2, <2>3 DEF Answer, TypeOK
<1>3. CASE ReceiveNoti
  <2>1. Head(toCore) \in Evs /\ toCore' \in Seq(Evs)
    BY <1>3, HeadTailProperties DEF ReceiveNoti, TypeOK
  <2>2. QED BY <1>1, <1>3, <2>1 DEF ReceiveNoti, TypeOK
<1>4. ASSUME NEW n \in 1 .. Len(timerTable), ExpireTimers(n)
      PROVE  TypeOK'
  <2>1. \A i \in 1 .. Len(timerTable) : timerTable[i] \in Timers
    BY ElementOfSeq DEF TypeOK
  <2>2. timerTable' \in Seq(Timers)
    <3>1. n + 1 \in Int /\ Len(timerTable) \in Int
          /\ \A i \in n + 1 .. Len(timerTable) : timerTable[i] \in Timers
      BY <2>1 DEF TypeOK
    <3>2. SubSeq(timerTable, n + 1, Len(timerTable)) \in Seq(Timers)
      BY <3>1, SubSeqProperties
    <3>3. QED BY <1>4, <3>2 DEF ExpireTimers
  <2>3. \A i \in 1 .. n : i \in 1 .. Len(timerTable)
    BY DEF TypeOK
  <2>4. expired' \in SUBSET Timers
    BY <1>4, <2>1, <2>3 DEF ExpireTimers
  <2>5. fired' \in SUBSET (Devices \X Numbers)
    <3>1. \A i \in 1 .. n : <<timerTable[i].dev, timerTable[i].nr>> \in Devices \X Numbers
      BY <2>1, <2>3 DEF Timers
    <3>2. QED BY <1>4, <3>1 DEF ExpireTimers, TypeOK
  <2>6. QED BY <1>4, <2>2, <2>4, <2>5 DEF ExpireTimers, TypeOK
<1>5. ASSUME NEW t \in expired, PushExpired(t)
      PROVE  TypeOK'
  <2>1. t.dev \in Devices /\ t.nr \in Numbers /\ "TIMEOUT" \in EventTypes
    BY <1>5 DEF TypeOK, Timers, EventTypes
  <2>2. eventList' \in Seq(Evs)
    BY <1>1, <1>5, <2>1, RecordTypes DEF PushExpired
  <2>3. expired' \in SUBSET Timers
    BY <1>5 DEF PushExpired, TypeOK
  <2>4. QED BY <1>5, <2>2, <2>3 DEF PushExpired, TypeOK
<1>6. QED BY <1>2, <1>3, <1>4, <1>5 DEF Client, TimerStep

\* What StartTimer does to the table: nothing when all ids are taken, otherwise
\* it adds one timer with an id of its own.
LEMMA StartTimerAdds ==
  ASSUME TypeOK, NEW d \in Devices, NEW nr \in Numbers, StartTimer(d, nr)
  PROVE  \/ Len(timerTable) >= Ids /\ UNCHANGED <<timer, timerIdMap>>
         \/ \E id \in TimerIds :
              /\ Len(timerTable) < Ids /\ ~ InUse(id)
              /\ nextTimerId' = id /\ expired' = expired
              /\ timerTable' = Append(timerTable, TimerElement(id, d, nr))
              /\ timerIdMap' = [timerIdMap EXCEPT ![d] = id]
<1>1. Len(timerTable) \in Nat
  BY DEF TypeOK
<1>2. CASE Len(timerTable) >= Ids
  BY <1>2 DEF StartTimer, Ids
<1>3. CASE Len(timerTable) < Ids
  <2>1. CreateNewTimerId \in TimerIds /\ ~ InUse(CreateNewTimerId)
    BY <1>3, NewTimerIdIsFree
  <2>2. ~ (Len(timerTable) >= MaxTimerId - 1)
    BY <1>1, <1>3, SMT DEF Ids
  <2>3. QED BY <1>3, <2>1, <2>2, Zenon DEF StartTimer
<1>4. QED BY <1>1, <1>2, <1>3, SMT DEF Ids

\* What a handler takes from the queue.
LEMMA Handled ==
  ASSUME TypeOK, NEW type, Handle(type)
  PROVE  /\ Head(eventList) \in Evs /\ Head(eventList).type = type
         /\ Head(eventList).dev \in Devices /\ Head(eventList).nr \in Numbers
         /\ eventList' \in Seq(Evs) /\ Len(eventList) = Len(eventList') + 1
         /\ Len(eventList') \in Nat /\ Head(eventList) = eventList[1]
         /\ \A i \in 1 .. Len(eventList') : eventList'[i] = eventList[i + 1]
<1>1. eventList \in Seq(Evs) /\ eventList # <<>> /\ eventList' = Tail(eventList)
  BY DEF TypeOK, Handle
<1>2. Head(eventList) \in Evs
  BY <1>1, HeadTailProperties
<1>3. /\ eventList' \in Seq(Evs) /\ Len(eventList) = Len(eventList') + 1
      /\ Len(eventList') \in Nat /\ Head(eventList) = eventList[1]
      /\ \A i \in 1 .. Len(eventList') : eventList'[i] = eventList[i + 1]
  BY <1>1, HeadTailProperties
<1>4. QED BY <1>2, <1>3 DEF Evs, Handle

\* The timer of a device is stopped with its entry.
LEMMA RemoveTimerTypes ==
  ASSUME TypeOK, NEW d \in Devices, RemoveTimerOnTimerIdMap(d)
  PROVE  /\ timerTable' \in Seq(Timers)
         /\ timerIdMap' \in [Devices -> 0 .. MaxTimerId - 1]
         /\ UNCHANGED <<nextTimerId, expired>>
<1>1. timerTable' \in Seq(Timers)
  BY RemoveAtKeeps DEF RemoveTimerOnTimerIdMap, StopTimer, TypeOK
<1>2. 0 \in 0 .. MaxTimerId - 1
  BY SMT
<1>3. QED BY <1>1, <1>2 DEF RemoveTimerOnTimerIdMap, TypeOK

LEMMA TypeCore == TypeOK /\ CoreStep => TypeOK'
<1> SUFFICES ASSUME TypeOK, CoreStep
             PROVE  TypeOK'
  OBVIOUS
<1> USE DEF timer, history, agent
<1>1. CASE BtDeviceRequestConfirmationNOTI
  <2> DEFINE d == Head(eventList).dev
             nr == Head(eventList).nr
  <2>1. d \in Devices /\ nr \in Numbers /\ eventList' \in Seq(Evs) /\ StartTimer(d, nr)
    BY <1>1, Handled DEF BtDeviceRequestConfirmationNOTI
  <2>2. shown' \in [Devices -> 0 .. MaxAsks]
    <3>1. nr \in 0 .. MaxAsks
      BY <2>1, SMT DEF Numbers
    <3>2. QED BY <1>1, <2>1, <3>1 DEF BtDeviceRequestConfirmationNOTI, TypeOK
  <2>3. /\ timerTable' \in Seq(Timers) /\ nextTimerId' \in TimerIds
        /\ expired' \in SUBSET Timers /\ timerIdMap' \in [Devices -> 0 .. MaxTimerId - 1]
    <3> HIDE DEF d, nr
    <3>1. CASE UNCHANGED <<timer, timerIdMap>>
      BY <3>1 DEF TypeOK
    <3>2. ASSUME NEW id \in TimerIds, nextTimerId' = id, expired' = expired,
                 timerTable' = Append(timerTable, TimerElement(id, d, nr)),
                 timerIdMap' = [timerIdMap EXCEPT ![d] = id]
          PROVE  /\ timerTable' \in Seq(Timers) /\ nextTimerId' \in TimerIds
                 /\ expired' \in SUBSET Timers
                 /\ timerIdMap' \in [Devices -> 0 .. MaxTimerId - 1]
      <4>1. id \in 0 .. MaxTimerId - 1
        BY SMT DEF TimerIds
      <4>2. TimerElement(id, d, nr) \in Timers
        BY <2>1, RecordTypes
      <4>3. timerTable' \in Seq(Timers)
        BY <3>2, <4>2, AppendProperties DEF TypeOK
      <4>4. QED BY <2>1, <3>2, <4>1, <4>3 DEF TypeOK
    <3>3. QED BY <2>1, <3>1, <3>2, StartTimerAdds DEF TypeOK
  <2>4. UNCHANGED <<agent, toCore, answers, toAgent, history>>
    BY <1>1 DEF BtDeviceRequestConfirmationNOTI, Handle
  <2>5. QED BY <2>1, <2>2, <2>3, <2>4 DEF TypeOK
<1>2. ASSUME NEW ok \in BOOLEAN, NEW type, Handle(type), Decide(ok)
      PROVE  /\ toAgent' \in Seq(Decisions) /\ fired' = fired
             /\ decided' \in [Devices -> [Numbers -> {"nothing", "accepted", "rejected"}]]
  <2>1. Head(eventList).dev \in Devices /\ Head(eventList).nr \in Numbers
    BY <1>2, Handled
  <2>2. Decision(Head(eventList).dev, ok) \in Decisions
    BY <2>1, RecordTypes
  <2>3. toAgent' \in Seq(Decisions)
    BY <1>2, <2>2, AppendProperties DEF Decide, TypeOK
  <2>4. QED BY <1>2, <2>1, <2>3 DEF Decide, TypeOK
<1>3. CASE AcceptBTDeviceRequestConfirmation \/ RejectBTDeviceRequestConfirmation
  <2>1. PICK ok \in BOOLEAN, type \in {"ACCEPT", "REJECT"} : Handle(type) /\ Decide(ok)
    BY <1>3 DEF AcceptBTDeviceRequestConfirmation, RejectBTDeviceRequestConfirmation
  <2>2. /\ RemoveTimerOnTimerIdMap(Head(eventList).dev) /\ NoteLate
        /\ shown' = shown /\ Head(eventList).dev \in Devices /\ eventList' \in Seq(Evs)
    BY <1>3, <2>1, Handled
       DEF AcceptBTDeviceRequestConfirmation, RejectBTDeviceRequestConfirmation
  <2>3. late' \in BOOLEAN
    BY <2>2 DEF NoteLate, TypeOK
  <2>4. QED BY <1>2, <2>1, <2>2, <2>3, RemoveTimerTypes DEF Handle, TypeOK
<1>4. CASE HandleBTDeviceRequestConfirmationTimeout
  BY <1>2, <1>4, Handled DEF HandleBTDeviceRequestConfirmationTimeout, Handle, TypeOK
<1>5. QED BY <1>1, <1>3, <1>4 DEF CoreStep

LEMMA TypeStep == TypeOK /\ [Next]_vars => TypeOK'
<1>1. TypeOK /\ UNCHANGED vars => TypeOK'
  BY DEF TypeOK, vars, agent, timer, history
<1>2. QED BY <1>1, TypeAgent, TypeProducers, TypeCore DEF Next

\* All variables of both daemons keep their types; for the timer ids that takes
\* createNewTimerId to find a free one whenever there is one.
THEOREM TypeCorrect == Spec => []TypeOK
BY TypeInit, TypeStep, PTL DEF Spec

-----------------------------------------------------------------------------
(* A parked request is watched over.  WatchedOver is not inductive: an      *)
(* answer stops whatever timer has the id that timerIdMap_ remembers for    *)
(* the device, so the ids have to be in order.                              *)

\* The table is a map: one timer per id.
IdsDistinct ==
  \A i, j \in 1 .. Len(timerTable) : timerTable[i].id = timerTable[j].id => i = j

\* The remembered id is that of the running timer of the prompt the clients show,
\* unless that timer has fired.
Remembered(d) ==
  \/ timerIdMap[d] = 0 \/ <<d, shown[d]>> \in fired
  \/ \E i \in 1 .. Len(timerTable) :
       timerTable[i] = TimerElement(timerIdMap[d], d, shown[d])

Covered(d) ==
  \/ \E i \in 1 .. Len(toCore) : toCore[i].dev = d
  \/ \E i \in 1 .. Len(eventList) :
       eventList[i].dev = d /\ eventList[i].type \in {"NOTI", "TIMEOUT"}
  \/ Running(d) \/ \E t \in expired : t.dev = d
  \/ \E i \in 1 .. Len(toAgent) : toAgent[i].dev = d

\* Nothing but questions is on its way from the agent.
OnlyNotis == \A i \in 1 .. Len(toCore) : toCore[i].type = "NOTI"

WatchInv ==
  /\ IdsDistinct /\ OnlyNotis
  /\ ~ late => \A d \in Devices : Remembered(d) /\ (pending[d] # 0 => Covered(d))

\* A request that is shown gets a timer: the ids are not all taken.
IdsSuffice ==
  eventList # <<>> /\ Head(eventList).type = "NOTI" => Len(timerTable) < MaxTimerId - 1

\* Every element of s is one of t.
Kept(s, t) == \A i \in 1 .. Len(s) : \E j \in 1 .. Len(t) : t[j] = s[i]

\* t is s with one more element, or one less.
Added(s, e, t) ==
  /\ Kept(s, t) /\ \E j \in 1 .. Len(t) : t[j] = e
  /\ \A j \in 1 .. Len(t) : t[j] = e \/ \E i \in 1 .. Len(s) : t[j] = s[i]

Dropped(s, e, t) ==
  /\ \A i \in 1 .. Len(s) : s[i] = e \/ \E j \in 1 .. Len(t) : t[j] = s[i]
  /\ \A j \in 1 .. Len(t) : \E i \in 1 .. Len(s) : t[j] = s[i]

LEMMA KeptAppend ==
  ASSUME NEW S, NEW s \in Seq(S), NEW e \in S, NEW t, t = Append(s, e)
  PROVE  Added(s, e, t)
<1>1. /\ Len(t) = Len(s) + 1 /\ Len(s) \in Nat /\ t[Len(s) + 1] = e
      /\ \A i \in 1 .. Len(s) : t[i] = s[i]
  BY AppendProperties
<1>2. ASSUME NEW j \in 1 .. Len(t), j # Len(s) + 1
      PROVE  j \in 1 .. Len(s) /\ t[j] = s[j]
  BY <1>1, <1>2
<1>3. ASSUME NEW i \in 1 .. Len(s)
      PROVE  i \in 1 .. Len(t) /\ t[i] = s[i]
  BY <1>1
<1>4. Len(s) + 1 \in 1 .. Len(t)
  BY <1>1
<1>5. QED BY <1>1, <1>2, <1>3, <1>4 DEF Kept, Added

LEMMA KeptTail ==
  ASSUME NEW S, NEW s \in Seq(S), s # <<>>, NEW t, t = Tail(s)
  PROVE  Dropped(s, Head(s), t)
<1>1. /\ Len(s) = Len(t) + 1 /\ Len(t) \in Nat /\ Head(s) = s[1]
      /\ \A i \in 1 .. Len(t) : t[i] = s[i + 1]
  BY HeadTailProperties
<1>2. ASSUME NEW i \in 1 .. Len(s), i # 1
      PROVE  i - 1 \in 1 .. Len(t) /\ t[i - 1] = s[i]
  BY <1>1, <1>2
<1>3. ASSUME NEW j \in 1 .. Len(t)
      PROVE  j + 1 \in 1 .. Len(s) /\ t[j] = s[j + 1]
  BY <1>1
<1>4. QED BY <1>1, <1>2, <1>3 DEF Dropped

\* What stays on its way keeps the request covered.
LEMMA KeptCovered ==
  ASSUME NEW d, Covered(d), Kept(toCore, toCore'), Kept(eventList, eventList'),
         Kept(timerTable, timerTable'), expired \subseteq expired', Kept(toAgent, toAgent')
  PROVE  Covered(d)'
<1>1. CASE \E i \in 1 .. Len(toCore) : toCore[i].dev = d
  BY <1>1 DEF Kept, Covered
<1>2. CASE \E i \in 1 .. Len(eventList) :
             eventList[i].dev = d /\ eventList[i].type \in {"NOTI", "TIMEOUT"}
  <2>1. PICK i \in 1 .. Len(eventList) :
               eventList[i].dev = d /\ eventList[i].type \in {"NOTI", "TIMEOUT"}
    BY <1>2
  <2>2. PICK j \in 1 .. Len(eventList') : eventList'[j] = eventList[i]
    BY DEF Kept
  <2>3. QED BY <2>1, <2>2 DEF Covered
<1>3. CASE Running(d)
  BY <1>3 DEF Kept, Covered, Running
<1>4. CASE \E t \in expired : t.dev = d
  BY <1>4 DEF Covered
<1>5. CASE \E i \in 1 .. Len(toAgent) : toAgent[i].dev = d
  BY <1>5 DEF Kept, Covered
<1>6. QED BY <1>1, <1>2, <1>3, <1>4, <1>5 DEF Covered

LEMMA KeptSame == \A s : Kept(s, s)
BY DEF Kept

\* The core manager's table, map and prompts are left alone.
LEMMA SameTimers ==
  ASSUME UNCHANGED <<timerTable, timerIdMap, shown, fired>>
  PROVE  (IdsDistinct => IdsDistinct') /\ \A d : Remembered(d) => Remembered(d)'
BY DEF IdsDistinct, Remembered

LEMMA WatchAgent ==
  ASSUME TypeOK, TypeOK', WatchInv, BlueZ \/ ConfirmRequest
  PROVE  WatchInv'
<1> USE DEF timer, history
<1>1. /\ UNCHANGED <<timerTable, timerIdMap, shown, fired, late, eventList, expired>>
  BY DEF BlueZ, HandleRequestConfirmation, HandleRelease, ConfirmRequest
<1>2. IdsDistinct' /\ \A d \in Devices : Remembered(d) => Remembered(d)'
  BY <1>1, SameTimers DEF WatchInv
<1>3. ASSUME NEW d \in Devices, HandleRequestConfirmation(d)
      PROVE  WatchInv'
  <2> DEFINE nr == asked[d] + 1
  <2>1. Ev("NOTI", d, nr) \in Evs
    BY <1>3, RecordTypes DEF HandleRequestConfirmation, EventTypes
  <2>2. toCore' = Append(toCore, Ev("NOTI", d, nr)) /\ toCore \in Seq(Evs) /\ toAgent' = toAgent
    BY <1>3 DEF HandleRequestConfirmation, TypeOK
  <2>3. Added(toCore, Ev("NOTI", d, nr), toCore')
    BY <2>1, <2>2, KeptAppend
  <2>4. Ev("NOTI", d, nr).dev = d /\ Ev("NOTI", d, nr).type = "NOTI"
    BY DEF Ev
  <2> HIDE DEF nr
  <2>5. Covered(d)'
    BY <2>3, <2>4 DEF Covered, Added
  <2>6. \A e \in Devices : Covered(e) => Covered(e)'
    BY <1>1, <2>2, <2>3, KeptCovered, KeptSame DEF Added
  <2>7. \A e \in Devices : e # d => pending'[e] = pending[e]
    BY <1>3 DEF HandleRequestConfirmation, TypeOK
  <2>8. OnlyNotis'
    BY <2>3, <2>4 DEF OnlyNotis, WatchInv, Added
  <2>9. QED BY <1>1, <1>2, <2>5, <2>6, <2>7, <2>8 DEF WatchInv
<1>4. CASE HandleRelease
  <2>1. (\A d \in Devices : pending'[d] = 0) /\ toCore' = toCore
    BY <1>4 DEF HandleRelease
  <2>2. QED BY <1>1, <1>2, <2>1 DEF WatchInv, OnlyNotis
<1>5. CASE ConfirmRequest
  <2>1. /\ toAgent \in Seq(Decisions) /\ toAgent # <<>> /\ toAgent' = Tail(toAgent)
        /\ toCore' = toCore
    BY <1>5 DEF ConfirmRequest, TypeOK
  <2>2. /\ Head(toAgent).dev \in Devices /\ pending'[Head(toAgent).dev] = 0
        /\ \A e \in Devices : e # Head(toAgent).dev => pending'[e] = pending[e]
    <3>1. Head(toAgent) \in Decisions
      BY <2>1, HeadTailProperties
    <3>2. Head(toAgent).dev \in Devices
      BY <3>1 DEF Decisions
    <3>3. QED BY <1>5, <3>2 DEF ConfirmRequest, TypeOK
  <2>3. ASSUME NEW e \in Devices, e # Head(toAgent).dev, Covered(e)
        PROVE  Covered(e)'
    <3>1. Dropped(toAgent, Head(toAgent), toAgent')
      BY <2>1, KeptTail
    <3>2. CASE \E i \in 1 .. Len(toAgent) : toAgent[i].dev = e
      BY <2>3, <3>1, <3>2 DEF Covered, Dropped
    <3>3. CASE ~ \E i \in 1 .. Len(toAgent) : toAgent[i].dev = e
      BY <1>1, <2>1, <2>3, <3>3 DEF Covered, Running
    <3>4. QED BY <3>2, <3>3
  <2>4. QED BY <1>1, <1>2, <2>1, <2>2, <2>3 DEF WatchInv, OnlyNotis
<1>6. QED BY <1>3, <1>4, <1>5 DEF BlueZ

LEMMA WatchProducers ==
  ASSUME TypeOK, TypeOK', WatchInv, Client \/ ReceiveNoti
  PROVE  WatchInv'
<1> USE DEF timer, history, agent
<1>1. UNCHANGED <<timerTable, timerIdMap, shown, fired, late, expired, pending, toAgent>>
  BY DEF Client, Answer, ReceiveNoti
<1>2. IdsDistinct' /\ \A d \in Devices : Remembered(d) => Remembered(d)'
  BY <1>1, SameTimers DEF WatchInv
<1>3. CASE Client
  <2>1. PICK d \in Devices, type \in {"ACCEPT", "REJECT"} : Answer(d, type)
    BY <1>3 DEF Client
  <2>2. /\ eventList' = Append(eventList, Ev(type, d, shown[d])) /\ toCore' = toCore
        /\ eventList \in Seq(Evs)
    BY <2>1 DEF Answer, TypeOK
  <2>3. Ev(type, d, shown[d]) \in Evs
    <3>1. shown[d] \in Numbers /\ type \in EventTypes
      BY <2>1 DEF Answer, TypeOK, Numbers, EventTypes
    <3>2. QED BY <3>1, RecordTypes
  <2>4. Added(eventList, Ev(type, d, shown[d]), eventList')
    BY <2>2, <2>3, KeptAppend
  <2>5. \A e \in Devices : Covered(e) => Covered(e)'
    BY <1>1, <2>2, <2>4, KeptCovered, KeptSame DEF Added
  <2>6. QED BY <1>1, <1>2, <2>2, <2>5 DEF WatchInv, OnlyNotis
<1>4. CASE ReceiveNoti
  <2>1. /\ toCore \in Seq(Evs) /\ toCore # <<>> /\ toCore' = Tail(toCore)
        /\ eventList \in Seq(Evs) /\ eventList' = Append(eventList, Head(toCore))
    BY <1>4 DEF ReceiveNoti, TypeOK
  <2>2. Head(toCore) \in Evs /\ Head(toCore) = toCore[1] /\ 1 \in 1 .. Len(toCore)
    BY <2>1, HeadTailProperties
  <2>3. Head(toCore).type = "NOTI"
    BY <2>2 DEF WatchInv, OnlyNotis
  <2>4. Added(eventList, Head(toCore), eventList')
    BY <2>1, <2>2, KeptAppend
  <2>5. Dropped(toCore, Head(toCore), toCore')
    BY <2>1, KeptTail
  <2>6. OnlyNotis'
    BY <2>5 DEF WatchInv, OnlyNotis, Dropped
  <2>7. ASSUME NEW e \in Devices, Covered(e)
        PROVE  Covered(e)'
    <3>1. CASE \E i \in 1 .. Len(toCore) : toCore[i].dev = e
      BY <2>3, <2>4, <2>5, <3>1 DEF Covered, Added, Dropped
    <3>2. CASE \E i \in 1 .. Len(eventList) :
                 eventList[i].dev = e /\ eventList[i].type \in {"NOTI", "TIMEOUT"}
      BY <2>4, <3>2 DEF Covered, Kept, Added
    <3>3. CASE Running(e) \/ (\E t \in expired : t.dev = e)
                 \/ \E i \in 1 .. Len(toAgent) : toAgent[i].dev = e
      BY <1>1, <3>3 DEF Covered, Running
    <3>4. QED BY <2>7, <3>1, <3>2, <3>3 DEF Covered
  <2>8. QED BY <1>1, <1>2, <2>6, <2>7 DEF WatchInv
<1>5. QED BY <1>3, <1>4

LEMMA WatchTimer ==
  ASSUME TypeOK, TypeOK', WatchInv, TimerStep
  PROVE  WatchInv'
<1> USE DEF timer, history, agent
<1>1. ASSUME NEW n \in 1 .. Len(timerTable), ExpireTimers(n)
      PROVE  WatchInv'
  <2>1. UNCHANGED <<toCore, eventList, timerIdMap, shown, pending, toAgent, late>>
    BY <1>1 DEF ExpireTimers
  <2>2. /\ expired = {} /\ expired' = {timerTable[i] : i \in 1 .. n}
        /\ fired' = fired \cup {<<timerTable[i].dev, timerTable[i].nr>> : i \in 1 .. n}
    BY <1>1 DEF ExpireTimers
  <2>3. /\ Len(timerTable) \in Nat /\ Len(timerTable') = Len(timerTable) - n
        /\ \A i \in 1 .. Len(timerTable') : timerTable'[i] = timerTable[i + n]
    <3>1. /\ n + 1 \in Int /\ Len(timerTable) \in Nat
          /\ \A i \in n + 1 .. Len(timerTable) : timerTable[i] \in Timers
      BY ElementOfSeq DEF TypeOK
    <3>2. /\ Len(timerTable') = IF n + 1 <= Len(timerTable)
                                THEN Len(timerTable) - (n + 1) + 1 ELSE 0
          /\ \A i \in 1 .. Len(timerTable) - (n + 1) + 1 : timerTable'[i] = timerTable[n + 1 + i - 1]
      BY <1>1, <3>1, SubSeqProperties DEF ExpireTimers
    <3>3. QED BY <3>1, <3>2
  <2>4. ASSUME NEW i \in 1 .. Len(timerTable)
        PROVE  i \in 1 .. n \/ (i - n \in 1 .. Len(timerTable') /\ timerTable'[i - n] = timerTable[i])
    BY <2>3
  <2>5. IdsDistinct'
    <3>1. ASSUME NEW i \in 1 .. Len(timerTable'), NEW j \in 1 .. Len(timerTable'),
                 timerTable'[i].id = timerTable'[j].id
          PROVE  i = j
      <4>1. /\ i + n \in 1 .. Len(timerTable) /\ j + n \in 1 .. Len(timerTable)
            /\ timerTable[i + n].id = timerTable[j + n].id
        BY <2>3, <3>1
      <4>2. i + n = j + n
        BY <4>1 DEF WatchInv, IdsDistinct
      <4>3. QED BY <4>2
    <3>2. QED BY <3>1 DEF IdsDistinct
  <2>6. ASSUME NEW d \in Devices, Remembered(d)
        PROVE  Remembered(d)'
    <3>1. CASE timerIdMap[d] = 0 \/ <<d, shown[d]>> \in fired
      BY <2>1, <2>2, <3>1 DEF Remembered
    <3>2. CASE \E i \in 1 .. Len(timerTable) :
                 timerTable[i] = TimerElement(timerIdMap[d], d, shown[d])
      <4>1. PICK i \in 1 .. Len(timerTable) :
                   timerTable[i] = TimerElement(timerIdMap[d], d, shown[d])
        BY <3>2
      <4>2. timerTable[i].dev = d /\ timerTable[i].nr = shown[d]
        BY <4>1 DEF TimerElement
      <4>3. CASE i \in 1 .. n
        BY <2>1, <2>2, <4>2, <4>3 DEF Remembered
      <4>4. CASE i - n \in 1 .. Len(timerTable') /\ timerTable'[i - n] = timerTable[i]
        BY <2>1, <4>1, <4>4 DEF Remembered
      <4>5. QED BY <2>4, <4>3, <4>4
    <3>3. QED BY <2>6, <3>1, <3>2 DEF Remembered
  <2>7. ASSUME NEW d \in Devices, Covered(d)
        PROVE  Covered(d)'
    <3>1. CASE Running(d)
      <4>1. PICK i \in 1 .. Len(timerTable) : timerTable[i].dev = d
        BY <3>1 DEF Running
      <4>2. CASE i \in 1 .. n
        BY <2>2, <4>1, <4>2 DEF Covered
      <4>3. CASE i - n \in 1 .. Len(timerTable') /\ timerTable'[i - n] = timerTable[i]
        BY <4>1, <4>3 DEF Covered, Running
      <4>4. QED BY <2>4, <4>2, <4>3
    <3>2. CASE ~ Running(d)
      BY <2>1, <2>2, <2>7, <3>2 DEF Covered
    <3>3. QED BY <3>1, <3>2
  <2>8. QED BY <2>1, <2>5, <2>6, <2>7 DEF WatchInv, OnlyNotis
<1>2. ASSUME NEW t \in expired, PushExpired(t)
      PROVE  WatchInv'
  <2>1. UNCHANGED <<toCore, timerTable, timerIdMap, shown, pending, toAgent, late, fired>>
    BY <1>2 DEF PushExpired
  <2>2. /\ eventList' = Append(eventList, Ev("TIMEOUT", t.dev, t.nr))
        /\ expired' = expired \ {t} /\ eventList \in Seq(Evs)
    BY <1>2 DEF PushExpired, TypeOK
  <2>3. Ev("TIMEOUT", t.dev, t.nr) \in Evs
    <3>1. t.dev \in Devices /\ t.nr \in Numbers /\ "TIMEOUT" \in EventTypes
      BY DEF TypeOK, Timers, EventTypes
    <3>2. QED BY <3>1, RecordTypes
  <2>4. Added(eventList, Ev("TIMEOUT", t.dev, t.nr), eventList')
    BY <2>2, <2>3, KeptAppend
  <2>5. Covered(t.dev)'
    BY <2>4 DEF Covered, Ev, Added
  <2>6. ASSUME NEW d \in Devices, Covered(d), d # t.dev
        PROVE  Covered(d)'
    <3>1. CASE \E u \in expired : u.dev = d
      BY <2>2, <2>6, <3>1 DEF Covered
    <3>2. CASE \E i \in 1 .. Len(eventList) :
                 eventList[i].dev = d /\ eventList[i].type \in {"NOTI", "TIMEOUT"}
      BY <2>4, <3>2 DEF Covered, Kept, Added
    <3>3. CASE \/ \E i \in 1 .. Len(toCore) : toCore[i].dev = d
               \/ Running(d) \/ \E i \in 1 .. Len(toAgent) : toAgent[i].dev = d
      BY <2>1, <3>3 DEF Covered, Running
    <3>4. QED BY <2>6, <3>1, <3>2, <3>3 DEF Covered
  <2>7. QED BY <2>1, <2>5, <2>6, SameTimers DEF WatchInv, OnlyNotis
<1>3. QED BY <1>1, <1>2 DEF TimerStep

\* The events that stay in the queue.
LEMMA RestOfEvents ==
  ASSUME TypeOK, NEW type, Handle(type)
  PROVE  \A i \in 1 .. Len(eventList) :
           \/ eventList[i].dev = Head(eventList).dev /\ eventList[i].type = type
           \/ \E j \in 1 .. Len(eventList') : eventList'[j] = eventList[i]
<1>1. eventList \in Seq(Evs) /\ eventList # <<>> /\ eventList' = Tail(eventList)
      /\ Head(eventList).type = type
  BY DEF TypeOK, Handle
<1>2. Dropped(eventList, Head(eventList), eventList')
  BY <1>1, KeptTail
<1>3. QED BY <1>1, <1>2 DEF Dropped

\* A question is shown: its timer covers it from now on.
LEMMA WatchShown ==
  ASSUME TypeOK, TypeOK', WatchInv, IdsSuffice, BtDeviceRequestConfirmationNOTI
  PROVE  WatchInv'
<1> USE DEF timer, history, agent
<1>0. PICK d \in Devices, nr \in Numbers : d = Head(eventList).dev /\ nr = Head(eventList).nr
  BY Handled DEF BtDeviceRequestConfirmationNOTI
<1>1. /\ d \in Devices /\ nr \in Numbers /\ StartTimer(d, nr) /\ Handle("NOTI")
      /\ Head(eventList).type = "NOTI" /\ eventList # <<>>
  BY <1>0 DEF BtDeviceRequestConfirmationNOTI, Handle
<1>2. /\ UNCHANGED <<toCore, pending, toAgent, fired, late>>
      /\ shown' = [shown EXCEPT ![d] = nr]
  BY <1>0 DEF BtDeviceRequestConfirmationNOTI, Handle
<1>3. \A i \in 1 .. Len(eventList) :
        \/ eventList[i].dev = d /\ eventList[i].type = "NOTI"
        \/ \E j \in 1 .. Len(eventList') : eventList'[j] = eventList[i]
  BY <1>0, <1>1, RestOfEvents
<1>4. Len(timerTable) < Ids /\ Len(timerTable) \in Nat
  BY <1>1 DEF IdsSuffice, Ids, TypeOK
<1>5. ~ (Len(timerTable) >= Ids)
  BY <1>4, SMT DEF Ids
<1>6. PICK id \in TimerIds :
        /\ ~ InUse(id) /\ expired' = expired
        /\ timerTable' = Append(timerTable, TimerElement(id, d, nr))
        /\ timerIdMap' = [timerIdMap EXCEPT ![d] = id]
  BY <1>1, <1>5, StartTimerAdds
<1>7. TimerElement(id, d, nr) \in Timers /\ timerTable \in Seq(Timers)
  BY <1>1, RecordTypes DEF TypeOK
<1>8. /\ Len(timerTable') = Len(timerTable) + 1
      /\ timerTable'[Len(timerTable) + 1] = TimerElement(id, d, nr)
      /\ \A i \in 1 .. Len(timerTable) : timerTable'[i] = timerTable[i]
  BY <1>6, <1>7, AppendProperties
<1>9. IdsDistinct'
  <2>1. \A i \in 1 .. Len(timerTable) : timerTable[i].id # id
    BY <1>6 DEF InUse
  <2>2. ASSUME NEW i \in 1 .. Len(timerTable'), NEW j \in 1 .. Len(timerTable'),
               timerTable'[i].id = timerTable'[j].id, i < j
        PROVE  FALSE
    <3>1. i \in 1 .. Len(timerTable) /\ timerTable'[i] = timerTable[i]
      BY <1>4, <1>8, <2>2
    <3>2. CASE j = Len(timerTable) + 1
      BY <1>8, <2>1, <2>2, <3>1, <3>2 DEF TimerElement
    <3>3. CASE j \in 1 .. Len(timerTable)
      BY <1>8, <2>2, <3>1, <3>3 DEF WatchInv, IdsDistinct
    <3>4. QED BY <1>4, <1>8, <3>2, <3>3
  <2>3. \A i, j \in 1 .. Len(timerTable') : i = j \/ i < j \/ j < i
    BY <1>4, <1>8
  <2>4. QED BY <2>2, <2>3 DEF IdsDistinct
<1>10. Len(timerTable) + 1 \in 1 .. Len(timerTable')
  BY <1>4, <1>8
<1>11. Remembered(d)' /\ Covered(d)'
  <2>1. timerIdMap'[d] = id /\ shown'[d] = nr
    BY <1>1, <1>2, <1>6 DEF TypeOK
  <2>2. timerTable'[Len(timerTable) + 1].dev = d
    BY <1>8 DEF TimerElement
  <2>3. QED BY <1>8, <1>10, <2>1, <2>2 DEF Remembered, Covered, Running
<1>12. Kept(timerTable, timerTable')
  BY <1>4, <1>8 DEF Kept
<1>13. ASSUME NEW e \in Devices, e # d, Remembered(e)
       PROVE  Remembered(e)'
  <2>1. timerIdMap'[e] = timerIdMap[e] /\ shown'[e] = shown[e]
    BY <1>2, <1>6, <1>13 DEF TypeOK
  <2>2. QED BY <1>2, <1>12, <1>13, <2>1 DEF Remembered, Kept
<1>14. ASSUME NEW e \in Devices, e # d, Covered(e)
       PROVE  Covered(e)'
  <2>1. CASE \E i \in 1 .. Len(eventList) :
               eventList[i].dev = e /\ eventList[i].type \in {"NOTI", "TIMEOUT"}
    BY <1>3, <1>14, <2>1 DEF Covered
  <2>2. CASE Running(e)
    BY <1>12, <2>2 DEF Covered, Running, Kept
  <2>3. CASE \/ \E i \in 1 .. Len(toCore) : toCore[i].dev = e
             \/ \E t \in expired : t.dev = e
             \/ \E i \in 1 .. Len(toAgent) : toAgent[i].dev = e
    BY <1>2, <1>6, <2>3 DEF Covered
  <2>4. QED BY <1>14, <2>1, <2>2, <2>3 DEF Covered
<1>15. QED BY <1>2, <1>9, <1>11, <1>13, <1>14 DEF WatchInv, OnlyNotis

\* A decision is sent: it covers its device, and nobody else loses a timer.
LEMMA WatchDecided ==
  ASSUME TypeOK, TypeOK', WatchInv,
         NEW type \in {"ACCEPT", "REJECT", "TIMEOUT"}, NEW ok \in BOOLEAN,
         Handle(type), Decide(ok), shown' = shown, expired' = expired,
         ~ late' => ~ late,
         \/ UNCHANGED <<timerTable, timerIdMap>>
         \/ /\ type # "TIMEOUT" /\ RemoveTimerOnTimerIdMap(Head(eventList).dev)
            /\ ~ late' => <<Head(eventList).dev, shown[Head(eventList).dev]>> \notin fired
  PROVE  WatchInv'
<1> USE DEF timer, history, agent
<1>1. PICK d \in Devices : d = Head(eventList).dev
  BY Handled
<1>2. /\ UNCHANGED <<toCore, pending, fired>>
      /\ toAgent' = Append(toAgent, Decision(d, ok)) /\ toAgent \in Seq(Decisions)
  BY <1>1 DEF Handle, Decide, TypeOK
<1>3. \A i \in 1 .. Len(eventList) :
        \/ eventList[i].dev = d /\ eventList[i].type = type
        \/ \E j \in 1 .. Len(eventList') : eventList'[j] = eventList[i]
  BY <1>1, RestOfEvents
<1>4. Added(toAgent, Decision(d, ok), toAgent')
  <2>1. Decision(d, ok) \in Decisions
    BY <1>1, RecordTypes
  <2>2. QED BY <1>2, <2>1, KeptAppend
<1>5. Covered(d)'
  BY <1>4 DEF Covered, Decision, Added
<1>6. \/ UNCHANGED <<timerTable, timerIdMap>>
      \/ /\ RemoveTimerOnTimerIdMap(d) /\ timerIdMap' = [timerIdMap EXCEPT ![d] = 0]
         /\ ~ late' => <<d, shown[d]>> \notin fired
  BY <1>1 DEF RemoveTimerOnTimerIdMap
\* What is removed, if anything.
<1>7. \/ timerTable' = timerTable
      \/ \E k \in 1 .. Len(timerTable) :
           /\ timerTable[k].id = timerIdMap[d] /\ timerTable' = RemoveAt(timerTable, k)
           /\ ~ late' => <<d, shown[d]>> \notin fired
  BY <1>6 DEF RemoveTimerOnTimerIdMap, StopTimer
<1>8. ASSUME NEW k \in 1 .. Len(timerTable), timerTable[k].id = timerIdMap[d],
             timerTable' = RemoveAt(timerTable, k), ~ late' => <<d, shown[d]>> \notin fired
      PROVE  /\ IdsDistinct'
             /\ \A i \in 1 .. Len(timerTable) :
                  i = k \/ \E j \in 1 .. Len(timerTable') : timerTable'[j] = timerTable[i]
             /\ ~ late' => timerTable[k].dev = d
  <2>1. timerTable \in Seq(Timers) /\ timerTable[k] \in Timers
    BY ElementOfSeq DEF TypeOK
  <2>2. /\ Len(timerTable) = Len(timerTable') + 1 /\ Len(timerTable') \in Nat
        /\ \A j \in 1 .. Len(timerTable') :
             timerTable'[j] = IF j < k THEN timerTable[j] ELSE timerTable[j + 1]
    BY <1>8, <2>1, RemoveAtKeeps
  <2>3. IdsDistinct'
    <3>1. ASSUME NEW i \in 1 .. Len(timerTable'), NEW j \in 1 .. Len(timerTable'),
                 timerTable'[i].id = timerTable'[j].id, i < j
          PROVE  FALSE
      <4>1. PICK a \in 1 .. Len(timerTable) :
              timerTable'[i] = timerTable[a] /\ (a = i \/ (a = i + 1 /\ i >= k))
        BY <2>2
      <4>2. PICK b \in 1 .. Len(timerTable) :
              timerTable'[j] = timerTable[b] /\ ((b = j /\ j < k) \/ b = j + 1)
        <5>1. CASE j < k
          <6>1. j \in 1 .. Len(timerTable) /\ timerTable'[j] = timerTable[j]
            BY <2>2, <5>1
          <6>2. QED BY <5>1, <6>1
        <5>2. CASE j >= k
          <6>1. j + 1 \in 1 .. Len(timerTable) /\ timerTable'[j] = timerTable[j + 1]
            BY <2>2, <5>2
          <6>2. QED BY <6>1
        <5>3. QED BY <2>2, <5>1, <5>2
      <4>3. a # b
        BY <3>1, <4>1, <4>2
      <4>4. QED BY <3>1, <4>1, <4>2, <4>3 DEF WatchInv, IdsDistinct
    <3>2. \A i, j \in 1 .. Len(timerTable') : i = j \/ i < j \/ j < i
      BY <2>2
    <3>3. QED BY <3>1, <3>2 DEF IdsDistinct
  <2>4. ASSUME NEW i \in 1 .. Len(timerTable), i # k
        PROVE  \E j \in 1 .. Len(timerTable') : timerTable'[j] = timerTable[i]
    <3>1. CASE i < k
      <4>1. i \in 1 .. Len(timerTable') /\ timerTable'[i] = timerTable[i]
        BY <2>2, <3>1
      <4>2. QED BY <4>1
    <3>2. CASE i > k
      <4>1. i - 1 \in 1 .. Len(timerTable') /\ timerTable'[i - 1] = timerTable[i]
        BY <2>2, <3>2
      <4>2. QED BY <4>1
    <3>3. QED BY <2>2, <2>4, <3>1, <3>2
  <2>5. ASSUME ~ late'
        PROVE  timerTable[k].dev = d
    <3>1. Remembered(d) /\ <<d, shown[d]>> \notin fired
      BY <1>1, <1>8, <2>5 DEF WatchInv
    <3>2. timerIdMap[d] # 0
      <4>1. timerTable[k].id \in TimerIds
        BY <2>1 DEF Timers
      <4>2. 0 \notin TimerIds
        BY SMT DEF TimerIds
      <4>3. QED BY <1>8, <4>1, <4>2
    <3>3. PICK i \in 1 .. Len(timerTable) :
                 timerTable[i] = TimerElement(timerIdMap[d], d, shown[d])
      BY <3>1, <3>2 DEF Remembered
    <3>4. timerTable[i].id = timerIdMap[d] /\ timerTable[i].dev = d
      BY <3>3 DEF TimerElement
    <3>5. i = k
      BY <1>8, <3>4 DEF WatchInv, IdsDistinct
    <3>6. QED BY <3>4, <3>5
  <2>6. QED BY <2>3, <2>4, <2>5
<1>9. /\ IdsDistinct'
      /\ ~ late' => \A i \in 1 .. Len(timerTable) :
           timerTable[i].dev = d \/ \E j \in 1 .. Len(timerTable') : timerTable'[j] = timerTable[i]
  <2>1. CASE timerTable' = timerTable
    BY <2>1 DEF WatchInv, IdsDistinct
  <2>2. ASSUME NEW k \in 1 .. Len(timerTable), timerTable[k].id = timerIdMap[d],
               timerTable' = RemoveAt(timerTable, k), ~ late' => <<d, shown[d]>> \notin fired
        PROVE  <1>9
    BY <1>8, <2>2
  <2>3. QED BY <1>7, <2>1, <2>2
<1>10. ASSUME ~ late', NEW e \in Devices
       PROVE  Remembered(e)' /\ (pending'[e] # 0 => Covered(e)')
  <2>1. Remembered(e) /\ (pending[e] # 0 => Covered(e))
    BY <1>10 DEF WatchInv
  <2>2. CASE e = d
    <3>1. Remembered(d)'
      <4>1. CASE UNCHANGED <<timerTable, timerIdMap>>
        BY <1>2, <2>1, <2>2, <4>1 DEF Remembered
      <4>2. CASE timerIdMap' = [timerIdMap EXCEPT ![d] = 0]
        BY <1>1, <4>2 DEF Remembered, TypeOK
      <4>3. QED BY <1>6, <4>1, <4>2
    <3>2. QED BY <1>5, <2>2, <3>1
  <2>3. CASE e # d
    <3>1. Remembered(e)'
      <4>1. timerIdMap'[e] = timerIdMap[e] /\ shown'[e] = shown[e]
        BY <1>6, <2>3 DEF TypeOK
      <4>2. CASE timerIdMap[e] = 0 \/ <<e, shown[e]>> \in fired
        BY <1>2, <4>1, <4>2 DEF Remembered
      <4>3. CASE \E i \in 1 .. Len(timerTable) :
                   timerTable[i] = TimerElement(timerIdMap[e], e, shown[e])
        <5>1. PICK i \in 1 .. Len(timerTable) :
                     timerTable[i] = TimerElement(timerIdMap[e], e, shown[e])
          BY <4>3
        <5>2. timerTable[i].dev # d
          BY <2>3, <5>1 DEF TimerElement
        <5>3. \E j \in 1 .. Len(timerTable') : timerTable'[j] = timerTable[i]
          BY <1>9, <1>10, <5>2
        <5>4. QED BY <4>1, <5>1, <5>3 DEF Remembered
      <4>4. QED BY <2>1, <4>2, <4>3 DEF Remembered
    <3>2. ASSUME Covered(e)
          PROVE  Covered(e)'
      <4>1. CASE \E i \in 1 .. Len(eventList) :
                   eventList[i].dev = e /\ eventList[i].type \in {"NOTI", "TIMEOUT"}
        BY <1>3, <2>3, <4>1 DEF Covered
      <4>2. CASE Running(e)
        BY <1>9, <1>10, <2>3, <4>2 DEF Covered, Running
      <4>3. CASE \E i \in 1 .. Len(toAgent) : toAgent[i].dev = e
        BY <1>4, <4>3 DEF Covered, Kept, Added
      <4>4. CASE (\E i \in 1 .. Len(toCore) : toCore[i].dev = e) \/ \E t \in expired : t.dev = e
        BY <1>2, <4>4 DEF Covered
      <4>5. QED BY <3>2, <4>1, <4>2, <4>3, <4>4 DEF Covered
    <3>3. QED BY <1>2, <2>1, <3>1, <3>2
  <2>4. QED BY <2>2, <2>3
<1>11. OnlyNotis'
  BY <1>2 DEF WatchInv, OnlyNotis
<1>12. QED BY <1>9, <1>10, <1>11 DEF WatchInv

LEMMA WatchStep ==
  TypeOK /\ TypeOK' /\ WatchInv /\ IdsSuffice /\ [Next]_vars => WatchInv'
<1> SUFFICES ASSUME TypeOK, TypeOK', WatchInv, IdsSuffice, [Next]_vars
             PROVE  WatchInv'
  OBVIOUS
<1> USE DEF timer, history, agent
<1>1. CASE AcceptBTDeviceRequestConfirmation
  BY <1>1, WatchDecided DEF AcceptBTDeviceRequestConfirmation, NoteLate,
     RemoveTimerOnTimerIdMap
<1>2. CASE RejectBTDeviceRequestConfirmation
  BY <1>2, WatchDecided DEF RejectBTDeviceRequestConfirmation, NoteLate,
     RemoveTimerOnTimerIdMap
<1>3. CASE HandleBTDeviceRequestConfirmationTimeout
  BY <1>3, WatchDecided DEF HandleBTDeviceRequestConfirmationTimeout
<1>4. CASE UNCHANGED vars
  <2>1. UNCHANGED <<timerTable, timerIdMap, shown, fired, toCore, eventList, expired, toAgent,
                    pending, late>>
    BY <1>4 DEF vars
  <2>2. \A d : Covered(d)' <=> Covered(d)
    BY <2>1 DEF Covered, Running
  <2>3. QED BY <2>1, <2>2, SameTimers DEF WatchInv, OnlyNotis
<1>5. QED
  BY <1>1, <1>2, <1>3, <1>4, WatchAgent, WatchProducers, WatchTimer, WatchShown
     DEF Next, CoreStep

\* Every parked request has something left that will answer it, for any devices,
\* requests and answers, as long as no answer is later than its timeout and no
\* question is shown while all of createNewTimerId's ids are taken.
THEOREM Watched == Spec /\ []IdsSuffice => []WatchedOver
<1>1. Init => WatchInv
  BY DEF Init, WatchInv, IdsDistinct, OnlyNotis, Remembered
<1>2. WatchInv => WatchedOver
  BY DEF WatchInv, WatchedOver, Covered
<1>3. TypeOK /\ [Next]_vars => TypeOK'
  BY TypeStep
<1>4. QED BY <1>1, <1>2, <1>3, TypeInit, WatchStep, PTL DEF Spec

-----------------------------------------------------------------------------
(* BlueZ is told what was decided first.  FirstDecisionCounts is about a    *)
(* request that has been answered; while it is parked, the first decision   *)
(* on its way to the agent has to be the first one taken.                   *)

\* Events, timers and prompts are about requests that BlueZ has made.
AskedFor(s, a) == \A i \in 1 .. Len(s) : s[i].nr <= a[s[i].dev]

Numbered == /\ AskedFor(toCore, asked) /\ AskedFor(eventList, asked) /\ AskedFor(timerTable, asked)
            /\ \A t \in expired : t.nr <= asked[t.dev]
            /\ \A d \in Devices : shown[d] <= asked[d]

Verdict(ok) == IF ok THEN "accepted" ELSE "rejected"

Undecided(q, d) == \A i \in 1 .. Len(q) : q[i].dev # d

\* The first decision in q about device d gives that verdict.
GivenFirst(q, d, verdict) ==
  \/ verdict = "nothing" /\ Undecided(q, d)
  \/ \E i \in 1 .. Len(q) : /\ q[i].dev = d /\ verdict = Verdict(q[i].ok)
                            /\ \A j \in 1 .. i - 1 : q[j].dev # d

\* A device that has never asked, and one that has asked once.
New(d)  == /\ pending[d] = 0 /\ Undecided(toAgent, d)
           /\ \A k \in Numbers : decided[d][k] = "nothing"

Once(d) == /\ pending[d] \in {0, 1}
           /\ pending[d] = 1 => GivenFirst(toAgent, d, decided[d][1])
           /\ reply[d][1] \in {"accepted", "rejected"} => reply[d][1] = decided[d][1]

DecisionInv == /\ Numbered
               /\ \A d \in Devices : (asked[d] = 0 => New(d)) /\ (asked[d] = 1 => Once(d))

LEMMA DecisionInit == Init => DecisionInv
BY DEF Init, DecisionInv, Numbered, AskedFor, New, Undecided

LEMMA AskedForWithin ==
  ASSUME NEW s, NEW t, NEW a, AskedFor(s, a),
         \A j \in 1 .. Len(t) : \E i \in 1 .. Len(s) : t[j] = s[i]
  PROVE  AskedFor(t, a)
BY DEF AskedFor

LEMMA AskedForAppend ==
  ASSUME NEW S, NEW s \in Seq(S), NEW e \in S, NEW t, t = Append(s, e), NEW a,
         AskedFor(s, a), e.nr <= a[e.dev]
  PROVE  AskedFor(t, a)
<1>1. \A j \in 1 .. Len(t) : t[j] = e \/ \E i \in 1 .. Len(s) : t[j] = s[i]
  BY KeptAppend DEF Added
<1>2. QED BY <1>1 DEF AskedFor

LEMMA AskedForTail ==
  ASSUME NEW S, NEW s \in Seq(S), s # <<>>, NEW t, t = Tail(s), NEW a, AskedFor(s, a)
  PROVE  AskedFor(t, a) /\ Head(s).nr <= a[Head(s).dev]
<1>1. Head(s) = s[1] /\ 1 \in 1 .. Len(s)
  BY HeadTailProperties
<1>2. \A j \in 1 .. Len(t) : \E i \in 1 .. Len(s) : t[j] = s[i]
  BY KeptTail DEF Dropped
<1>3. AskedFor(t, a)
  BY <1>2 DEF AskedFor
<1>4. QED BY <1>1, <1>3 DEF AskedFor

\* More requests than before.
LEMMA AskedForGrows ==
  ASSUME NEW S, NEW s \in Seq(S), \A e \in S : e.dev \in Devices /\ e.nr \in Nat,
         NEW a \in [Devices -> Nat], NEW b \in [Devices -> Nat],
         \A d \in Devices : a[d] <= b[d], AskedFor(s, a)
  PROVE  AskedFor(s, b)
<1> SUFFICES ASSUME NEW i \in 1 .. Len(s)
             PROVE  s[i].nr <= b[s[i].dev]
  BY DEF AskedFor
<1>1. s[i].dev \in Devices /\ s[i].nr \in Nat
  OBVIOUS
<1>2. s[i].nr <= a[s[i].dev] /\ a[s[i].dev] <= b[s[i].dev]
  BY <1>1 DEF AskedFor
<1>3. QED BY <1>1, <1>2

\* One more decision counts only for a device about which there is none.
LEMMA GivenAppended ==
  ASSUME NEW q \in Seq(Decisions), NEW m \in Decisions, NEW t, t = Append(q, m), NEW d
  PROVE  /\ m.dev # d /\ Undecided(q, d) => Undecided(t, d)
         /\ \A v : GivenFirst(q, d, v) /\ (m.dev # d \/ v # "nothing") => GivenFirst(t, d, v)
         /\ m.dev = d /\ Undecided(q, d) => GivenFirst(t, d, Verdict(m.ok))
<1>1. /\ Len(t) = Len(q) + 1 /\ Len(q) \in Nat /\ t[Len(t)] = m
      /\ \A i \in 1 .. Len(q) : t[i] = q[i] /\ i \in 1 .. Len(t)
  BY AppendProperties
<1>2. \A i \in 1 .. Len(t) : i = Len(t) \/ i \in 1 .. Len(q)
  BY <1>1
<1>3. m.dev # d /\ Undecided(q, d) => Undecided(t, d)
  BY <1>1, <1>2 DEF Undecided
<1>4. ASSUME NEW v, GivenFirst(q, d, v), m.dev # d \/ v # "nothing"
      PROVE  GivenFirst(t, d, v)
  <2>1. CASE v = "nothing" /\ Undecided(q, d)
    BY <1>3, <1>4, <2>1 DEF GivenFirst
  <2>2. ASSUME NEW i \in 1 .. Len(q), q[i].dev = d, v = Verdict(q[i].ok),
               \A j \in 1 .. i - 1 : q[j].dev # d
        PROVE  GivenFirst(t, d, v)
    <3>1. \A j \in 1 .. i - 1 : j \in 1 .. Len(q)
      BY <1>1
    <3>2. /\ i \in 1 .. Len(t) /\ t[i].dev = d /\ v = Verdict(t[i].ok)
          /\ \A j \in 1 .. i - 1 : t[j].dev # d
      BY <1>1, <2>2, <3>1
    <3>3. QED BY <3>2 DEF GivenFirst
  <2>3. QED BY <1>4, <2>1, <2>2 DEF GivenFirst
<1>5. ASSUME m.dev = d, Undecided(q, d)
      PROVE  GivenFirst(t, d, Verdict(m.ok))
  <2>1. Len(t) \in 1 .. Len(t) /\ \A j \in 1 .. Len(t) - 1 : j \in 1 .. Len(q)
    BY <1>1
  <2>2. \A j \in 1 .. Len(t) - 1 : t[j].dev # d
    BY <1>1, <1>5, <2>1 DEF Undecided
  <2>3. QED BY <1>1, <1>5, <2>1, <2>2 DEF GivenFirst
<1>6. QED BY <1>3, <1>4, <1>5

\* The decision that is taken from the queue is the first of its device.
LEMMA GivenTaken ==
  ASSUME NEW q \in Seq(Decisions), q # <<>>, NEW t, t = Tail(q), NEW d
  PROVE  /\ Undecided(q, d) => Undecided(t, d)
         /\ \A v : GivenFirst(q, d, v) /\ Head(q).dev # d => GivenFirst(t, d, v)
         /\ \A v : GivenFirst(q, d, v) /\ Head(q).dev = d => v = Verdict(Head(q).ok)
<1>1. /\ Len(q) = Len(t) + 1 /\ Len(t) \in Nat /\ Head(q) = q[1] /\ 1 \in 1 .. Len(q)
      /\ \A i \in 1 .. Len(t) : t[i] = q[i + 1] /\ i + 1 \in 1 .. Len(q)
  BY HeadTailProperties
<1>2. Undecided(q, d) => Undecided(t, d)
  BY <1>1 DEF Undecided
<1>3. ASSUME NEW v, GivenFirst(q, d, v), Head(q).dev # d
      PROVE  GivenFirst(t, d, v)
  <2>1. CASE v = "nothing" /\ Undecided(q, d)
    BY <1>2, <2>1 DEF GivenFirst
  <2>2. ASSUME NEW i \in 1 .. Len(q), q[i].dev = d, v = Verdict(q[i].ok),
               \A j \in 1 .. i - 1 : q[j].dev # d
        PROVE  GivenFirst(t, d, v)
    <3>1. i # 1
      BY <1>1, <1>3, <2>2
    <3>2. i - 1 \in 1 .. Len(t) /\ t[i - 1] = q[i]
      BY <1>1, <3>1
    <3>3. ASSUME NEW j \in 1 .. i - 1 - 1
          PROVE  t[j].dev # d
      <4>1. j + 1 \in 1 .. i - 1 /\ j \in 1 .. Len(t)
        BY <1>1
      <4>2. QED BY <1>1, <2>2, <4>1
    <3>4. QED BY <2>2, <3>2, <3>3 DEF GivenFirst
  <2>3. QED BY <1>3, <2>1, <2>2 DEF GivenFirst
<1>4. ASSUME NEW v, GivenFirst(q, d, v), Head(q).dev = d
      PROVE  v = Verdict(Head(q).ok)
  <2>1. ~ Undecided(q, d)
    BY <1>1, <1>4 DEF Undecided
  <2>2. PICK i \in 1 .. Len(q) : /\ q[i].dev = d /\ v = Verdict(q[i].ok)
                                 /\ \A j \in 1 .. i - 1 : q[j].dev # d
    BY <1>4, <2>1 DEF GivenFirst
  <2>3. i # 1 => 1 \in 1 .. i - 1
    BY <1>1
  <2>4. i = 1
    BY <1>1, <1>4, <2>2, <2>3
  <2>5. QED BY <1>1, <2>2, <2>4
<1>5. QED BY <1>2, <1>3, <1>4

LEMMA NumberedAgent == TypeOK /\ TypeOK' /\ Numbered /\ (BlueZ \/ ConfirmRequest) => Numbered'
<1> SUFFICES ASSUME TypeOK, TypeOK', Numbered, BlueZ \/ ConfirmRequest
             PROVE  Numbered'
  OBVIOUS
<1> USE DEF timer, history
<1>1. UNCHANGED <<eventList, timerTable, expired, shown>>
  BY DEF BlueZ, HandleRequestConfirmation, HandleRelease, ConfirmRequest
<1>2. CASE HandleRelease \/ ConfirmRequest
  <2>1. UNCHANGED <<toCore, asked>>
    BY <1>2 DEF HandleRelease, ConfirmRequest
  <2>2. QED BY <1>1, <2>1 DEF Numbered, AskedFor
<1>3. ASSUME NEW d \in Devices, HandleRequestConfirmation(d)
      PROVE  Numbered'
  <2>1. /\ asked \in [Devices -> Nat] /\ asked' \in [Devices -> Nat]
        /\ asked' = [asked EXCEPT ![d] = asked[d] + 1]
    <3>1. asked \in [Devices -> 0 .. MaxAsks] /\ asked' \in [Devices -> 0 .. MaxAsks]
      BY DEF TypeOK
    <3>2. \A f \in [Devices -> 0 .. MaxAsks] : f \in [Devices -> Nat]
      OBVIOUS
    <3>3. asked' = [asked EXCEPT ![d] = asked[d] + 1]
      BY <1>3 DEF HandleRequestConfirmation
    <3>4. QED BY <3>1, <3>2, <3>3
  <2>2. \A e \in Devices : asked[e] <= asked'[e]
    BY <2>1
  <2>3. /\ \A e \in Evs : e.dev \in Devices /\ e.nr \in Nat
        /\ \A e \in Timers : e.dev \in Devices /\ e.nr \in Nat
    BY DEF Evs, Timers, Numbers
  <2>4. toCore \in Seq(Evs) /\ eventList \in Seq(Evs) /\ timerTable \in Seq(Timers)
    BY DEF TypeOK
  <2>5. AskedFor(toCore, asked') /\ AskedFor(eventList, asked') /\ AskedFor(timerTable, asked')
    BY <2>1, <2>2, <2>3, <2>4, AskedForGrows DEF Numbered
  <2>6. ASSUME NEW t \in expired
        PROVE  t.nr <= asked'[t.dev]
    <3>1. t.dev \in Devices /\ t.nr \in Nat
      BY <2>3 DEF TypeOK
    <3>2. t.nr <= asked[t.dev]
      BY DEF Numbered
    <3>3. QED BY <2>1, <2>2, <3>1, <3>2
  <2>7. ASSUME NEW e \in Devices
        PROVE  shown[e] <= asked'[e]
    <3>1. shown[e] <= asked[e] /\ shown[e] \in Nat
      BY DEF Numbered, TypeOK
    <3>2. QED BY <2>1, <2>2, <3>1
  <2>8. AskedFor(toCore', asked')
    <3> DEFINE e == Ev("NOTI", d, asked[d] + 1)
    <3>1. asked[d] + 1 \in Numbers /\ "NOTI" \in EventTypes
      BY <1>3 DEF HandleRequestConfirmation, EventTypes
    <3>2. e \in Evs
      BY <3>1, RecordTypes
    <3>3. e.nr <= asked'[e.dev]
      BY <2>1, <3>1 DEF Ev
    <3>4. toCore' = Append(toCore, e)
      BY <1>3 DEF HandleRequestConfirmation
    <3> HIDE DEF e
    <3>5. QED BY <2>4, <2>5, <3>2, <3>3, <3>4, AskedForAppend
  <2>9. QED BY <1>1, <2>5, <2>6, <2>7, <2>8 DEF Numbered
<1>4. QED BY <1>2, <1>3 DEF BlueZ

LEMMA NumberedProducers ==
  TypeOK /\ Numbered /\ (Client \/ ReceiveNoti \/ TimerStep) => Numbered'
<1> SUFFICES ASSUME TypeOK, Numbered, Client \/ ReceiveNoti \/ TimerStep
             PROVE  Numbered'
  OBVIOUS
<1> USE DEF timer, history, agent
<1>1. UNCHANGED <<asked, shown>>
  BY DEF Client, Answer, ReceiveNoti, TimerStep, ExpireTimers, PushExpired
<1>2. eventList \in Seq(Evs) /\ \A e \in Evs : e.nr <= asked[e.dev] /\ eventList' = Append(eventList, e)
                                 => AskedFor(eventList', asked)
  BY AskedForAppend DEF TypeOK, Numbered
<1>3. ASSUME NEW d \in Devices, NEW type \in {"ACCEPT", "REJECT"}, Answer(d, type)
      PROVE  Numbered'
  <2>1. shown[d] \in Numbers /\ type \in EventTypes
    BY <1>3 DEF Answer, TypeOK, Numbers, EventTypes
  <2>2. Ev(type, d, shown[d]) \in Evs
    BY <2>1, RecordTypes
  <2>3. Ev(type, d, shown[d]).nr <= asked[Ev(type, d, shown[d]).dev]
    BY DEF Ev, Numbered
  <2>4. UNCHANGED <<toCore, timerTable, expired>> /\ eventList' = Append(eventList, Ev(type, d, shown[d]))
    BY <1>3 DEF Answer
  <2>5. AskedFor(eventList', asked)
    BY <1>2, <2>2, <2>3, <2>4
  <2>6. QED BY <1>1, <2>4, <2>5 DEF Numbered
<1>4. CASE ReceiveNoti
  <2>1. /\ UNCHANGED <<timerTable, expired>> /\ toCore \in Seq(Evs) /\ toCore # <<>>
        /\ toCore' = Tail(toCore) /\ eventList' = Append(eventList, Head(toCore))
    BY <1>4 DEF ReceiveNoti, TypeOK
  <2>2. Head(toCore) \in Evs
    BY <2>1, HeadTailProperties
  <2>3. AskedFor(toCore', asked) /\ Head(toCore).nr <= asked[Head(toCore).dev]
    BY <2>1, AskedForTail DEF Numbered
  <2>4. AskedFor(eventList', asked)
    BY <1>2, <2>1, <2>2, <2>3
  <2>5. QED BY <1>1, <2>1, <2>3, <2>4 DEF Numbered
<1>5. ASSUME NEW n \in 1 .. Len(timerTable), ExpireTimers(n)
      PROVE  Numbered'
  <2>1. UNCHANGED <<toCore, eventList>> /\ expired' = {timerTable[i] : i \in 1 .. n}
    BY <1>5 DEF ExpireTimers
  <2>2. Len(timerTable) \in Nat /\ \A i \in 1 .. n : i \in 1 .. Len(timerTable)
    BY DEF TypeOK
  <2>3. \A t \in expired' : t.nr <= asked[t.dev]
    BY <2>1, <2>2 DEF Numbered, AskedFor
  <2>4. \A j \in 1 .. Len(timerTable') : \E i \in 1 .. Len(timerTable) : timerTable'[j] = timerTable[i]
    <3>1. /\ n + 1 \in Int /\ Len(timerTable) \in Nat
          /\ \A i \in n + 1 .. Len(timerTable) : timerTable[i] \in Timers
      BY ElementOfSeq DEF TypeOK
    <3>2. /\ Len(timerTable') = IF n + 1 <= Len(timerTable)
                                THEN Len(timerTable) - (n + 1) + 1 ELSE 0
          /\ \A i \in 1 .. Len(timerTable) - (n + 1) + 1 : timerTable'[i] = timerTable[n + 1 + i - 1]
      BY <1>5, <3>1, SubSeqProperties DEF ExpireTimers
    <3>3. \A j \in 1 .. Len(timerTable') : j + n \in 1 .. Len(timerTable) /\ timerTable'[j] = timerTable[j + n]
      BY <3>1, <3>2
    <3>4. QED BY <3>3
  <2>5. AskedFor(timerTable', asked)
    BY <2>4, AskedForWithin DEF Numbered
  <2>6. QED BY <1>1, <2>1, <2>3, <2>5 DEF Numbered
<1>6. ASSUME NEW t \in expired, PushExpired(t)
      PROVE  Numbered'
  <2>1. /\ UNCHANGED <<toCore, timerTable>> /\ expired' = expired \ {t}
        /\ eventList' = Append(eventList, Ev("TIMEOUT", t.dev, t.nr))
    BY <1>6 DEF PushExpired
  <2>2. t.dev \in Devices /\ t.nr \in Numbers /\ "TIMEOUT" \in EventTypes /\ t.nr <= asked[t.dev]
    BY DEF TypeOK, Timers, EventTypes, Numbered
  <2>3. /\ Ev("TIMEOUT", t.dev, t.nr) \in Evs
        /\ Ev("TIMEOUT", t.dev, t.nr).nr <= asked[Ev("TIMEOUT", t.dev, t.nr).dev]
    BY <2>2, RecordTypes DEF Ev
  <2>4. AskedFor(eventList', asked)
    BY <1>2, <2>1, <2>3
  <2>5. QED BY <1>1, <2>1, <2>4 DEF Numbered
<1>7. QED BY <1>3, <1>4, <1>5, <1>6 DEF Client, TimerStep

LEMMA NumberedCore == TypeOK /\ Numbered /\ CoreStep => Numbered'
<1> SUFFICES ASSUME TypeOK, Numbered, CoreStep
             PROVE  Numbered'
  OBVIOUS
<1> USE DEF timer, history, agent
<1>1. PICK type : Handle(type)
  BY DEF CoreStep, BtDeviceRequestConfirmationNOTI, AcceptBTDeviceRequestConfirmation,
         RejectBTDeviceRequestConfirmation, HandleBTDeviceRequestConfirmationTimeout
<1>2. UNCHANGED <<asked, toCore>> /\ eventList \in Seq(Evs) /\ eventList # <<>> /\ eventList' = Tail(eventList)
  BY <1>1 DEF Handle, TypeOK
<1>3. AskedFor(eventList', asked) /\ Head(eventList).nr <= asked[Head(eventList).dev]
  BY <1>2, AskedForTail DEF Numbered
<1>4. Head(eventList).dev \in Devices /\ Head(eventList).nr \in Numbers
  BY <1>1, Handled
<1>5. CASE BtDeviceRequestConfirmationNOTI
  <2> DEFINE d == Head(eventList).dev
             nr == Head(eventList).nr
  <2>1. StartTimer(d, nr) /\ shown' = [shown EXCEPT ![d] = nr]
    BY <1>5 DEF BtDeviceRequestConfirmationNOTI
  <2>2. \A e \in Devices : shown'[e] <= asked[e]
    BY <1>3, <1>4, <2>1 DEF Numbered, TypeOK
  <2> HIDE DEF d, nr
  <2>3. d \in Devices /\ nr \in Numbers /\ nr <= asked[d]
    BY <1>3, <1>4 DEF d, nr
  <2>4. expired' = expired /\ AskedFor(timerTable', asked)
    <3>1. CASE UNCHANGED <<timer, timerIdMap>>
      BY <3>1 DEF Numbered
    <3>2. ASSUME NEW id \in TimerIds, expired' = expired,
                 timerTable' = Append(timerTable, TimerElement(id, d, nr))
          PROVE  expired' = expired /\ AskedFor(timerTable', asked)
      <4>1. TimerElement(id, d, nr) \in Timers /\ timerTable \in Seq(Timers)
        BY <2>3, RecordTypes DEF TypeOK
      <4>2. TimerElement(id, d, nr).nr <= asked[TimerElement(id, d, nr).dev]
        BY <2>3 DEF TimerElement
      <4>3. QED BY <3>2, <4>1, <4>2, AskedForAppend DEF Numbered
    <3>3. QED BY <2>1, <2>3, <3>1, <3>2, StartTimerAdds
  <2>5. QED BY <1>2, <1>3, <2>2, <2>4 DEF Numbered
<1>6. CASE AcceptBTDeviceRequestConfirmation \/ RejectBTDeviceRequestConfirmation
  <2>1. shown' = shown /\ expired' = expired /\ StopTimer(timerIdMap[Head(eventList).dev])
    BY <1>6 DEF AcceptBTDeviceRequestConfirmation, RejectBTDeviceRequestConfirmation,
                RemoveTimerOnTimerIdMap
  <2>2. AskedFor(timerTable', asked)
    <3>1. ASSUME NEW i \in 1 .. Len(timerTable), timerTable' = RemoveAt(timerTable, i)
          PROVE  AskedFor(timerTable', asked)
      <4>1. timerTable \in Seq(Timers) /\ Len(timerTable) \in Nat
        BY DEF TypeOK
      <4>2. /\ Len(timerTable) = Len(timerTable') + 1 /\ Len(timerTable') \in Nat
            /\ \A j \in 1 .. Len(timerTable') :
                 timerTable'[j] = IF j < i THEN timerTable[j] ELSE timerTable[j + 1]
        BY <3>1, <4>1, RemoveAtKeeps
      <4>3. \A j \in 1 .. Len(timerTable') : \E k \in 1 .. Len(timerTable) : timerTable'[j] = timerTable[k]
        BY <4>2
      <4>4. QED BY <4>3, AskedForWithin DEF Numbered
    <3>2. QED BY <2>1, <3>1 DEF StopTimer, Numbered
  <2>3. QED BY <1>2, <1>3, <2>1, <2>2 DEF Numbered
<1>7. CASE HandleBTDeviceRequestConfirmationTimeout
  BY <1>2, <1>3, <1>7 DEF HandleBTDeviceRequestConfirmationTimeout, Numbered
<1>8. QED BY <1>5, <1>6, <1>7 DEF CoreStep

\* The agent's side: a request is made, dropped, or answered with the first decision.
LEMMA AnsweredByFirst ==
  ASSUME TypeOK, DecisionInv, BlueZ \/ ConfirmRequest, NEW d \in Devices
  PROVE  (asked'[d] = 0 => New(d)') /\ (asked'[d] = 1 => Once(d)')
<1> USE DEF timer, history, agent
<1>0. /\ asked[d] \in Nat /\ (asked[d] = 0 => New(d)) /\ (asked[d] = 1 => Once(d))
      /\ asked \in [Devices -> 0 .. MaxAsks] /\ pending \in [Devices -> 0 .. MaxAsks]
  BY DEF TypeOK, DecisionInv
<1>1. decided' = decided
  BY DEF BlueZ, HandleRequestConfirmation, HandleRelease, ConfirmRequest
<1>2. ASSUME NEW e \in Devices, HandleRequestConfirmation(e)
      PROVE  (asked'[d] = 0 => New(d)') /\ (asked'[d] = 1 => Once(d)')
  <2>1. toAgent' = toAgent
    BY <1>2 DEF HandleRequestConfirmation
  <2>2. CASE e # d
    <3>1. asked'[d] = asked[d] /\ pending'[d] = pending[d] /\ reply'[d] = reply[d]
      BY <1>2, <2>2 DEF HandleRequestConfirmation, TypeOK
    <3>2. QED BY <1>0, <1>1, <2>1, <3>1 DEF New, Once
  <2>3. CASE e = d
    <3>1. asked'[d] = asked[d] + 1 /\ pending'[d] = asked[d] + 1 /\ asked[d] + 1 \in Numbers
      BY <1>0, <1>2, <2>3 DEF HandleRequestConfirmation
    <3>2. ASSUME asked'[d] = 1
          PROVE  Once(d)'
      <4>1. asked[d] = 0 /\ pending'[d] = 1 /\ 1 \in Numbers
        BY <1>0, <3>1, <3>2
      <4>2. reply'[d][1] = "open"
        BY <1>2, <2>3, <4>1 DEF HandleRequestConfirmation, TypeOK
      <4>3. GivenFirst(toAgent, d, decided[d][1])
        BY <1>0, <4>1 DEF New, GivenFirst
      <4>4. QED BY <1>1, <2>1, <4>1, <4>2, <4>3 DEF Once
    <3>3. QED BY <1>0, <3>1, <3>2
  <2>4. QED BY <2>2, <2>3
<1>3. CASE HandleRelease
  <2>1. /\ asked' = asked /\ toAgent' = toAgent /\ pending'[d] = 0
        /\ \A k \in Numbers : reply'[d][k] = "dropped" \/ reply'[d][k] = reply[d][k]
    BY <1>3 DEF HandleRelease
  <2>2. asked[d] = 1 => 1 \in Numbers
    BY <1>0 DEF Numbers
  <2>3. QED BY <1>0, <1>1, <2>1, <2>2 DEF New, Once
<1>4. CASE ConfirmRequest
  <2> DEFINE m == Head(toAgent)
  <2>1. /\ toAgent \in Seq(Decisions) /\ toAgent # <<>> /\ toAgent' = Tail(toAgent) /\ asked' = asked
    BY <1>4 DEF ConfirmRequest, TypeOK
  <2>2. m \in Decisions /\ m.dev \in Devices
    <3>1. m \in Decisions
      BY <2>1, HeadTailProperties
    <3>2. QED BY <3>1 DEF Decisions
  <2>3. /\ IF pending[m.dev] = 0 THEN UNCHANGED <<pending, reply>>
           ELSE /\ pending' = [pending EXCEPT ![m.dev] = 0]
                /\ reply' = [reply EXCEPT ![m.dev][pending[m.dev]] = Verdict(m.ok)]
    BY <1>4 DEF ConfirmRequest, Verdict
  <2>4. /\ Undecided(toAgent, d) => Undecided(toAgent', d)
        /\ \A v : GivenFirst(toAgent, d, v) /\ m.dev # d => GivenFirst(toAgent', d, v)
        /\ \A v : GivenFirst(toAgent, d, v) /\ m.dev = d => v = Verdict(m.ok)
    BY <2>1, GivenTaken
  <2> HIDE DEF m
  <2>5. CASE m.dev # d
    <3>1. pending'[d] = pending[d] /\ reply'[d] = reply[d]
      BY <1>0, <2>2, <2>3, <2>5 DEF TypeOK
    <3>2. QED BY <1>0, <1>1, <2>1, <2>4, <2>5, <3>1 DEF New, Once
  <2>6. CASE m.dev = d /\ pending[d] = 0
    BY <1>0, <1>1, <2>1, <2>3, <2>4, <2>6 DEF New, Once
  <2>7. CASE m.dev = d /\ pending[d] # 0
    <3>1. asked[d] # 0 /\ pending'[d] = 0
      BY <1>0, <2>2, <2>3, <2>7 DEF New
    <3>2. ASSUME asked[d] = 1
          PROVE  Once(d)'
      <4>1. pending[d] = 1 /\ GivenFirst(toAgent, d, decided[d][1])
        BY <1>0, <2>7, <3>2 DEF Once
      <4>2. decided[d][1] = Verdict(m.ok)
        BY <2>4, <2>7, <4>1
      <4>3. reply'[d][1] = Verdict(m.ok)
        <5>1. 1 \in Numbers
          BY <1>0, <3>2 DEF Numbers
        <5>2. QED BY <2>2, <2>3, <2>7, <4>1, <5>1 DEF TypeOK
      <4>4. QED BY <1>1, <3>1, <4>2, <4>3 DEF Once
    <3>3. QED BY <2>1, <3>1, <3>2
  <2>8. QED BY <2>5, <2>6, <2>7
<1>5. QED BY <1>2, <1>3, <1>4 DEF BlueZ

\* The core manager's side: what it decides first is sent first.
LEMMA FirstIsSentFirst ==
  ASSUME TypeOK, DecisionInv, NEW type, NEW ok \in BOOLEAN, Handle(type), Decide(ok), NEW d \in Devices
  PROVE  (asked'[d] = 0 => New(d)') /\ (asked'[d] = 1 => Once(d)')
<1> DEFINE e == Head(eventList)
           m == Decision(e.dev, ok)
<1>1. UNCHANGED <<asked, pending, reply>>
  BY DEF Handle, agent
<1>2. e.dev \in Devices /\ e.nr \in Numbers
  BY Handled
<1>3. e.nr <= asked[e.dev] /\ asked[e.dev] \in Nat
  <2>1. eventList \in Seq(Evs) /\ eventList # <<>> /\ AskedFor(eventList, asked)
    BY DEF Handle, TypeOK, DecisionInv, Numbered
  <2>2. e.nr <= asked[e.dev]
    BY <2>1, AskedForTail
  <2>3. QED BY <1>2, <2>2 DEF TypeOK
<1>4. /\ toAgent \in Seq(Decisions) /\ m \in Decisions /\ toAgent' = Append(toAgent, m)
      /\ m.dev = e.dev /\ m.ok = ok
  BY <1>2, RecordTypes DEF Decide, TypeOK, Decision
<1>5. decided' = IF decided[e.dev][e.nr] # "nothing" THEN decided
                 ELSE [decided EXCEPT ![e.dev][e.nr] = Verdict(ok)]
  BY DEF Decide, Verdict
<1>6. /\ m.dev # d /\ Undecided(toAgent, d) => Undecided(toAgent', d)
      /\ \A v : GivenFirst(toAgent, d, v) /\ (m.dev # d \/ v # "nothing") => GivenFirst(toAgent', d, v)
      /\ m.dev = d /\ Undecided(toAgent, d) => GivenFirst(toAgent', d, Verdict(m.ok))
  <2> HIDE DEF m
  <2>1. QED BY <1>4, GivenAppended
<1> HIDE DEF m, e
<1>7. (asked[d] = 0 => New(d)) /\ (asked[d] = 1 => Once(d))
  BY DEF DecisionInv
<1>8. CASE e.dev # d
  <2>1. decided'[d] = decided[d]
    BY <1>2, <1>5, <1>8 DEF TypeOK
  <2>2. QED BY <1>1, <1>4, <1>6, <1>7, <1>8, <2>1 DEF New, Once
<1>9. CASE e.dev = d
  <2>1. asked[d] # 0
    BY <1>2, <1>3, <1>9 DEF Numbers
  <2>2. ASSUME asked[d] = 1
        PROVE  Once(d)'
    <3>1. e.nr = 1 /\ 1 \in Numbers
      BY <1>2, <1>3, <1>9, <2>2 DEF Numbers
    <3>2. CASE decided[d][1] # "nothing"
      <4>1. decided' = decided
        BY <1>5, <1>9, <3>1, <3>2
      <4>2. QED BY <1>1, <1>6, <1>7, <2>2, <3>2, <4>1 DEF Once
    <3>3. CASE decided[d][1] = "nothing"
      <4>1. decided'[d][1] = Verdict(ok)
        BY <1>2, <1>5, <1>9, <3>1, <3>3 DEF TypeOK
      <4>2. GivenFirst(toAgent, d, decided[d][1]) => GivenFirst(toAgent', d, decided'[d][1])
        <5>1. GivenFirst(toAgent, d, decided[d][1]) => Undecided(toAgent, d)
          BY <3>3 DEF GivenFirst, Verdict
        <5>2. QED BY <1>4, <1>6, <1>9, <4>1, <5>1
      <4>3. ~ (reply[d][1] \in {"accepted", "rejected"})
        BY <1>7, <2>2, <3>3 DEF Once
      <4>4. QED BY <1>1, <1>7, <2>2, <4>2, <4>3 DEF Once
    <3>4. QED BY <3>2, <3>3
  <2>3. QED BY <1>1, <2>1, <2>2
<1>10. QED BY <1>8, <1>9

LEMMA DecisionStep == TypeOK /\ TypeOK' /\ DecisionInv /\ [Next]_vars => DecisionInv'
<1> SUFFICES ASSUME TypeOK, TypeOK', DecisionInv, [Next]_vars
             PROVE  DecisionInv'
  OBVIOUS
<1> USE DEF timer, history, agent
<1>1. ASSUME UNCHANGED <<asked, pending, reply, toAgent, decided>>, NEW d \in Devices
      PROVE  (asked'[d] = 0 => New(d)') /\ (asked'[d] = 1 => Once(d)')
  BY <1>1 DEF DecisionInv, New, Once
<1>2. CASE BlueZ \/ ConfirmRequest
  BY <1>2, NumberedAgent, AnsweredByFirst DEF DecisionInv
<1>3. CASE Client \/ ReceiveNoti \/ TimerStep
  <2>1. UNCHANGED <<asked, pending, reply, toAgent, decided>>
    BY <1>3 DEF Client, Answer, ReceiveNoti, TimerStep, ExpireTimers, PushExpired
  <2>2. QED BY <1>1, <1>3, <2>1, NumberedProducers DEF DecisionInv
<1>4. CASE CoreStep
  <2>1. CASE BtDeviceRequestConfirmationNOTI
    <3>1. UNCHANGED <<asked, pending, reply, toAgent, decided>>
      BY <2>1 DEF BtDeviceRequestConfirmationNOTI, Handle
    <3>2. QED BY <1>1, <1>4, <3>1, NumberedCore DEF DecisionInv
  <2>2. CASE ~ BtDeviceRequestConfirmationNOTI
    <3>1. PICK ok \in BOOLEAN, type \in EventTypes : Handle(type) /\ Decide(ok)
      BY <1>4, <2>2 DEF CoreStep, AcceptBTDeviceRequestConfirmation, EventTypes,
         RejectBTDeviceRequestConfirmation, HandleBTDeviceRequestConfirmationTimeout
    <3>2. QED BY <1>4, <3>1, FirstIsSentFirst, NumberedCore DEF DecisionInv
  <2>3. QED BY <2>1, <2>2
<1>5. CASE UNCHANGED vars
  BY <1>1, <1>5 DEF vars, DecisionInv, Numbered
<1>6. QED BY <1>2, <1>3, <1>4, <1>5 DEF Next

\* A request that BlueZ has been told about was answered as the core manager decided first,
\* for any devices, answers and timers, late ones included, when the device asked once.
THEOREM FirstCounts == Spec => []FirstDecisionCounts
<1>1. DecisionInv => FirstDecisionCounts
  BY DEF DecisionInv, Once, FirstDecisionCounts
<1>2. TypeOK /\ [Next]_vars => TypeOK'
  BY TypeStep
<1>3. QED BY <1>1, <1>2, TypeInit, DecisionInit, DecisionStep, PTL DEF Spec
=============================================================================
