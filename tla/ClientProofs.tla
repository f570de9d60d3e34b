---------------------------- MODULE ClientProofs ----------------------------
(***************************************************************************)
(* Proofs about what the clients are shown: about WebSocketServer for any  *)
(* number of sessions and changes, and about Temperature for whatever the  *)
(* sensor may measure.                                                     *)
(*                                                                         *)
(* WebSocketServer: its types, one write at a time, and that whoever joins *)
(* is told the state MainWorker has left.  The two locks do the work:      *)
(* queue_mutex_ keeps a session's send and its completion handlers apart,  *)
(* mutex_ keeps a join and a broadcast apart.                              *)
(*                                                                         *)
(* Temperature: the types of all variables, that no notification is lost   *)
(* or handled twice while the core manager lives, and that what a client   *)
(* shows is the last measurement to the nearest degree.                    *)
(***************************************************************************)
EXTENDS WebSocketServer, Temperature, SequenceTheorems, FiniteSetTheorems, TLAPS

USE ThreadsAreDistinct, BoundIsNat DEF ThreadsAreDistinct, BoundIsNat

\* The I/O thread has session s to leave, with queue_mutex_ held.
LeavesLocked(s) == io = "leavingLocked" /\ ioSession = s

QueueMutexOfIo == \A s \in Sessions : queueMutex[s] = Io <=> LeavesLocked(s)

\* A session that is writing has one write posted or in flight, except while it leaves
\* because that write has failed.
WritesMatch ==
  \A s \in Sessions :
    /\ posted[s] + inFlight[s] = (IF writing[s] /\ ~ LeavesLocked(s) THEN 1 ELSE 0)
    /\ posted[s] + inFlight[s] = 1 => messageQueue[s] # <<>>

WriteInv == TypeOK /\ QueueMutexOfIo /\ WritesMatch

\* What the proofs use of the sequences of versions.
LEMMA Sequences ==
  ASSUME NEW q \in Seq(Versions), NEW v \in Versions
  PROVE  /\ Append(q, v) \in Seq(Versions) /\ Append(q, v) # <<>> /\ Last(Append(q, v)) = v
         /\ q # <<>> => /\ Tail(q) \in Seq(Versions) /\ Head(q) \in Versions
                        /\ Tail(q) = <<>> => Head(q) = Last(q)
                        /\ Tail(q) # <<>> => Last(Tail(q)) = Last(q)
BY DEF Last

LEMMA WriteInit == Init => WriteInv
BY EmptySeq DEF Init, WriteInv, TypeOK, QueueMutexOfIo, WritesMatch, LeavesLocked, Versions,
                NoVersion

-----------------------------------------------------------------------------
(* One write at a time                                                     *)

\* A send leaves its session with one write posted or in flight, and what it sends last
\* in the queue.
LEMMA EnqueueKeeps ==
  ASSUME TypeOK, WritesMatch, NEW s \in Sessions, NEW v \in Versions, Enqueue(s, v),
         ~ LeavesLocked(s), UNCHANGED inFlight
  PROVE  /\ messageQueue' \in [Sessions -> Seq(Versions)]
         /\ writing' \in [Sessions -> BOOLEAN] /\ posted' \in [Sessions -> Nat]
         /\ writing'[s] /\ posted'[s] + inFlight'[s] = 1 /\ messageQueue'[s] # <<>>
         /\ Last(messageQueue'[s]) = v
         /\ \A u \in Sessions \ {s} : /\ messageQueue'[u] = messageQueue[u]
                                     /\ writing'[u] = writing[u] /\ posted'[u] = posted[u]
<1>1. /\ messageQueue \in [Sessions -> Seq(Versions)] /\ writing \in [Sessions -> BOOLEAN]
      /\ posted \in [Sessions -> Nat] /\ inFlight \in [Sessions -> Nat]
  BY DEF TypeOK
<1>2. /\ messageQueue' = [messageQueue EXCEPT ![s] = Append(messageQueue[s], v)]
      /\ writing' = [writing EXCEPT ![s] = TRUE]
      /\ posted' = [posted EXCEPT ![s] = IF writing[s] THEN posted[s] ELSE posted[s] + 1]
      /\ inFlight' = inFlight
  BY DEF Enqueue
<1>3. /\ Append(messageQueue[s], v) \in Seq(Versions) /\ Append(messageQueue[s], v) # <<>>
      /\ Last(Append(messageQueue[s], v)) = v
  BY <1>1, Sequences
<1>4. posted'[s] + inFlight'[s] = 1
  BY <1>1, <1>2 DEF WritesMatch
<1>5. QED BY <1>1, <1>2, <1>3, <1>4

\* MainWorker sends under queue_mutex_, which the I/O thread has not.
LEMMA WriteWorker == WriteInv /\ (Broadcast \/ ChangeState) => WriteInv'
<1> SUFFICES ASSUME WriteInv, Broadcast \/ ChangeState
             PROVE  WriteInv'
  OBVIOUS
<1> USE DEF WriteInv, WorkerStep, clientVars, ioVars, sessionVars
<1>1. CASE ChangeState \/ BroadcastLock \/ BroadcastUnlock
  BY <1>1 DEF ChangeState, BroadcastLock, BroadcastUnlock, TypeOK, Versions, QueueMutexOfIo,
              WritesMatch, LeavesLocked
<1>2. ASSUME NEW s \in Sessions, SendLock(s)
      PROVE  WriteInv'
  BY <1>2 DEF SendLock, TypeOK, QueueMutexOfIo, WritesMatch, LeavesLocked
<1>3. ASSUME NEW s \in Sessions, Send(s)
      PROVE  WriteInv'
  <2>1. ~ LeavesLocked(s) /\ stateView \in Versions /\ Enqueue(s, stateView) /\ UNCHANGED inFlight
    BY <1>3 DEF Send, QueueMutexOfIo, TypeOK
  <2>2. /\ messageQueue' \in [Sessions -> Seq(Versions)]
        /\ writing' \in [Sessions -> BOOLEAN] /\ posted' \in [Sessions -> Nat]
        /\ writing'[s] /\ posted'[s] + inFlight'[s] = 1 /\ messageQueue'[s] # <<>>
        /\ \A u \in Sessions \ {s} : /\ messageQueue'[u] = messageQueue[u]
                                    /\ writing'[u] = writing[u] /\ posted'[u] = posted[u]
    BY <2>1, EnqueueKeeps
  <2>3. TypeOK'
    BY <1>3, <2>2 DEF Send, TypeOK
  <2>4. QueueMutexOfIo'
    BY <1>3 DEF Send, TypeOK, QueueMutexOfIo, LeavesLocked
  <2>5. WritesMatch'
    BY <1>3, <2>1, <2>2 DEF Send, WritesMatch, LeavesLocked
  <2>6. QED BY <2>3, <2>4, <2>5
<1>4. QED BY <1>1, <1>2, <1>3 DEF Broadcast

\* The I/O thread runs one handler at a time, so no completion handler of a session
\* runs while that session leaves.
LEMMA WriteIo ==
  WriteInv /\ (IoGoesOn \/ \E s \in Sessions : Accept(s) \/ Disconnect(s)) => WriteInv'
<1> SUFFICES ASSUME WriteInv, IoGoesOn \/ \E s \in Sessions : Accept(s) \/ Disconnect(s)
             PROVE  WriteInv'
  OBVIOUS
<1> USE DEF WriteInv, IoStep, workerVars, clientVars, ioVars, sessionVars
<1>1. CASE JoinInsert \/ JoinReadState \/ Leave
  BY <1>1 DEF JoinInsert, JoinReadState, Leave, TypeOK, QueueMutexOfIo, WritesMatch, LeavesLocked
<1>2. ASSUME NEW s \in Sessions, Accept(s) \/ Disconnect(s) \/ ReadError(s)
      PROVE  WriteInv'
  <2>1. /\ (io # "leavingLocked" /\ io' # "leavingLocked") \/ UNCHANGED <<io, ioSession>>
        /\ UNCHANGED <<queueMutex, messageQueue, writing, posted, inFlight>>
    BY <1>2 DEF Accept, Disconnect, ReadError
  <2>2. TypeOK'
    BY <1>2 DEF Accept, Disconnect, ReadError, TypeOK
  <2>3. QueueMutexOfIo' /\ WritesMatch'
    BY <2>1 DEF QueueMutexOfIo, WritesMatch, LeavesLocked
  <2>4. QED BY <2>2, <2>3
<1>3. CASE JoinSend
  <2> DEFINE s == ioSession
  <2>1. /\ s \in Sessions /\ ~ LeavesLocked(s) /\ ioMessage \in Versions
        /\ Enqueue(s, ioMessage) /\ UNCHANGED inFlight
    BY <1>3 DEF JoinSend, LeavesLocked, TypeOK
  <2>2. /\ messageQueue' \in [Sessions -> Seq(Versions)]
        /\ writing' \in [Sessions -> BOOLEAN] /\ posted' \in [Sessions -> Nat]
        /\ writing'[s] /\ posted'[s] + inFlight'[s] = 1 /\ messageQueue'[s] # <<>>
        /\ \A u \in Sessions \ {s} : /\ messageQueue'[u] = messageQueue[u]
                                    /\ writing'[u] = writing[u] /\ posted'[u] = posted[u]
    BY <2>1, EnqueueKeeps
  <2>3. TypeOK'
    BY <1>3, <2>2 DEF JoinSend, TypeOK
  <2>4. QueueMutexOfIo'
    BY <1>3 DEF JoinSend, TypeOK, QueueMutexOfIo, LeavesLocked
  <2>5. WritesMatch'
    BY <1>3, <2>1, <2>2 DEF JoinSend, WritesMatch, LeavesLocked
  <2>6. QED BY <2>3, <2>4, <2>5
<1>4. ASSUME NEW s \in Sessions, DoWrite(s)
      PROVE  WriteInv'
  BY <1>4 DEF DoWrite, TypeOK, QueueMutexOfIo, WritesMatch, LeavesLocked
<1>5. ASSUME NEW s \in Sessions, WriteSucceeds(s)
      PROVE  WriteInv'
  <2>1. /\ messageQueue[s] # <<>> /\ posted[s] = 0 /\ inFlight[s] = 1 /\ io = "loop" /\ io' = "loop"
        /\ Tail(messageQueue[s]) \in Seq(Versions) /\ Head(messageQueue[s]) \in Versions
    <3>1. messageQueue[s] \in Seq(Versions) /\ posted[s] \in Nat /\ inFlight[s] \in Nat /\ 0 \in Versions
      BY DEF TypeOK, Versions
    <3>2. inFlight[s] > 0 /\ io = "loop" /\ io' = "loop"
      BY <1>5 DEF WriteSucceeds
    <3>3. posted[s] + inFlight[s] = 1 /\ messageQueue[s] # <<>>
      BY <3>1, <3>2 DEF WritesMatch
    <3>4. QED BY <3>1, <3>2, <3>3, Sequences
  <2>2. /\ inFlight' = [inFlight EXCEPT ![s] = 0]
        /\ view' = [view EXCEPT ![s] = Head(messageQueue[s])]
        /\ messageQueue' = [messageQueue EXCEPT ![s] = Tail(messageQueue[s])]
        /\ UNCHANGED queueMutex
    BY <1>5, <2>1 DEF WriteSucceeds
  <2>3. \/ /\ Tail(messageQueue[s]) = <<>>
           /\ writing' = [writing EXCEPT ![s] = FALSE] /\ UNCHANGED posted
        \/ /\ Tail(messageQueue[s]) # <<>> /\ writing[s] /\ UNCHANGED writing
           /\ posted' = [posted EXCEPT ![s] = 1]
    <3>1. writing[s] /\ posted[s] + 1 = 1
      BY <2>1 DEF TypeOK, WritesMatch
    <3>2. QED BY <1>5, <3>1 DEF WriteSucceeds
  <2>4. /\ writing' \in [Sessions -> BOOLEAN] /\ posted' \in [Sessions -> Nat]
        /\ inFlight' \in [Sessions -> Nat] /\ messageQueue' \in [Sessions -> Seq(Versions)]
        /\ view' \in [Sessions -> Versions \cup {NoVersion}]
    BY <2>1, <2>2, <2>3 DEF TypeOK
  <2>5. TypeOK'
    BY <1>5, <2>4 DEF WriteSucceeds, TypeOK
  <2>6. QueueMutexOfIo'
    BY <2>1, <2>2 DEF QueueMutexOfIo, LeavesLocked
  <2>7. WritesMatch'
    BY <2>1, <2>2, <2>3 DEF TypeOK, WritesMatch, LeavesLocked
  <2>8. QED BY <2>5, <2>6, <2>7
<1>6. ASSUME NEW s \in Sessions, WriteError(s)
      PROVE  WriteInv'
  <2>1. /\ messageQueue[s] \in Seq(Versions) /\ messageQueue[s] # <<>> /\ writing[s]
        /\ posted[s] = 0 /\ inFlight[s] = 1 /\ io = "loop" /\ 0 \in Versions
    BY <1>6 DEF WriteError, TypeOK, Versions, WritesMatch, LeavesLocked
  <2>2. Tail(messageQueue[s]) \in Seq(Versions)
    BY <2>1, Sequences
  <2>3. TypeOK'
    BY <1>6, <2>1, <2>2 DEF WriteError, TypeOK
  <2>4. QueueMutexOfIo'
    BY <1>6, <2>1 DEF WriteError, TypeOK, QueueMutexOfIo, LeavesLocked
  <2>5. WritesMatch'
    BY <1>6, <2>1 DEF WriteError, TypeOK, WritesMatch, LeavesLocked
  <2>6. QED BY <2>3, <2>4, <2>5
<1>7. CASE LeaveLocked
  <2>1. TypeOK' /\ QueueMutexOfIo'
    BY <1>7 DEF LeaveLocked, TypeOK, QueueMutexOfIo, LeavesLocked
  <2>2. WritesMatch'
    BY <1>7 DEF LeaveLocked, TypeOK, WritesMatch, LeavesLocked
  <2>3. QED BY <2>1, <2>2
<1>8. QED BY <1>1, <1>2, <1>3, <1>4, <1>5, <1>6, <1>7 DEF IoGoesOn

LEMMA WriteStep == WriteInv /\ [Next]_vars => WriteInv'
<1> SUFFICES ASSUME WriteInv, [Next]_vars
             PROVE  WriteInv'
  OBVIOUS
<1>1. CASE UNCHANGED vars
  BY <1>1 DEF WriteInv, TypeOK, QueueMutexOfIo, WritesMatch, LeavesLocked, vars, sessionVars,
              clientVars, ioVars, workerVars
<1>2. QED BY <1>1, WriteWorker, WriteIo DEF Next

LEMMA WriteInvariance == Spec => []WriteInv
BY WriteInit, WriteStep, PTL DEF Spec

\* The server's variables keep their types, and a thread that holds mutex_ is where it
\* locks it.
THEOREM TypeCorrect == Spec => []TypeOK
<1>1. WriteInv => TypeOK
  BY DEF WriteInv
<1>2. QED BY <1>1, WriteInvariance, PTL

\* However many clients come and go during however many broadcasts, no stream has two
\* writes, and doWrite finds a message.
THEOREM WritesDoNotOverlap == Spec => []OneWriteAtATime
<1>1. WriteInv => OneWriteAtATime
  <2> SUFFICES ASSUME WriteInv, NEW s \in Sessions
               PROVE  /\ posted[s] + inFlight[s] <= 1
                      /\ posted[s] + inFlight[s] = 1 => messageQueue[s] # <<>> /\ writing[s]
    BY DEF OneWriteAtATime
  <2>1. posted[s] + inFlight[s] \in {0, 1}
    BY DEF WriteInv, WritesMatch
  <2>2. posted[s] + inFlight[s] = 1 => messageQueue[s] # <<>> /\ writing[s]
    BY DEF WriteInv, WritesMatch
  <2>3. QED BY <2>1, <2>2
<1>2. QED BY <1>1, WriteInvariance, PTL

-----------------------------------------------------------------------------
(* The latest a client is told                                             *)

\* Session s is in the set, and its client has not been greeted.
Joins(s) == io \in {"initialising", "greeting"} /\ ioSession = s

\* Between a change and its broadcast anybody may have been told the old state; during
\* the broadcast only those who are still to be sent to, or join.
ToldInv ==
  /\ \A s \in sessions : alive[s] # "new"
  /\ io = "joining" => alive[ioSession] # "new"
  /\ io = "greeting" => worker = "locking" \/ ioMessage = stateView
  /\ worker = "idle" => todo = {}
  /\ worker # "locking" =>
       \A s \in sessions \ todo : alive[s] = "connected" /\ ~ Joins(s) => Told(s) = stateView

LEMMA ToldInit == Init => ToldInv
BY DEF Init, ToldInv

\* Only a send changes what a client was told last.
LEMMA ToldBySend ==
  ASSUME WriteInv, NEW s \in Sessions, NEW v \in Versions, Enqueue(s, v), ~ LeavesLocked(s),
         UNCHANGED <<inFlight, view>>
  PROVE  Told(s)' = v /\ \A u \in Sessions \ {s} : Told(u)' = Told(u)
<1>1. /\ messageQueue'[s] # <<>> /\ Last(messageQueue'[s]) = v
      /\ \A u \in Sessions \ {s} : messageQueue'[u] = messageQueue[u]
  BY EnqueueKeeps DEF WriteInv
<1>2. QED BY <1>1 DEF Told

\* The message a completed write takes from the queue is what the client has been told.
LEMMA ToldByWrite ==
  ASSUME WriteInv, NEW s \in Sessions, WriteSucceeds(s)
  PROVE  \A u \in Sessions : Told(u)' = Told(u)
<1>1. /\ messageQueue \in [Sessions -> Seq(Versions)] /\ view \in [Sessions -> Versions \cup {NoVersion}]
      /\ messageQueue[s] # <<>> /\ 0 \in Versions
  BY DEF WriteSucceeds, IoStep, WriteInv, TypeOK, Versions, WritesMatch, LeavesLocked
<1>2. /\ Tail(messageQueue[s]) = <<>> => Head(messageQueue[s]) = Last(messageQueue[s])
      /\ Tail(messageQueue[s]) # <<>> => Last(Tail(messageQueue[s])) = Last(messageQueue[s])
  BY <1>1, Sequences
<1>3. /\ messageQueue' = [messageQueue EXCEPT ![s] = Tail(messageQueue[s])]
      /\ view' = [view EXCEPT ![s] = Head(messageQueue[s])]
  BY DEF WriteSucceeds
<1>4. Told(s)' = Told(s)
  BY <1>1, <1>2, <1>3 DEF Told
<1>5. \A u \in Sessions \ {s} : Told(u)' = Told(u)
  BY <1>1, <1>3 DEF Told
<1>6. QED BY <1>4, <1>5

LEMMA ToldWorker == WriteInv /\ ToldInv /\ (Broadcast \/ ChangeState) => ToldInv'
<1> SUFFICES ASSUME WriteInv, ToldInv, Broadcast \/ ChangeState
             PROVE  ToldInv'
  OBVIOUS
<1> USE DEF WorkerStep, clientVars, ioVars, sessionVars
<1>1. CASE ChangeState
  <2>1. todo' = {} /\ worker' = "locking"
    BY <1>1 DEF ChangeState, ToldInv
  <2>2. QED BY <1>1, <2>1 DEF ChangeState, ToldInv
<1>2. CASE BroadcastLock
  <2>1. io # "greeting"
    BY <1>2 DEF BroadcastLock, WriteInv, TypeOK
  <2>2. QED BY <1>2, <2>1 DEF BroadcastLock, ToldInv
<1>3. CASE BroadcastUnlock
  BY <1>3 DEF BroadcastUnlock, ToldInv, Joins, Told
<1>4. ASSUME NEW s \in Sessions, SendLock(s)
      PROVE  ToldInv'
  BY <1>4 DEF SendLock, ToldInv, Joins, Told
<1>5. ASSUME NEW s \in Sessions, Send(s)
      PROVE  ToldInv'
  <2>1. /\ ~ LeavesLocked(s) /\ stateView \in Versions /\ Enqueue(s, stateView)
        /\ UNCHANGED <<inFlight, view>> /\ sessions \subseteq Sessions
    BY <1>5 DEF Send, WriteInv, QueueMutexOfIo, TypeOK
  <2>2. Told(s)' = stateView /\ \A u \in Sessions \ {s} : Told(u)' = Told(u)
    BY <2>1, ToldBySend
  <2>3. QED BY <1>5, <2>1, <2>2 DEF Send, ToldInv, Joins
<1>6. QED BY <1>1, <1>2, <1>3, <1>4, <1>5 DEF Broadcast

LEMMA ToldIo ==
  WriteInv /\ ToldInv /\ (IoGoesOn \/ \E s \in Sessions : Accept(s) \/ Disconnect(s)) => ToldInv'
<1> SUFFICES ASSUME WriteInv, ToldInv,
                    IoGoesOn \/ \E s \in Sessions : Accept(s) \/ Disconnect(s)
             PROVE  ToldInv'
  OBVIOUS
<1> USE DEF IoStep, workerVars, clientVars, ioVars, sessionVars
<1>1. CASE JoinInsert
  BY <1>1 DEF JoinInsert, ToldInv, Joins, Told
<1>2. CASE JoinReadState
  BY <1>2 DEF JoinReadState, ToldInv, Joins, Told
<1>3. ASSUME NEW s \in Sessions, s = ioSession, JoinSend
      PROVE  ToldInv'
  <2>1. /\ s \in Sessions /\ ~ LeavesLocked(s) /\ ioMessage \in Versions /\ sessions \subseteq Sessions
        /\ Enqueue(s, ioMessage) /\ UNCHANGED <<inFlight, view>>
    BY <1>3 DEF JoinSend, LeavesLocked, WriteInv, TypeOK
  <2>2. Told(s)' = ioMessage /\ \A u \in Sessions \ {s} : Told(u)' = Told(u)
    BY <2>1, ToldBySend
  <2>3. worker = "locking" \/ ioMessage = stateView
    BY <1>3 DEF JoinSend, ToldInv
  <2>4. QED BY <1>3, <2>1, <2>2, <2>3 DEF JoinSend, ToldInv, Joins
<1>4. ASSUME NEW s \in Sessions, Accept(s)
      PROVE  ToldInv'
  <2>1. s \notin sessions
    BY <1>4 DEF Accept, ToldInv
  <2>2. /\ io' = "joining" /\ ioSession' = s /\ alive'[s] = "connected"
        /\ io = "loop" /\ \A u \in sessions : alive'[u] = alive[u]
    BY <1>4, <2>1 DEF Accept, WriteInv, TypeOK
  <2>3. UNCHANGED <<stateView, sessions, messageQueue, view, worker, todo>>
    BY <1>4 DEF Accept
  <2>4. QED BY <2>2, <2>3 DEF ToldInv, Joins, Told
<1>5. ASSUME NEW s \in Sessions, Disconnect(s)
      PROVE  ToldInv'
  <2>1. \A u \in Sessions : alive'[u] = alive[u] \/ alive'[u] = "gone"
    BY <1>5 DEF Disconnect, WriteInv, TypeOK
  <2>2. sessions \subseteq Sessions /\ ioSession \in Sessions
    BY DEF WriteInv, TypeOK
  <2>3. QED BY <1>5, <2>1, <2>2 DEF Disconnect, ToldInv, Joins, Told
<1>6. ASSUME NEW s \in Sessions, ReadError(s)
      PROVE  ToldInv'
  BY <1>6 DEF ReadError, ToldInv, Joins, Told
<1>7. CASE Leave \/ LeaveLocked
  BY <1>7 DEF Leave, LeaveLocked, ToldInv, Joins, Told
<1>8. ASSUME NEW s \in Sessions, DoWrite(s)
      PROVE  ToldInv'
  BY <1>8 DEF DoWrite, ToldInv, Joins, Told
<1>9. ASSUME NEW s \in Sessions, WriteSucceeds(s)
      PROVE  ToldInv'
  <2>1. sessions \subseteq Sessions /\ \A u \in Sessions : Told(u)' = Told(u)
    BY <1>9, ToldByWrite DEF WriteInv, TypeOK
  <2>2. QED BY <1>9, <2>1 DEF WriteSucceeds, ToldInv, Joins
<1>10. ASSUME NEW s \in Sessions, WriteError(s)
       PROVE  ToldInv'
  <2>1. /\ alive[s] = "gone" /\ io = "loop" /\ io' = "leavingLocked"
        /\ \A u \in Sessions \ {s} : messageQueue'[u] = messageQueue[u]
        /\ UNCHANGED <<stateView, sessions, alive, view, worker, todo>>
    BY <1>10 DEF WriteError, WriteInv, TypeOK
  <2>2. QED BY <2>1 DEF WriteInv, TypeOK, ToldInv, Joins, Told
<1>11. ioSession \in Sessions
  BY DEF WriteInv, TypeOK
<1>12. QED
  BY <1>11, <1>1, <1>2, <1>3, <1>4, <1>5, <1>6, <1>7, <1>8, <1>9, <1>10 DEF IoGoesOn

LEMMA ToldStep == WriteInv /\ ToldInv /\ [Next]_vars => ToldInv'
<1> SUFFICES ASSUME WriteInv, ToldInv, [Next]_vars
             PROVE  ToldInv'
  OBVIOUS
<1>1. CASE UNCHANGED vars
  BY <1>1 DEF ToldInv, Joins, Told, vars, sessionVars, clientVars, ioVars, workerVars
<1>2. QED BY <1>1, ToldWorker, ToldIo DEF Next

\* However joins, departures and broadcasts interleave, between two changes every client
\* has been sent the present state after any older one.
THEOREM NobodyKeepsOldState == Spec => []LatestToldIsState
<1>1. ToldInv => LatestToldIsState
  BY DEF ToldInv, LatestToldIsState, Joins
<1>2. QED BY <1>1, ToldInit, ToldStep, WriteInvariance, PTL DEF Spec

-----------------------------------------------------------------------------
(* Temperature                                                             *)

USE ConstantsAreNumbers DEF ConstantsAreNumbers

\* The cast after adding half a degree is the nearest degree, for any reading that
\* is no colder than half a degree of frost.
LEMMA NearestIsCut ==
  ASSUME NEW t \in Int, t >= -500
  PROVE  Degrees(t) \in Int /\ 1000 * Degrees(t) - t \in -500 .. 500
<1>1. Degrees(t) = (t + 500) \div 1000
  BY DEF Degrees, Cut
<1>2. QED BY <1>1

LEMMA DegreesType ==
  ASSUME NEW t \in Int
  PROVE  Degrees(t) \in Int
BY DEF Degrees, Cut

-----------------------------------------------------------------------------
(* The types.  Nothing here looks into a message, so the types of the       *)
(* queues and of the other variables are kept step by step.                 *)

Types ==
  /\ sensor \in Readings /\ readable \in BOOLEAN
  /\ sensorFile \in BOOLEAN /\ temperature \in Readings \cup {0}
  /\ socket \in Seq(Messages) /\ incoming \in Seq(Messages) /\ events \in Seq(Messages)
  /\ receiver \in {"poll", "awake", "popping"}
  /\ joined \in BOOLEAN
  /\ changes \in 0 .. MaxSensorChanges /\ others \in 0 .. MaxOthers
  /\ sends \in 0 .. MaxSends /\ joins \in 0 .. MaxJoins /\ crashes \in 0 .. MaxCrashes
  /\ handled \in Nat /\ last \in Readings \cup {0} /\ failed \in BOOLEAN

\* A counter below its bound may be counted up.
LEMMA CountedUp ==
  \A m \in Nat : \A n \in 0 .. m : \A k \in {n, n + 1} : (k = n \/ n < m) => k \in 0 .. m
OBVIOUS

LEMMA MessagesTyped ==
  /\ Other \in Messages
  /\ \A ok \in BOOLEAN, t \in Readings \cup {0} : Update(ok, t) \in Messages
BY DEF Other, Update, Messages

LEMMA TypesInit == TemperatureInit => Types
<1> SUFFICES ASSUME TemperatureInit
             PROVE  Types
  OBVIOUS
<1>1. socket = <<>> /\ incoming = <<>> /\ events = <<>> /\ <<>> \in Seq(Messages)
  BY EmptySeq DEF TemperatureInit
<1>2. /\ sensor \in Readings /\ temperature \in Readings \cup {0} /\ last \in Readings \cup {0}
      /\ receiver \in {"poll", "awake", "popping"}
  BY DEF TemperatureInit
<1>3. /\ changes \in 0 .. MaxSensorChanges /\ others \in 0 .. MaxOthers
      /\ sends \in 0 .. MaxSends /\ joins \in 0 .. MaxJoins /\ crashes \in 0 .. MaxCrashes
      /\ handled \in Nat
  BY DEF TemperatureInit
<1>4. readable \in BOOLEAN /\ sensorFile \in BOOLEAN /\ joined \in BOOLEAN /\ failed \in BOOLEAN
  BY Zenon DEF TemperatureInit
<1>5. QED BY <1>1, <1>2, <1>3, <1>4, Zenon DEF Types

\* What one more message at the end, one taken from the front, and reading the socket do
\* to the type of a queue.
LEMMA QueueTypes ==
  /\ <<>> \in Seq(Messages)
  /\ \A s \in Seq(Messages), m \in Messages : Append(s, m) \in Seq(Messages)
  /\ \A s, t \in Seq(Messages) : s \o t \in Seq(Messages)
  /\ \A s \in Seq(Messages) : s # <<>> => Head(s) \in Messages /\ Tail(s) \in Seq(Messages)
<1>1. \A s, t \in Seq(Messages) : s \o t \in Seq(Messages)
  BY ConcatProperties
<1>2. QED BY <1>1, EmptySeq, HeadTailProperties

LEMMA TypesHardware ==
  Types /\ (Measure \/ Notify \/ SensorChanges \/ RestartHardware) => Types'
<1> SUFFICES ASSUME Types, Measure \/ Notify \/ SensorChanges \/ RestartHardware
             PROVE  Types'
  OBVIOUS
<1> USE DEF environment, monitor, connection, core, count, history, Arrive, Crash
<1>1. /\ UNCHANGED <<incoming, events, receiver, joined, sends, joins, last, failed>>
      /\ handled' = handled
  BY DEF Measure, Notify, SensorChanges, RestartHardware
<1>2. /\ sensor' \in Readings /\ temperature' \in Readings \cup {0}
  BY DEF Types, Measure, Notify, SensorChanges, RestartHardware
<1>3. sensorFile' \in BOOLEAN /\ readable' \in BOOLEAN
  BY Zenon DEF Types, Measure, Notify, SensorChanges, RestartHardware
<1>4. socket' \in Seq(Messages)
  <2>1. CASE Measure
    <3>1. PICK ok \in BOOLEAN : socket' = Append(socket, Update(ok, temperature'))
      BY <2>1, Zenon DEF Measure, Types
    <3>2. QED BY <1>2, <3>1, MessagesTyped, QueueTypes DEF Types
  <2>2. CASE Notify
    BY <2>2, MessagesTyped, QueueTypes DEF Notify, Types
  <2>3. CASE SensorChanges \/ RestartHardware
    BY <2>3 DEF SensorChanges, RestartHardware, Types
  <2>4. QED BY <2>1, <2>2, <2>3
<1>5. changes' \in 0 .. MaxSensorChanges /\ others' \in 0 .. MaxOthers /\ crashes' \in 0 .. MaxCrashes
  <2>1. /\ changes' \in {changes, changes + 1} /\ (changes' = changes \/ changes < MaxSensorChanges)
        /\ others' \in {others, others + 1} /\ (others' = others \/ others < MaxOthers)
        /\ crashes' \in {crashes, crashes + 1} /\ (crashes' = crashes \/ crashes < MaxCrashes)
    BY DEF Measure, Notify, SensorChanges, RestartHardware
  <2>2. QED BY <2>1, CountedUp, Zenon DEF Types
<1>6. QED BY <1>1, <1>2, <1>3, <1>4, <1>5, Zenon DEF Types

LEMMA TypesReceiver == Types /\ (DBusReceiver \/ Flush) => Types'
<1> SUFFICES ASSUME Types, DBusReceiver \/ Flush
             PROVE  Types'
  OBVIOUS
<1> USE DEF environment, monitor, connection, core, count, history, ReceiverStep
<1>1. UNCHANGED <<sensor, readable, sensorFile, temperature, joined, changes, others, joins, crashes,
                  handled, last, failed>>
  BY DEF DBusReceiver, Poll, ReadWrite, PopMessage, AllPopped, Flush
<1>2. receiver' \in {"poll", "awake", "popping"} /\ sends' \in 0 .. MaxSends
  <2>1. /\ receiver' \in {receiver, "poll", "awake", "popping"}
        /\ sends' \in {sends, sends + 1} /\ (sends' = sends \/ sends < MaxSends)
    BY DEF DBusReceiver, Poll, ReadWrite, PopMessage, AllPopped, Flush
  <2>2. QED BY <2>1 DEF Types
<1>3. socket' \in Seq(Messages) /\ incoming' \in Seq(Messages) /\ events' \in Seq(Messages)
  BY QueueTypes DEF Types, DBusReceiver, Poll, ReadWrite, PopMessage, AllPopped, Flush
<1>4. QED BY <1>1, <1>2, <1>3, Zenon DEF Types

LEMMA TypesCore == Types /\ (HandlerStep \/ Join \/ RestartCore) => Types'
<1> SUFFICES ASSUME Types, HandlerStep \/ Join \/ RestartCore
             PROVE  Types'
  OBVIOUS
<1> USE DEF environment, monitor, connection, core, count, history, Handle, Crash, HandlerStep,
            UpdateFails, UpdateTemperatureNOTI, NoUpdate, HandleOther, Join, RestartCore
<1>1. UNCHANGED <<sensor, readable, sensorFile, temperature, changes, others, sends>>
  OBVIOUS
<1>2. receiver' \in {"poll", "awake", "popping"}
  BY DEF Types
<1>3. socket' \in Seq(Messages) /\ incoming' \in Seq(Messages) /\ events' \in Seq(Messages)
  BY QueueTypes DEF Types
<1>4. joins' \in 0 .. MaxJoins /\ crashes' \in 0 .. MaxCrashes /\ handled' \in Nat
  <2>1. /\ joins' \in {joins, joins + 1} /\ (joins' = joins \/ joins < MaxJoins)
        /\ crashes' \in {crashes, crashes + 1} /\ (crashes' = crashes \/ crashes < MaxCrashes)
        /\ handled' \in {handled, handled + 1, others}
    OBVIOUS
  <2>2. \A n \in Nat : n + 1 \in Nat
    OBVIOUS
  <2>3. others \in Nat
    BY DEF Types
  <2>4. handled' \in Nat
    BY <2>1, <2>2, <2>3, Zenon DEF Types
  <2>5. QED BY <2>1, <2>4, CountedUp, Zenon DEF Types
<1>5. joined' \in BOOLEAN /\ failed' \in BOOLEAN
  BY Zenon DEF Types
<1>6. last' \in Readings \cup {0}
  <2>1. CASE HandlerStep
    <3>1. Head(events) \in Messages /\ (last' = last \/ last' = Head(events).value)
      BY <2>1, QueueTypes DEF Types
    <3>2. Head(events).value \in Readings \cup {0}
      BY <3>1 DEF Messages, Other
    <3>3. QED BY <3>1, <3>2 DEF Types
  <2>2. CASE Join \/ RestartCore
    BY <2>2 DEF Types
  <2>3. QED BY <2>1, <2>2
<1>7. QED BY <1>1, <1>2, <1>3, <1>4, <1>5, <1>6, Zenon DEF Types

LEMMA TypesStep == Types /\ [TemperatureNext]_temperatureVars => Types'
<1> SUFFICES ASSUME Types, [TemperatureNext]_temperatureVars
             PROVE  Types'
  OBVIOUS
<1>1. CASE UNCHANGED temperatureVars
  BY <1>1, Zenon DEF temperatureVars, environment, monitor, connection, core, count, history, Types
<1>2. QED BY <1>1, TypesHardware, TypesReceiver, TypesCore DEF TemperatureNext

-----------------------------------------------------------------------------
(* What clients see                                                         *)
(*                                                                          *)
(* NearestDegree is not inductive: an equal measurement is not broadcast    *)
(* and a client that joins is told CURRENT_TEMPERATURE.  So the invariant   *)
(* says that CURRENT_TEMPERATURE is the degrees of the last measurement,    *)
(* and that a client shows CURRENT_TEMPERATURE, or 0 if it saw a failure.   *)

CurrentIsLast == current = Degrees(last)

ClientIsCurrent == /\ joined /\ ~ failed => shown = current
                   /\ ~ joined => shown = 0
                   /\ shown \in {0, current}

Inv == Types /\ CurrentIsLast /\ ClientIsCurrent

LEMMA InvInit == TemperatureInit => Inv
<1>1. Degrees(0) = 0
  BY DEF Degrees, Cut
<1>2. QED BY <1>1, TypesInit DEF TemperatureInit, Inv, CurrentIsLast, ClientIsCurrent

\* The hardware manager and the bus do not touch what clients see.
LEMMA OnlyCoreShows ==
  \/ Measure \/ Notify \/ SensorChanges \/ DBusReceiver \/ Flush \/ RestartHardware
  \/ UNCHANGED temperatureVars
  => UNCHANGED <<current, joined, shown, last, failed>>
BY DEF Measure, Arrive, Notify, SensorChanges, DBusReceiver, Poll, ReadWrite, PopMessage, AllPopped,
       ReceiverStep, Flush, RestartHardware, temperatureVars, core, history

LEMMA InvStep == Inv /\ [TemperatureNext]_temperatureVars => Inv'
<1> SUFFICES ASSUME Inv, [TemperatureNext]_temperatureVars
             PROVE  Inv'
  OBVIOUS
<1> USE DEF Handle, Inv, CurrentIsLast, ClientIsCurrent
<1>1. Types'
  BY TypesStep
<1>2. CASE UpdateFails
  BY <1>1, <1>2 DEF UpdateFails, BroadcastTemperature, Types
<1>3. CASE UpdateTemperatureNOTI
  BY <1>1, <1>3 DEF UpdateTemperatureNOTI, BroadcastTemperature, Types
<1>4. CASE NoUpdate
  BY <1>1, <1>4 DEF NoUpdate, Types
<1>5. CASE HandleOther
  BY <1>1, <1>5 DEF HandleOther, Types
<1>6. CASE Join
  BY <1>1, <1>6 DEF Join
<1>7. CASE RestartCore
  <2>1. Degrees(0) = 0
    BY DEF Degrees, Cut
  <2>2. QED BY <1>1, <1>7, <2>1 DEF RestartCore
<1>8. CASE UNCHANGED <<current, joined, shown, last, failed>>
  BY <1>1, <1>8
<1>9. QED BY <1>2, <1>3, <1>4, <1>5, <1>6, <1>7, <1>8, OnlyCoreShows DEF TemperatureNext, HandlerStep

\* A client that saw no failure shows what was measured last, although equal
\* measurements are not broadcast and it may have joined in between.
THEOREM Nearest == TemperatureSpec => []NearestDegree
<1>1. Inv => NearestDegree
  <2> SUFFICES ASSUME Inv, joined, ~ failed, last >= -500
               PROVE  1000 * shown - last \in -500 .. 500
    BY DEF NearestDegree
  <2>1. shown = Degrees(last) /\ last \in Int
    BY DEF Inv, Types, CurrentIsLast, ClientIsCurrent
  <2>2. 1000 * Degrees(last) - last \in -500 .. 500
    BY <2>1, NearestIsCut, SMTT(30)
  <2>3. QED BY <2>1, <2>2
<1>2. QED BY <1>1, InvInit, InvStep, PTL DEF TemperatureSpec

-----------------------------------------------------------------------------
(* The notifications on their way, oldest first                            *)

Pending == events \o (incoming \o socket)

\* Where the other notifications are among them, and how many there are.
OtherAt(s) == {i \in 1 .. Len(s) : s[i].kind = "other"}
Count(s)   == Cardinality(OtherAt(s))

\* One, if m is such a notification.
One(m) == IF m.kind = "other" THEN 1 ELSE 0

LEMMA CountType ==
  ASSUME NEW s \in Seq(Messages)
  PROVE  IsFiniteSet(OtherAt(s)) /\ Count(s) \in Nat
<1>1. Len(s) \in Int /\ 1 \in Int
  OBVIOUS
<1>2. IsFiniteSet(1 .. Len(s))
  BY <1>1, FS_Interval
<1>3. OtherAt(s) \in SUBSET (1 .. Len(s))
  BY DEF OtherAt
<1>4. IsFiniteSet(OtherAt(s))
  BY <1>2, <1>3, FS_Subset
<1>5. QED BY <1>4, FS_CardinalityType DEF Count

LEMMA CountAppend ==
  ASSUME NEW s \in Seq(Messages), NEW m \in Messages
  PROVE  Count(Append(s, m)) = Count(s) + One(m)
<1> DEFINE t == Append(s, m)
<1>1. /\ Len(s) \in Nat /\ Len(t) = Len(s) + 1 /\ t[Len(s) + 1] = m
      /\ \A i \in 1 .. Len(s) : t[i] = s[i]
  OBVIOUS
<1>2. IsFiniteSet(OtherAt(s)) /\ Count(s) \in Nat
  BY CountType
<1> HIDE DEF t
<1>3. Len(s) + 1 \notin OtherAt(s)
  BY <1>1 DEF OtherAt
<1>4. CASE m.kind = "other"
  <2>1. OtherAt(t) = OtherAt(s) \cup {Len(s) + 1}
    BY <1>1, <1>4 DEF OtherAt
  <2>2. Cardinality(OtherAt(s) \cup {Len(s) + 1}) = Cardinality(OtherAt(s)) + 1
    BY <1>2, <1>3, FS_AddElement
  <2>3. QED BY <1>4, <2>1, <2>2 DEF Count, One, t
<1>5. CASE m.kind # "other"
  <2>1. OtherAt(t) = OtherAt(s)
    BY <1>1, <1>5 DEF OtherAt
  <2>2. QED BY <1>2, <1>5, <2>1 DEF Count, One, t
<1>6. QED BY <1>4, <1>5

\* The others move up by one place.
LEMMA CountTail ==
  ASSUME NEW s \in Seq(Messages), s # <<>>
  PROVE  Count(s) = Count(Tail(s)) + One(Head(s))
<1> DEFINE t == Tail(s)
           f == [i \in OtherAt(t) |-> i + 1]
<1>1. /\ t \in Seq(Messages) /\ Len(s) \in Nat \ {0} /\ Len(t) = Len(s) - 1 /\ Head(s) = s[1]
      /\ \A i \in 1 .. Len(t) : t[i] = s[i + 1]
  OBVIOUS
<1>2. /\ IsFiniteSet(OtherAt(s)) /\ Count(s) \in Nat
      /\ IsFiniteSet(OtherAt(t)) /\ Count(t) \in Nat
  BY <1>1, CountType
<1> HIDE DEF t
<1>3. f \in Bijection(OtherAt(t), OtherAt(s) \ {1})
  <2>1. \A i \in OtherAt(t) : i \in Int /\ i + 1 \in OtherAt(s) \ {1}
    BY <1>1 DEF OtherAt
  <2>2. \A j \in OtherAt(s) \ {1} : j - 1 \in OtherAt(t) /\ j = (j - 1) + 1
    BY <1>1, SMTT(30) DEF OtherAt
  <2>3. f \in Injection(OtherAt(t), OtherAt(s) \ {1})
    BY <2>1 DEF Injection, IsInjective
  <2>4. f \in Surjection(OtherAt(t), OtherAt(s) \ {1})
    BY <2>1, <2>2 DEF Surjection
  <2>5. QED BY <2>3, <2>4 DEF Bijection
<1>4. Cardinality(OtherAt(s) \ {1}) = Cardinality(OtherAt(t))
  BY <1>2, <1>3, FS_Bijection DEF ExistsBijection
<1>5. Cardinality(OtherAt(s) \ {1}) = IF 1 \in OtherAt(s) THEN Count(s) - 1 ELSE Count(s)
  BY <1>2, FS_RemoveElement DEF Count
<1>6. 1 \in OtherAt(s) <=> Head(s).kind = "other"
  BY <1>1 DEF OtherAt
<1>7. QED BY <1>2, <1>4, <1>5, <1>6 DEF Count, One, t

-----------------------------------------------------------------------------
(* Reading the socket and pushing an event change nothing of Pending, a    *)
(* notification that arrives is its last element, and the one that is      *)
(* handled was its first.                                                  *)

LEMMA PendingRead ==
  ASSUME NEW i \in Seq(Messages), NEW s \in Seq(Messages)
  PROVE  (i \o s) \o <<>> = i \o s
BY ConcatProperties, ConcatEmptySeq

LEMMA PendingArrives ==
  ASSUME NEW e \in Seq(Messages), NEW i \in Seq(Messages), NEW s \in Seq(Messages),
         NEW m \in Messages
  PROVE  e \o (i \o Append(s, m)) = Append(e \o (i \o s), m)
<1>1. <<m>> \in Seq(Messages) /\ \A q \in Seq(Messages) : Append(q, m) = q \o <<m>>
  OBVIOUS
<1>2. i \o s \in Seq(Messages) /\ e \o (i \o s) \in Seq(Messages)
  BY ConcatProperties
<1>3. i \o Append(s, m) = (i \o s) \o <<m>>
  BY <1>1, ConcatAssociative, SMTT(30)
<1>4. e \o ((i \o s) \o <<m>>) = (e \o (i \o s)) \o <<m>>
  BY <1>1, <1>2, ConcatAssociative, SMTT(30)
<1>5. QED BY <1>1, <1>2, <1>3, <1>4

LEMMA Associative ==
  \A a, b, c \in Seq(Messages) : (a \o b) \o c = a \o (b \o c)
<1> SUFFICES ASSUME NEW a \in Seq(Messages), NEW b \in Seq(Messages), NEW c \in Seq(Messages)
             PROVE  (a \o b) \o c = a \o (b \o c)
  OBVIOUS
<1> HIDE ConstantsAreNumbers
<1> QED BY ConcatAssociative

LEMMA PendingPopped ==
  ASSUME NEW e \in Seq(Messages), NEW i \in Seq(Messages), NEW s \in Seq(Messages), i # <<>>
  PROVE  Append(e, Head(i)) \o (Tail(i) \o s) = e \o (i \o s)
<1> DEFINE h == <<Head(i)>>
           t == Tail(i)
<1>1. h \in Seq(Messages) /\ t \in Seq(Messages) /\ i = h \o t /\ Append(e, Head(i)) = e \o h
  OBVIOUS
<1> HIDE DEF h, t
<1>2. t \o s \in Seq(Messages)
  BY <1>1, ConcatProperties
<1>3. (e \o h) \o (t \o s) = e \o (h \o (t \o s))
  BY <1>1, <1>2, Associative, ZenonT(30)
<1>4. (h \o t) \o s = h \o (t \o s)
  BY <1>1, Associative, ZenonT(30)
<1>5. QED BY <1>1, <1>3, <1>4, Zenon DEF t

LEMMA PendingHandled ==
  ASSUME NEW e \in Seq(Messages), NEW p \in Seq(Messages), e # <<>>
  PROVE  e \o p # <<>> /\ Head(e \o p) = Head(e) /\ Tail(e) \o p = Tail(e \o p)
<1>1. /\ e \o p \in Seq(Messages) /\ Len(e \o p) = Len(e) + Len(p)
      /\ \A k \in 1 .. Len(e) + Len(p) : (e \o p)[k] = IF k <= Len(e) THEN e[k] ELSE p[k - Len(e)]
  BY ConcatProperties
<1>2. Len(e) \in Nat \ {0} /\ Len(p) \in Nat
  OBVIOUS
<1>3. e \o p # <<>> /\ Head(e \o p) = Head(e)
  BY <1>1, <1>2
<1>4. /\ Tail(e) \in Seq(Messages) /\ Len(Tail(e)) = Len(e) - 1
      /\ \A k \in 1 .. Len(Tail(e)) : Tail(e)[k] = e[k + 1]
  BY HeadTailProperties
<1>5. /\ Tail(e \o p) \in Seq(Messages) /\ Len(Tail(e \o p)) = Len(e \o p) - 1
      /\ \A k \in 1 .. Len(Tail(e \o p)) : Tail(e \o p)[k] = (e \o p)[k + 1]
  BY <1>1, <1>3, HeadTailProperties
<1> DEFINE q == Tail(e)
<1>6. /\ q \o p \in Seq(Messages) /\ Len(q \o p) = Len(q) + Len(p)
      /\ \A k \in 1 .. Len(q) + Len(p) : (q \o p)[k] = IF k <= Len(q) THEN q[k] ELSE p[k - Len(q)]
  BY <1>4, ConcatProperties
<1>7. Len(q \o p) = Len(Tail(e \o p))
  BY <1>1, <1>2, <1>4, <1>5, <1>6
<1>8. ASSUME NEW k \in 1 .. Len(q \o p)
      PROVE  (q \o p)[k] = Tail(e \o p)[k]
  <2>1. /\ k \in Nat /\ k + 1 \in 1 .. Len(e) + Len(p) /\ k \in 1 .. Len(q) + Len(p)
        /\ Tail(e \o p)[k] = (e \o p)[k + 1]
    BY <1>1, <1>2, <1>4, <1>5, <1>6, <1>7
  <2>2. CASE k + 1 <= Len(e)
    BY <1>1, <1>2, <1>4, <1>6, <2>1, <2>2
  <2>3. CASE k + 1 > Len(e)
    <3>1. (e \o p)[k + 1] = p[k + 1 - Len(e)] /\ (q \o p)[k] = p[k - Len(q)]
      BY <1>1, <1>2, <1>4, <1>6, <2>1, <2>3
    <3>2. k + 1 - Len(e) = k - Len(q)
      BY <1>2, <1>4, <2>1
    <3>3. QED BY <2>1, <3>1, <3>2
  <2>4. QED BY <1>2, <2>1, <2>2, <2>3
<1>9. q \o p = Tail(e \o p)
  BY <1>5, <1>6, <1>7, <1>8, SeqEqual
<1>10. QED BY <1>3, <1>9

-----------------------------------------------------------------------------
(* No notification is lost or handled twice                                *)

Conserved == others = handled + Count(Pending)

LEMMA ConservedInit == TemperatureInit => Conserved
<1> SUFFICES ASSUME TemperatureInit
             PROVE  Conserved
  OBVIOUS
<1>1. Pending = <<>> /\ others = 0 /\ handled = 0
  BY ConcatEmptySeq, EmptySeq DEF TemperatureInit, Pending
<1>2. Count(<<>>) = 0
  <2>1. OtherAt(<<>>) = {}
    BY DEF OtherAt
  <2>2. QED BY <2>1, FS_EmptySet DEF Count
<1>3. QED BY <1>1, <1>2 DEF Conserved

LEMMA ConservedStep == Types /\ Conserved /\ [TemperatureNext]_temperatureVars => Conserved'
<1> SUFFICES ASSUME Types, Conserved, [TemperatureNext]_temperatureVars
             PROVE  Conserved'
  OBVIOUS
<1>1. /\ socket \in Seq(Messages) /\ incoming \in Seq(Messages) /\ events \in Seq(Messages)
      /\ others \in Nat /\ handled \in Nat
  BY DEF Types
<1>2. incoming \o socket \in Seq(Messages) /\ Pending \in Seq(Messages)
  BY <1>1, ConcatProperties DEF Pending
<1>3. Count(Pending) \in Nat
  BY <1>2, CountType
<1> USE DEF environment, monitor, connection, core, count, history
<1>4. ASSUME NEW m \in Messages, socket' = Append(socket, m), UNCHANGED <<incoming, events, handled>>,
             others' = others + One(m)
      PROVE  Conserved'
  <2>1. Pending' = Append(Pending, m)
    BY <1>1, <1>4, PendingArrives DEF Pending
  <2>2. Count(Append(Pending, m)) = Count(Pending) + One(m)
    BY <1>2, CountAppend
  <2>3. One(m) \in Nat
    BY DEF One
  <2>4. QED BY <1>1, <1>3, <1>4, <2>1, <2>2, <2>3 DEF Conserved
<1>5. CASE Measure
  <2>1. PICK ok \in BOOLEAN : socket' = Append(socket, Update(ok, temperature'))
    BY <1>5, Zenon DEF Measure, Arrive, Types
  <2>2. temperature' \in Readings \cup {0}
    BY <1>5 DEF Measure, Types
  <2>3. Update(ok, temperature') \in Messages /\ One(Update(ok, temperature')) = 0
    BY <2>2, MessagesTyped DEF One, Update
  <2>4. QED BY <1>1, <1>4, <1>5, <2>1, <2>3 DEF Measure, Arrive
<1>6. CASE Notify
  <2>1. Other \in Messages /\ One(Other) = 1
    BY MessagesTyped DEF One, Other
  <2>2. QED BY <1>4, <1>6, <2>1 DEF Notify, Arrive
<1>7. CASE UNCHANGED <<Pending, others, handled>>
  BY <1>7 DEF Conserved
<1>8. CASE SensorChanges \/ Poll \/ AllPopped \/ Join \/ RestartHardware \/ UNCHANGED temperatureVars
  BY <1>7, <1>8 DEF SensorChanges, Poll, AllPopped, ReceiverStep, Join, RestartHardware, Crash, temperatureVars,
                    Pending
<1>9. CASE ReadWrite \/ Flush
  BY <1>1, <1>7, <1>9, PendingRead DEF ReadWrite, ReceiverStep, Flush, Pending
<1>10. CASE PopMessage
  BY <1>1, <1>7, <1>10, PendingPopped DEF PopMessage, ReceiverStep, Pending
<1>11. CASE HandlerStep
  <2>1. events # <<>> /\ events' = Tail(events) /\ UNCHANGED <<incoming, socket, others>>
    BY <1>11 DEF HandlerStep, UpdateFails, UpdateTemperatureNOTI, NoUpdate, HandleOther, Handle
  <2>2. handled' = handled + One(Head(events))
    BY <1>1, <1>11 DEF HandlerStep, UpdateFails, UpdateTemperatureNOTI, NoUpdate, HandleOther, Handle, One
  <2>3. Pending # <<>> /\ Head(Pending) = Head(events) /\ Pending' = Tail(Pending)
    BY <1>1, <1>2, <2>1, PendingHandled DEF Pending
  <2>4. Tail(Pending) \in Seq(Messages) /\ Count(Pending) = Count(Tail(Pending)) + One(Head(events))
    BY <1>2, <2>3, CountTail
  <2>5. Count(Tail(Pending)) \in Nat /\ One(Head(events)) \in Nat
    BY <2>4, CountType DEF One
  <2>6. QED BY <1>1, <2>1, <2>2, <2>3, <2>4, <2>5 DEF Conserved
<1>12. CASE RestartCore
  <2>1. Pending' = <<>> /\ handled' = others /\ others' = others
    BY <1>12, ConcatEmptySeq, EmptySeq DEF RestartCore, Crash, Pending
  <2>2. Count(<<>>) = 0
    <3>1. OtherAt(<<>>) = {}
      BY DEF OtherAt
    <3>2. QED BY <3>1, FS_EmptySet DEF Count
  <2>3. QED BY <1>1, <2>1, <2>2 DEF Conserved
<1>13. QED BY <1>5, <1>6, <1>8, <1>9, <1>10, <1>11, <1>12 DEF TemperatureNext, DBusReceiver

\* All variables keep their types; in particular no notification is handled that was not
\* sent, and none twice, however often the socket is read by a thread that only sends.
THEOREM TemperatureTypeCorrect == TemperatureSpec => []TemperatureTypeOK
<1>1. Inv /\ Conserved => TemperatureTypeOK
  <2> SUFFICES ASSUME Inv, Conserved
               PROVE  TemperatureTypeOK
    OBVIOUS
  <2>1. Pending \in Seq(Messages)
    BY ConcatProperties DEF Inv, Types, Pending
  <2>2. handled \in 0 .. others
    <3>1. Count(Pending) \in Nat /\ handled \in Nat /\ others \in Nat
      BY <2>1, CountType DEF Inv, Types
    <3>2. QED BY <3>1 DEF Conserved
  <2>3. current \in Int
    BY DegreesType DEF Inv, Types, CurrentIsLast
  <2>4. QED BY <2>2, <2>3, Zenon DEF Inv, Types, ClientIsCurrent, TemperatureTypeOK
<1>2. Inv => Types
  BY DEF Inv
<1>3. QED BY <1>1, <1>2, InvInit, InvStep, ConservedInit, ConservedStep, PTL DEF TemperatureSpec
=============================================================================
