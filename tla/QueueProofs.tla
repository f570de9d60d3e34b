---------------------------- MODULE QueueProofs ----------------------------
(***************************************************************************)
(* Proofs about the two queues, each of which implements EventChannel to   *)
(* those who use it.                                                       *)
(*                                                                         *)
(* EventQueue, for any set of producers and of events: its types, its lock *)
(* discipline, the conservation of events, and the refinement.             *)
(*                                                                         *)
(* DBThreadPool, for any number of threads and tasks: its types and        *)
(* the refinement.  Both rest on Serial: since MainWorker blocks on the    *)
(* future of its task, the queue and the threads together never hold more  *)
(* than that one task.                                                     *)
(***************************************************************************)
EXTENDS EventQueue, DBThreadPool, SequenceTheorems, TLAPS

USE ThreadsAreDistinct, NoEventIsNull

\* Every variable keeps its type; a step-by-step induction on Next.
THEOREM TypeCorrect == Spec => []TypeOK
<1>1. Init => TypeOK
  BY DEF Init, TypeOK, PushPlaces, WorkerPlaces
<1>2. TypeOK /\ [Next]_vars => TypeOK'
  <2> SUFFICES ASSUME TypeOK, [Next]_vars
               PROVE  TypeOK'
    OBVIOUS
  <2> USE DEF TypeOK, PushPlaces, WorkerPlaces
  <2>1. ASSUME NEW p \in Producers, NEW e \in Events, PushBack(p, e)
        PROVE  TypeOK'
    BY <2>1 DEF PushBack
  <2>2. ASSUME NEW p \in Producers, NotifyEvent(p)
        PROVE  TypeOK'
    BY <2>2 DEF NotifyEvent
  <2>3. ASSUME NEW p \in Producers, PushReturn(p)
        PROVE  TypeOK'
    BY <2>3 DEF PushReturn
  <2>4. CASE LoopTest   BY <2>4 DEF LoopTest
  <2>5. CASE HasEvent   BY <2>5 DEF HasEvent
  <2>6. CASE PopEvent
    <3>1. CASE eventList = <<>>   BY <2>6, <3>1 DEF PopEvent
    <3>2. CASE eventList # <<>>
      <4>1. Head(eventList) \in Events /\ Tail(eventList) \in Seq(Events)
        BY <3>2, HeadTailProperties
      <4>2. QED BY <2>6, <3>2, <4>1 DEF PopEvent
    <3>3. QED BY <3>1, <3>2
  <2>7. CASE ProcessEvent BY <2>7 DEF ProcessEvent
  <2>8. CASE WaitLock \/ WaitFor \/ WaitTimeout \/ WaitReturn
    BY <2>8 DEF WaitLock, WaitFor, WaitTimeout, WaitReturn
  <2>9. CASE Stop       BY <2>9 DEF Stop
  <2>10. CASE UNCHANGED vars BY <2>10 DEF vars
  <2>11. QED
    BY <2>1, <2>2, <2>3, <2>4, <2>5, <2>6, <2>7, <2>8, <2>9, <2>10
       DEF Next, WorkerStep, Producer, Terminated
<1>3. QED BY <1>1, <1>2, PTL DEF Spec

\* Lock discipline, inductive together with the types.
LEMMA LocksMatchInit == Init => LocksMatch
BY DEF Init, LocksMatch

LEMMA LocksMatchStep == TypeOK /\ LocksMatch /\ [Next]_vars => LocksMatch'
<1> SUFFICES ASSUME TypeOK, LocksMatch, [Next]_vars
             PROVE  LocksMatch'
  OBVIOUS
<1> USE DEF TypeOK, LocksMatch, PushPlaces, WorkerPlaces
<1>1. ASSUME NEW p \in Producers, NEW e \in Events, PushBack(p, e)
      PROVE  LocksMatch'
  BY <1>1 DEF PushBack
<1>2. ASSUME NEW p \in Producers, NotifyEvent(p)
      PROVE  LocksMatch'
  BY <1>2 DEF NotifyEvent
<1>3. ASSUME NEW p \in Producers, PushReturn(p)
      PROVE  LocksMatch'
  BY <1>3 DEF PushReturn
<1>4. CASE LoopTest \/ HasEvent \/ ProcessEvent
  BY <1>4 DEF LoopTest, HasEvent, ProcessEvent
<1>5. CASE PopEvent BY <1>5 DEF PopEvent
<1>6. CASE WaitLock \/ WaitFor
  BY <1>6 DEF WaitLock, WaitFor
<1>7. CASE WaitTimeout \/ WaitReturn \/ Stop \/ UNCHANGED vars
  BY <1>7 DEF WaitTimeout, WaitReturn, Stop, vars
<1>8. QED
  BY <1>1, <1>2, <1>3, <1>4, <1>5, <1>6, <1>7
     DEF Next, WorkerStep, Producer, Terminated

\* A mutex variable names exactly the thread that is inside its critical
\* section, so no two threads are ever inside the same one.
THEOREM LockDiscipline == Spec => []LocksMatch
BY TypeCorrect, LocksMatchInit, LocksMatchStep, PTL DEF Spec

\* Between hasEvent and popEvent nobody else removes: popEvent finds an event.
THEOREM PopIsNeverNull == Spec => []PopFindsEvent
<1>1. Init => PopFindsEvent
  BY DEF Init, PopFindsEvent
<1>2. TypeOK /\ PopFindsEvent /\ [Next]_vars => PopFindsEvent'
  <2> SUFFICES ASSUME TypeOK, PopFindsEvent, [Next]_vars
               PROVE  PopFindsEvent'
    OBVIOUS
  <2> USE DEF PopFindsEvent
  <2>1. ASSUME NEW p \in Producers, NEW e \in Events, PushBack(p, e)
        PROVE  PopFindsEvent'
    <3>1. Append(eventList, e) # <<>>
      BY AppendProperties DEF TypeOK
    <3>2. QED BY <2>1, <3>1 DEF PushBack
  <2>2. ASSUME NEW p \in Producers, NotifyEvent(p) \/ PushReturn(p)
        PROVE  PopFindsEvent'
    BY <2>2 DEF NotifyEvent, PushReturn
  <2>3. CASE WorkerStep
    BY <2>3 DEF WorkerStep, LoopTest, HasEvent, PopEvent, ProcessEvent,
                WaitLock, WaitFor, WaitTimeout, WaitReturn
  <2>4. CASE Stop \/ UNCHANGED vars
    BY <2>4 DEF Stop, vars
  <2>5. QED
    BY <2>1, <2>2, <2>3, <2>4 DEF Next, Producer, Terminated
<1>3. QED BY <1>1, <1>2, TypeCorrect, PTL DEF Spec

-----------------------------------------------------------------------------
(* Conservation of events and the refinement.                              *)

\* Moving the head of the middle part into the left part.
LEMMA ShiftHead ==
  ASSUME NEW S, NEW a \in Seq(S), NEW b \in Seq(S), b # <<>>
  PROVE  a \o b = (a \o <<Head(b)>>) \o Tail(b)
<1>1. /\ Head(b) \in S /\ Tail(b) \in Seq(S) /\ Len(Tail(b)) = Len(b) - 1
      /\ \A i \in 1 .. Len(Tail(b)) : Tail(b)[i] = b[i + 1]
  BY HeadTailProperties
<1>2. <<Head(b)>> \in Seq(S) /\ Len(<<Head(b)>>) = 1 /\ <<Head(b)>>[1] = b[1]
  BY <1>1
<1>3. Len(b) \in Nat \ {0}
  BY EmptySeq
<1>4. b = <<Head(b)>> \o Tail(b)
  <2>1. /\ <<Head(b)>> \o Tail(b) \in Seq(S)
        /\ Len(<<Head(b)>> \o Tail(b)) = Len(b)
        /\ \A i \in 1 .. Len(b) :
             (<<Head(b)>> \o Tail(b))[i] = IF i <= 1 THEN <<Head(b)>>[i] ELSE Tail(b)[i - 1]
    BY <1>1, <1>2, <1>3, ConcatProperties
  <2>2. ASSUME NEW i \in 1 .. Len(b)
        PROVE  (<<Head(b)>> \o Tail(b))[i] = b[i]
    BY <1>1, <1>2, <1>3, <2>1
  <2>3. QED BY <2>1, <2>2, SeqEqual
<1>5. QED
  BY <1>1, <1>2, <1>4, ConcatAssociative

\* Appending commutes with what stands to the left.
LEMMA AppendConcat ==
  ASSUME NEW S, NEW a \in Seq(S), NEW b \in Seq(S), NEW e \in S,
         NEW c \in Seq(S), c = a \o b,
         NEW b1, b1 = Append(b, e), NEW c1, c1 = Append(c, e)
  PROVE  c1 = a \o b1
<1>1. <<e>> \in Seq(S)
  OBVIOUS
<1>2. c1 = c \o <<e>> /\ b1 = b \o <<e>>
  BY AppendIsConcat
<1>3. QED BY <1>1, <1>2, ConcatAssociative

\* What conservation says when the worker takes, or finishes, an event.
LEMMA ConservesInit == Init => ConservesEvents
BY EmptySeq, ConcatEmptySeq DEF Init, ConservesEvents, InHand

LEMMA ConservesStep ==
  TypeOK /\ ConservesEvents /\ [Next]_vars => ConservesEvents'
<1> SUFFICES ASSUME TypeOK, ConservesEvents, [Next]_vars
             PROVE  ConservesEvents'
  OBVIOUS
<1> USE DEF ConservesEvents
<1>0. /\ eventList \in Seq(Events) /\ handled \in Seq(Events)
      /\ InHand \in Seq(Events) /\ handled \o InHand \in Seq(Events)
  <2>1. InHand \in Seq(Events)
    BY DEF TypeOK, InHand
  <2>2. QED BY <2>1, ConcatProperties DEF TypeOK
<1>1. ASSUME NEW p \in Producers, NEW e \in Events, PushBack(p, e)
      PROVE  ConservesEvents'
  <2>1. InHand' = InHand
    BY <1>1 DEF PushBack, InHand
  <2>2. accepted \in Seq(Events)
    BY DEF TypeOK
  <2>3. eventList' = Append(eventList, e) /\ accepted' = Append(accepted, e)
    BY <1>1 DEF PushBack
  <2>4. accepted' = (handled \o InHand) \o eventList'
    BY <1>0, <2>2, <2>3, AppendConcat
  <2>5. handled' = handled
    BY <1>1 DEF PushBack
  <2>6. QED BY <2>1, <2>4, <2>5
<1>2. ASSUME NEW p \in Producers, NotifyEvent(p) \/ PushReturn(p)
      PROVE  ConservesEvents'
  BY <1>2 DEF NotifyEvent, PushReturn, InHand
<1>3. CASE PopEvent
  <2>1. CASE eventList = <<>>
    BY <1>3, <2>1 DEF PopEvent, InHand
  <2>2. CASE eventList # <<>>
    <3>1. InHand = <<>> /\ InHand' = <<Head(eventList)>>
      BY <1>3, <2>2 DEF PopEvent, InHand
    <3>2. handled \o InHand = handled
      BY <3>1, <1>0, ConcatEmptySeq
    <3>3. handled \o eventList = (handled \o <<Head(eventList)>>) \o Tail(eventList)
      BY <2>2, <1>0, ShiftHead
    <3>4. QED BY <1>3, <2>2, <3>1, <3>2, <3>3 DEF PopEvent
  <2>3. QED BY <2>1, <2>2
<1>4. CASE ProcessEvent
  <2>1. InHand = <<current>> /\ InHand' = <<>> /\ current \in Events
    BY <1>4 DEF ProcessEvent, TypeOK, InHand
  <2>2. Append(handled, current) = handled \o InHand
    BY <2>1, <1>0, AppendIsConcat
  <2>3. (handled \o InHand) \o <<>> = handled \o InHand
    BY <1>0, ConcatEmptySeq
  <2>4. QED BY <1>4, <2>1, <2>2, <2>3 DEF ProcessEvent
<1>5. CASE LoopTest \/ HasEvent \/ WaitLock \/ WaitFor \/ WaitTimeout \/ WaitReturn
  BY <1>5 DEF LoopTest, HasEvent, WaitLock, WaitFor, WaitTimeout, WaitReturn, InHand
<1>6. CASE Stop \/ UNCHANGED vars
  BY <1>6 DEF Stop, vars, InHand
<1>7. QED
  BY <1>1, <1>2, <1>3, <1>4, <1>5, <1>6
     DEF Next, WorkerStep, Producer, Terminated

\* Nothing is lost, duplicated or overtaken, whatever the interleaving.
THEOREM Conservation == Spec => []ConservesEvents
BY TypeCorrect, ConservesInit, ConservesStep, PTL DEF Spec

\* The lock-level queue implements the abstract channel: a push is accepted
\* when it appends, an event is handled when its handler returns, and every
\* other step is invisible.
THEOREM Refinement == Spec => ImplementsChannel
<1> USE DEF Channel!ChannelInit, Channel!ChannelNext, Channel!Accept,
            Channel!Handle, Channel!channelVars
<1>1. Init => Channel!ChannelInit
  BY DEF Init
<1>2. TypeOK /\ ConservesEvents /\ [Next]_vars
        => [Channel!ChannelNext]_(Channel!channelVars)
  <2> SUFFICES ASSUME TypeOK, ConservesEvents, [Next]_vars
               PROVE  [Channel!ChannelNext]_(Channel!channelVars)
    OBVIOUS
  <2>1. ASSUME NEW p \in Producers, NEW e \in Events, PushBack(p, e)
        PROVE  Channel!ChannelNext
    BY <2>1 DEF PushBack
  <2>2. CASE ProcessEvent
    <3>1. InHand = <<current>> /\ current \in Events
      BY <2>2 DEF ProcessEvent, TypeOK, InHand
    <3>2. handled \in Seq(Events) /\ Len(handled) \in Nat
      BY LenProperties DEF TypeOK
    <3>3. <<current>> \in Seq(Events) /\ Len(<<current>>) = 1 /\ <<current>>[1] = current
      BY <3>1
    <3>4. /\ handled \o <<current>> \in Seq(Events)
          /\ Len(handled \o <<current>>) = Len(handled) + 1
          /\ (handled \o <<current>>)[Len(handled) + 1] = current
      BY <3>2, <3>3, ConcatProperties
    <3>5. accepted = (handled \o <<current>>) \o eventList
      BY <3>1 DEF ConservesEvents
    <3>6. /\ Len(accepted) = Len(handled) + 1 + Len(eventList)
          /\ accepted[Len(handled) + 1] = current
          /\ Len(eventList) \in Nat
      <4>1. eventList \in Seq(Events) /\ Len(eventList) \in Nat
        BY LenProperties DEF TypeOK
      <4>2. QED BY <3>2, <3>4, <3>5, <4>1, ConcatProperties
    <3>7. QED BY <2>2, <3>2, <3>6 DEF ProcessEvent
  <2>3. ASSUME ~ ProcessEvent,
               \A p \in Producers, e \in Events : ~ PushBack(p, e)
        PROVE  UNCHANGED Channel!channelVars
    BY <2>3 DEF Next, WorkerStep, Producer, Terminated, LoopTest, HasEvent,
                PopEvent, WaitLock, WaitFor, WaitTimeout, WaitReturn, Stop,
                NotifyEvent, PushReturn, vars
  <2>4. QED BY <2>1, <2>2, <2>3
<1>3. QED
  BY <1>1, <1>2, TypeCorrect, Conservation, PTL
     DEF Spec, ImplementsChannel, Channel!ChannelSpec

-----------------------------------------------------------------------------
(* The database thread pool.                                               *)

USE PoolIsExtra, NoTaskIsNone DEF PoolIsExtra, NoTaskIsNone

\* No thread executes a task.
Idle == \A t \in Threads : place[t] # "executing"

\* Nothing the pool has accepted is left to do.
AllDone == tasksQueue = <<>> /\ Idle /\ queued = done

\* The one task is queued, or in the hands of thread t.
Owed == queued = Append(done, wanted) /\ wanted \notin Range(done)

InQueue == Owed /\ tasksQueue = <<wanted>> /\ Idle

InHandOf(t) == /\ Owed /\ tasksQueue = <<>>
             /\ place[t] = "executing" /\ hand[t] = wanted
             /\ \A u \in Threads \ {t} : place[u] # "executing"

Serial ==
  /\ mainWorker # "future" => AllDone
  /\ mainWorker = "submit" => wanted \notin Range(queued)
  /\ mainWorker = "future" => AllDone \/ InQueue \/ \E t \in Threads : InHandOf(t)

\* run() finds MainWorker and the thread Pool not yet created.
Started ==
  /\ main = "constructed" => mainWorker = "new"
  /\ main \in {"constructed", "starting"} => place[Pool] = "new"

Inv == PoolTypeOK /\ Started /\ Serial

\* Nothing has been submitted at the start.
LEMMA InitInv == PoolInit => Inv
<1> SUFFICES ASSUME PoolInit
             PROVE  Inv
  OBVIOUS
<1>1. PoolTypeOK
  BY EmptySeq DEF PoolInit, PoolTypeOK, Threads
<1>2. Started
  BY DEF PoolInit, Started, Threads
<1>3. Serial
  BY DEF PoolInit, Serial, AllDone, Idle, Threads
<1>4. QED BY <1>1, <1>2, <1>3 DEF Inv
-----------------------------------------------------------------------------
(* Every step keeps Inv.                                                   *)

\* main creates, stops and joins threads; it never touches a task.
LEMMA MainInv == Inv /\ (Main \/ StopMainWorker) => Inv'
<1> SUFFICES ASSUME Inv, Main \/ StopMainWorker
             PROVE  Inv'
  OBVIOUS
<1> USE DEF Inv, MainStep
<1>1. CASE RunMainWorker
  BY <1>1 DEF RunMainWorker, PoolTypeOK, Started, Serial, AllDone, InQueue, InHandOf, Owed, Idle
<1>2. CASE RunPool
  <2>1. /\ place[Pool] = "new" /\ Pool \in Threads
        /\ place' \in [Threads -> {"new", "top", "locking", "blocked", "executing", "exited"}]
    BY <1>2 DEF RunPool, Started, PoolTypeOK, Threads
  <2>2. \A t \in Threads : place'[t] = "executing" <=> place[t] = "executing"
    BY <1>2, <2>1 DEF RunPool, PoolTypeOK
  <2>3. PoolTypeOK' /\ Started'
    BY <1>2, <2>1 DEF RunPool, PoolTypeOK, Started
  <2>4. Serial'
    BY <1>2, <2>2 DEF RunPool, Serial, AllDone, InQueue, InHandOf, Owed, Idle
  <2>5. QED BY <2>3, <2>4
<1>3. CASE StopMainWorker \/ StopPool \/ JoinMainWorker \/ JoinThreads
  BY <1>3 DEF StopMainWorker, StopPool, JoinMainWorker, JoinThreads, PoolTypeOK, Started, Serial,
              AllDone, InQueue, InHandOf, Owed, Idle
<1>4. CASE NotifyAll
  <2>1. /\ place' \in [Threads -> {"new", "top", "locking", "blocked", "executing", "exited"}]
        /\ \A t \in Threads : place'[t] = "executing" <=> place[t] = "executing"
    BY <1>4 DEF NotifyAll, PoolTypeOK
  <2>2. PoolTypeOK' /\ Started'
    BY <1>4, <2>1 DEF NotifyAll, PoolTypeOK, Started
  <2>3. Serial'
    BY <1>4, <2>1 DEF NotifyAll, Serial, AllDone, InQueue, InHandOf, Owed, Idle
  <2>4. QED BY <2>2, <2>3
<1>5. QED BY <1>1, <1>2, <1>3, <1>4 DEF Main

\* MainWorker submits a task only when it has none, and waits for it.
LEMMA MainWorkerInv ==
  Inv /\ (Handler \/ \E task \in Tasks : HandleEvent(task)) => Inv'
<1> SUFFICES ASSUME Inv, Handler \/ \E task \in Tasks : HandleEvent(task)
             PROVE  Inv'
  OBVIOUS
<1> USE DEF Inv, MainWorkerStep
<1>1. ASSUME NEW task \in Tasks, HandleEvent(task)
      PROVE  Inv'
  BY <1>1 DEF HandleEvent, PoolTypeOK, Started, Serial, AllDone, Idle
<1>2. CASE EnqueueTask
  <2>1. wanted \in Tasks
    BY <1>2 DEF EnqueueTask, PoolTypeOK
  <2>2. /\ place' \in [Threads -> {"new", "top", "locking", "blocked", "executing", "exited"}]
        /\ \A t \in Threads : place'[t] = "executing" <=> place[t] = "executing"
        /\ place[Pool] = "new" => place'[Pool] = "new"
    BY <1>2 DEF EnqueueTask, PoolTypeOK, Threads
  <2>3. PoolTypeOK'
    <3>1. CASE poolRunning
      <4>1. tasksQueue' = Append(tasksQueue, wanted) /\ queued' = Append(queued, wanted)
        BY <1>2, <3>1, Zenon DEF EnqueueTask
      <4>2. tasksQueue \in Seq(Tasks) /\ queued \in Seq(Tasks)
        BY DEF PoolTypeOK
      <4>3. tasksQueue' \in Seq(Tasks) /\ queued' \in Seq(Tasks)
        BY <2>1, <4>1, <4>2, AppendProperties
      <4>4. aborted' = aborted
        BY <1>2, <3>1, Zenon DEF EnqueueTask
      <4>5. QED BY <1>2, <2>1, <2>2, <4>3, <4>4 DEF EnqueueTask, PoolTypeOK
    <3>2. CASE ~ poolRunning
      BY <1>2, <2>1, <2>2, <3>2 DEF EnqueueTask, PoolTypeOK
    <3>3. QED BY <3>1, <3>2
  <2>4. Started'
    BY <1>2, <2>2 DEF EnqueueTask, Started
  <2>5. Serial'
    <3>1. AllDone /\ wanted \notin Range(queued)
      BY <1>2 DEF EnqueueTask, Serial
    <3>2. Idle'
      BY <2>2, <3>1 DEF AllDone, Idle
    <3>3. CASE poolRunning
      <4>1. tasksQueue' = <<wanted>> /\ queued' = Append(done, wanted)
        BY <1>2, <3>1, <3>3 DEF EnqueueTask, AllDone
      <4>2. InQueue'
        BY <1>2, <3>1, <3>2, <4>1 DEF EnqueueTask, InQueue, Owed, AllDone
      <4>3. QED BY <1>2, <4>2 DEF EnqueueTask, Serial
    <3>4. CASE ~ poolRunning
      BY <1>2, <3>1, <3>2, <3>4 DEF EnqueueTask, Serial, AllDone
    <3>5. QED BY <3>3, <3>4
  <2>6. QED BY <2>3, <2>4, <2>5
<1>3. CASE FutureGet
  <2>1. AllDone
    BY <1>3 DEF FutureGet, Serial, InQueue, InHandOf, Owed
  <2>2. QED
    BY <1>3, <2>1 DEF FutureGet, PoolTypeOK, Started, Serial, AllDone, Idle
<1>4. CASE ExitMainWorker
  BY <1>4 DEF ExitMainWorker, PoolTypeOK, Started, Serial, AllDone, Idle
<1>5. QED BY <1>1, <1>2, <1>3, <1>4 DEF Handler

\* A thread takes the one task there is, and gives its future a value.
LEMMA ThreadInv == ASSUME NEW t \in Threads PROVE Inv /\ (Thread(t) \/ WakeUp(t)) => Inv'
<1> SUFFICES ASSUME Inv, Thread(t) \/ WakeUp(t)
             PROVE  Inv'
  OBVIOUS
<1> USE DEF Inv, ThreadStep
<1>1. Started'
  <2>1. /\ UNCHANGED <<main, mainWorker>> /\ place[t] # "new"
        /\ \E to \in {"top", "locking", "blocked", "executing", "exited"} :
              place' = [place EXCEPT ![t] = to]
    BY DEF Thread, WakeUp, RunningTest, Block, LeaveStopped, TakeTask, Execute
  <2>2. Pool \in Threads /\ DOMAIN place = Threads
    BY DEF PoolTypeOK, Threads
  <2>3. QED BY <2>1, <2>2 DEF Started
<1>2. CASE RunningTest(t) \/ Block(t) \/ WakeUp(t) \/ LeaveStopped(t)
  <2>1. PoolTypeOK'
    BY <1>2 DEF RunningTest, Block, WakeUp, LeaveStopped, PoolTypeOK
  <2>2. \A u \in Threads : place'[u] = "executing" <=> place[u] = "executing"
    BY <1>2 DEF RunningTest, Block, WakeUp, LeaveStopped, PoolTypeOK
  <2>3. UNCHANGED <<mainWorker, wanted, tasksQueue, hand, queued, done>>
    BY <1>2 DEF RunningTest, Block, WakeUp, LeaveStopped
  <2>4. Serial'
    BY <2>2, <2>3 DEF Serial, AllDone, InQueue, InHandOf, Owed, Idle
  <2>5. QED BY <1>1, <2>1, <2>4
<1>3. CASE TakeTask(t)
  <2>1. InQueue /\ mainWorker = "future"
    BY <1>3 DEF TakeTask, Serial, AllDone, InHandOf
  <2>2. Head(tasksQueue) = wanted /\ Tail(tasksQueue) = <<>> /\ wanted \in Tasks
    BY <2>1, <1>3 DEF InQueue, PoolTypeOK
  <2>3. PoolTypeOK'
    BY <1>3, <2>2 DEF TakeTask, PoolTypeOK
  <2>4. InHandOf(t)'
    BY <1>3, <2>1, <2>2 DEF TakeTask, PoolTypeOK, InQueue, Owed, InHandOf, Idle
  <2>5. QED BY <1>1, <1>3, <2>1, <2>3, <2>4 DEF TakeTask, Serial
<1>4. CASE Execute(t)
  <2>1. InHandOf(t) /\ mainWorker = "future" /\ wanted \in Tasks
    BY <1>4 DEF Execute, Serial, AllDone, Idle, InQueue, InHandOf, PoolTypeOK
  <2>2. done' = Append(done, wanted)
    BY <1>4, <2>1 DEF Execute, InHandOf
  <2>3. PoolTypeOK'
    BY <1>4, <2>1, <2>2 DEF Execute, PoolTypeOK
  <2>4. AllDone'
    BY <1>4, <2>1, <2>2 DEF Execute, AllDone, InHandOf, Owed, Idle, PoolTypeOK
  <2>5. QED BY <1>1, <1>4, <2>1, <2>3, <2>4 DEF Execute, Serial
<1>5. QED BY <1>2, <1>3, <1>4 DEF Thread

LEMMA StepInv == Inv /\ [PoolNext]_poolVars => Inv'
<1> SUFFICES ASSUME Inv, [PoolNext]_poolVars
             PROVE  Inv'
  OBVIOUS
<1>1. CASE UNCHANGED poolVars
  BY <1>1 DEF Inv, PoolTypeOK, Started, Serial, AllDone, InQueue, InHandOf, Owed, Idle, poolVars, threads
<1>2. QED
  BY <1>1, MainInv, MainWorkerInv, ThreadInv DEF PoolNext

LEMMA Invariance == PoolSpec => []Inv
BY InitInv, StepInv, PTL DEF PoolSpec

\* The pool's variables keep their types.
THEOREM PoolTypeCorrect == PoolSpec => []PoolTypeOK
<1>1. Inv => PoolTypeOK
  BY DEF Inv
<1>2. QED BY <1>1, Invariance, PTL

\* MainWorker, which handles one event at a time, is all that keeps the database
\* operations in order: the queue and all threads hold one task at most, and it is
\* the one MainWorker waits for.
THEOREM OneTaskAtATime == PoolSpec => []Serial
<1>1. Inv => Serial
  BY DEF Inv
<1>2. QED BY <1>1, Invariance, PTL

-----------------------------------------------------------------------------
(* Refinement                                                              *)

\* Queueing a task is Accept, executing it Handle; everything else stutters.
LEMMA PoolChannelStep == Inv /\ [PoolNext]_poolVars => [PoolChannel!ChannelNext]_<<queued, done>>
<1> SUFFICES ASSUME Inv, [PoolNext]_poolVars
             PROVE  [PoolChannel!ChannelNext]_<<queued, done>>
  OBVIOUS
<1> USE DEF PoolChannel!ChannelNext, PoolChannel!Accept, PoolChannel!Handle
<1>1. CASE UNCHANGED poolVars
  BY <1>1 DEF poolVars
<1>2. CASE Main \/ StopMainWorker
  BY <1>2 DEF Main, MainStep, RunMainWorker, RunPool, StopPool, NotifyAll, JoinMainWorker,
              JoinThreads, StopMainWorker
<1>3. ASSUME NEW task \in Tasks, HandleEvent(task)
      PROVE  UNCHANGED <<queued, done>>
  BY <1>3 DEF HandleEvent, MainWorkerStep
<1>4. CASE Handler
  <2>1. CASE EnqueueTask
    BY <2>1 DEF EnqueueTask, MainWorkerStep, Inv, PoolTypeOK
  <2>2. CASE FutureGet \/ ExitMainWorker
    BY <2>2 DEF FutureGet, ExitMainWorker, MainWorkerStep
  <2>3. QED BY <1>4, <2>1, <2>2 DEF Handler
<1>5. ASSUME NEW t \in Threads, Thread(t) \/ WakeUp(t)
      PROVE  [PoolChannel!ChannelNext]_<<queued, done>>
  <2>1. CASE RunningTest(t) \/ Block(t) \/ WakeUp(t) \/ LeaveStopped(t) \/ TakeTask(t)
    BY <2>1 DEF RunningTest, Block, WakeUp, LeaveStopped, TakeTask, ThreadStep
  <2>2. CASE Execute(t)
    <3>1. InHandOf(t) /\ wanted \in Tasks /\ done \in Seq(Tasks)
      BY <2>2 DEF Execute, ThreadStep, Inv, Serial, AllDone, Idle, InQueue, InHandOf, PoolTypeOK
    <3>2. done' = Append(done, wanted) /\ UNCHANGED queued
      BY <2>2, <3>1 DEF Execute, ThreadStep, InHandOf
    <3>3. Len(done) < Len(queued) /\ queued[Len(done) + 1] = wanted
      BY <3>1 DEF InHandOf, Owed
    <3>4. QED BY <3>2, <3>3
  <2>3. QED BY <1>5, <2>1, <2>2 DEF Thread
<1>6. QED BY <1>1, <1>2, <1>3, <1>4, <1>5 DEF PoolNext

\* To MainWorker the pool is a channel: with any number of threads no database
\* operation is lost, doubled or overtaken.
THEOREM PoolRefinement == PoolSpec => PoolIsChannel
<1>1. PoolInit => PoolChannel!ChannelInit
  BY DEF PoolInit, PoolChannel!ChannelInit
<1>2. Inv /\ [PoolNext]_poolVars => [PoolChannel!ChannelNext]_(PoolChannel!channelVars)
  BY PoolChannelStep DEF PoolChannel!channelVars
<1>3. QED
  BY <1>1, <1>2, Invariance, PTL DEF PoolSpec, PoolIsChannel, PoolChannel!ChannelSpec
=============================================================================
