----------------------------- MODULE EventQueue -----------------------------
(***************************************************************************)
(* The event queue every daemon is built around, with the threads that use *)
(* it: producers (D-Bus receiver, web-socket I/O thread, timer, record     *)
(* worker, main) push, and the one MainWorker thread polls hasEvent, pops, *)
(* processes, and sleeps in waitForEvent when the list is empty.           *)
(*                                                                         *)
(* A critical section that takes no second lock and reads no other shared  *)
(* variable is one step; pushEvent is three, because notifyEvent takes     *)
(* wakeupMutex_ while queueMutex_ is held.  Event contents are irrelevant  *)
(* here; an event is an object pushed once.                                *)
(***************************************************************************)
EXTENDS Sequences, Naturals

CONSTANTS Producers,   \* threads that call pushEvent
          MainWorker,  \* the thread that pops
          Nobody,      \* the owner of a free mutex
          Events,      \* event objects
          NoEvent      \* the null shared_ptr

ASSUME ThreadsAreDistinct == /\ MainWorker \notin Producers
                             /\ Nobody \notin Producers \cup {MainWorker}
ASSUME NoEventIsNull == NoEvent \notin Events

VARIABLES eventList,   \* EventQueue::eventList_
          queueMutex,  \* owner of queueMutex_
          wakeupMutex, \* owner of wakeupMutex_
          push,        \* where each producer is in pushEvent
          worker,      \* where MainWorker is in threadFunction
          current,     \* the event MainWorker is processing
          runningFlag, \* ThreadBase::runningFlag_ of MainWorker
          accepted,    \* history: events in push_back order
          handled      \* history: events in processing order

vars == <<eventList, queueMutex, wakeupMutex, push, worker, current,
          runningFlag, accepted, handled>>

PushPlaces   == {"outside", "appended", "notified"}
WorkerPlaces == {"loop", "check", "pop", "process", "wait", "waitLocked",
                 "blocked", "woken", "exited"}

Occurs(e, s) == \E i \in 1 .. Len(s) : s[i] = e

Init == /\ eventList = <<>>
        /\ queueMutex = Nobody /\ wakeupMutex = Nobody
        /\ push = [p \in Producers |-> "outside"]
        /\ worker = "loop" /\ current = NoEvent
        /\ runningFlag = TRUE
        /\ accepted = <<>> /\ handled = <<>>

-----------------------------------------------------------------------------
(* EventQueue::pushEvent, called by a producer with a fresh event.         *)

\* Lock queueMutex_ and push_back.
PushBack(p, e) ==
  /\ push[p] = "outside" /\ ~ Occurs(e, accepted)
  /\ queueMutex = Nobody
  /\ queueMutex' = p
  /\ eventList' = Append(eventList, e)
  /\ accepted' = Append(accepted, e)
  /\ push' = [push EXCEPT ![p] = "appended"]
  /\ UNCHANGED <<wakeupMutex, worker, current, runningFlag, handled>>

\* notifyEvent: lock wakeupMutex_ and notify_all, which only a waiter hears.
NotifyEvent(p) ==
  /\ push[p] = "appended" /\ wakeupMutex = Nobody
  /\ wakeupMutex' = p
  /\ worker' = IF worker = "blocked" THEN "woken" ELSE worker
  /\ push' = [push EXCEPT ![p] = "notified"]
  /\ UNCHANGED <<eventList, queueMutex, current, runningFlag, accepted, handled>>

\* Both lock_guards go out of scope.
PushReturn(p) ==
  /\ push[p] = "notified"
  /\ wakeupMutex' = Nobody /\ queueMutex' = Nobody
  /\ push' = [push EXCEPT ![p] = "outside"]
  /\ UNCHANGED <<eventList, worker, current, runningFlag, accepted, handled>>

-----------------------------------------------------------------------------
(* MainWorker::threadFunction                                              *)

\* while (runningFlag_)
LoopTest ==
  /\ worker = "loop"
  /\ worker' = IF runningFlag THEN "check" ELSE "exited"
  /\ UNCHANGED <<eventList, queueMutex, wakeupMutex, push, current,
                 runningFlag, accepted, handled>>

\* hasEvent, under queueMutex_.
HasEvent ==
  /\ worker = "check" /\ queueMutex = Nobody
  /\ worker' = IF eventList = <<>> THEN "wait" ELSE "pop"
  /\ UNCHANGED <<eventList, queueMutex, wakeupMutex, push, current,
                 runningFlag, accepted, handled>>

\* A popEvent that reads front() and forgets pop_front().
PopEventKeeps ==
  /\ worker = "pop" /\ queueMutex = Nobody
  /\ eventList # <<>>
  /\ current' = Head(eventList) /\ worker' = "process"
  /\ UNCHANGED <<eventList, queueMutex, wakeupMutex, push, runningFlag,
                 accepted, handled>>

\* A popEvent that takes the newest event.
PopEventNewest ==
  /\ worker = "pop" /\ queueMutex = Nobody
  /\ eventList # <<>>
  /\ worker' = "process"
  /\ current' = eventList[Len(eventList)]
  /\ eventList' = SubSeq(eventList, 1, Len(eventList) - 1)
  /\ UNCHANGED <<queueMutex, wakeupMutex, push, runningFlag, accepted, handled>>

\* popEvent, under queueMutex_; a null result goes round the loop.
PopEvent ==
  /\ worker = "pop" /\ queueMutex = Nobody
  /\ IF eventList = <<>>
     THEN worker' = "loop" /\ UNCHANGED <<eventList, current>>
     ELSE /\ worker' = "process"
          /\ current' = Head(eventList) /\ eventList' = Tail(eventList)
  /\ UNCHANGED <<queueMutex, wakeupMutex, push, runningFlag, accepted, handled>>

\* A worker that keeps the event it has processed.
ProcessEventKeeps ==
  /\ worker = "process"
  /\ handled' = Append(handled, current)
  /\ worker' = "loop"
  /\ UNCHANGED <<eventList, queueMutex, wakeupMutex, push, current, runningFlag, accepted>>

\* processEvent returns; the handlers do not push to this queue.
ProcessEvent ==
  /\ worker = "process"
  /\ handled' = Append(handled, current)
  /\ current' = NoEvent /\ worker' = "loop"
  /\ UNCHANGED <<eventList, queueMutex, wakeupMutex, push, runningFlag, accepted>>

\* waitForEvent: lock wakeupMutex_ ...
WaitLock ==
  /\ worker = "wait" /\ wakeupMutex = Nobody
  /\ wakeupMutex' = MainWorker /\ worker' = "waitLocked"
  /\ UNCHANGED <<eventList, queueMutex, push, current, runningFlag, accepted, handled>>

\* ... wait_for releases it and blocks, without testing the list again ...
WaitFor ==
  /\ worker = "waitLocked"
  /\ wakeupMutex' = Nobody /\ worker' = "blocked"
  /\ UNCHANGED <<eventList, queueMutex, push, current, runningFlag, accepted, handled>>

\* A wait without a timeout never ends by itself.
WaitForever == FALSE

\* ... until a notify, the 2500 ms timeout or a spurious wake-up ...
WaitTimeout ==
  /\ worker = "blocked"
  /\ worker' = "woken"
  /\ UNCHANGED <<eventList, queueMutex, wakeupMutex, push, current,
                 runningFlag, accepted, handled>>

\* ... and returns with wakeupMutex_ locked and unlocked once more.
WaitReturn ==
  /\ worker = "woken" /\ wakeupMutex = Nobody
  /\ worker' = "loop"
  /\ UNCHANGED <<eventList, queueMutex, wakeupMutex, push, current,
                 runningFlag, accepted, handled>>

\* main calls mainWorker->stop(): the flag falls, nothing is notified.
Stop ==
  /\ runningFlag
  /\ runningFlag' = FALSE
  /\ UNCHANGED <<eventList, queueMutex, wakeupMutex, push, worker, current,
                 accepted, handled>>

\* All is over: the worker has exited and no push is left to make.
Terminated ==
  /\ worker = "exited"
  /\ \A p \in Producers : push[p] = "outside"
  /\ \A e \in Events : Occurs(e, accepted)
  /\ UNCHANGED vars

-----------------------------------------------------------------------------
Producer(p) == NotifyEvent(p) \/ PushReturn(p) \/ \E e \in Events : PushBack(p, e)

WorkerStep == \/ LoopTest \/ HasEvent \/ PopEvent \/ ProcessEvent
              \/ WaitLock \/ WaitFor \/ WaitTimeout \/ WaitReturn

Next == WorkerStep \/ Stop \/ Terminated \/ \E p \in Producers : Producer(p)

\* The scheduler runs the worker, and a producer inside pushEvent, when they
\* can run.  No thread has to call pushEvent, and nobody has to stop.
Fairness == /\ WF_vars(WorkerStep)
            /\ \A p \in Producers : WF_vars(NotifyEvent(p) \/ PushReturn(p))

Spec     == Init /\ [][Next]_vars
FairSpec == Spec /\ Fairness

-----------------------------------------------------------------------------
(* Properties                                                              *)

TypeOK ==
  /\ eventList \in Seq(Events)
  /\ queueMutex \in Producers \cup {Nobody}
  /\ wakeupMutex \in Producers \cup {MainWorker, Nobody}
  /\ push \in [Producers -> PushPlaces]
  /\ worker \in WorkerPlaces
  /\ current \in Events \cup {NoEvent}
  /\ worker = "process" <=> current # NoEvent
  /\ runningFlag \in BOOLEAN
  /\ accepted \in Seq(Events) /\ handled \in Seq(Events)

\* The event between popEvent and the end of processEvent.
InHand == IF worker = "process" THEN <<current>> ELSE <<>>

\* No event is lost, duplicated or overtaken between the producer's push_back
\* and the end of its handler: what was handled, what is being processed and
\* what is still listed make up exactly what was accepted.
ConservesEvents == accepted = handled \o InHand \o eventList

\* hasEvent's answer is still true when popEvent locks again: between the two
\* calls other threads only append, so the null branch of the loop is dead.
\* Proved for ConservesEvents' sake.
PopFindsEvent == worker = "pop" => eventList # <<>>

\* notify_all is only ever called by the thread that owns both mutexes, and
\* the worker never sleeps while it owns wakeupMutex_: the nesting
\* queueMutex_ -> wakeupMutex_ of pushEvent has no counterpart the other way.
LocksMatch ==
  /\ \A p \in Producers : /\ push[p] # "outside" <=> queueMutex = p
                          /\ push[p] = "notified" <=> wakeupMutex = p
  /\ worker = "waitLocked" <=> wakeupMutex = MainWorker

\* The queue implements the channel its users rely on.
Channel == INSTANCE EventChannel
ImplementsChannel == Channel!ChannelSpec

\* Although a notify between hasEvent and wait_for wakes nobody, an accepted
\* event is handled in the end unless the daemon is told to stop.
EveryEventHandled ==
  \A e \in Events : Occurs(e, accepted) ~> (Occurs(e, handled) \/ ~ runningFlag)
=============================================================================
