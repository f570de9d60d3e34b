---------------------------- MODULE DBThreadPool ----------------------------
(***************************************************************************)
(* The database thread pool of the core manager, from construction to the  *)
(* end of main, with its only client, the MainWorker thread, which submits *)
(* a task and blocks on its future.                                        *)
(*                                                                         *)
(* The constructor creates the worker threads; ThreadBase::run sets        *)
(* runningFlag_ and creates one more, Pool, that runs the same             *)
(* threadFunction.  The database operation itself is one step: it runs     *)
(* under dbMutex_ and always gives the future a value.  A task that is not *)
(* queued breaks its promise, the exception of future::get leaves the      *)
(* MainWorker thread, and the process aborts.                              *)
(***************************************************************************)
EXTENDS Naturals, Sequences, Functions

CONSTANTS Workers, \* threads created by the constructor
          Pool,    \* the thread created by ThreadBase::run
          Tasks,   \* database requests, each submitted at most once
          NoTask   \* no task in hand

ASSUME PoolIsExtra == Pool \notin Workers
ASSUME NoTaskIsNone == NoTask \notin Tasks

VARIABLES
  main,        \* how far main has come
  mainRunning, \* MainWorker's runningFlag_
  mainWorker,  \* where MainWorker is
  wanted,      \* the task of the handler MainWorker is in
  poolRunning, \* the pool's runningFlag_
  tasksQueue,  \* tasksQueue_
  place,       \* where each pool thread is in threadFunction
  hand,        \* the task each pool thread executes
  queued,      \* history: tasks in the order they were queued
  done,        \* history: tasks in the order their futures became ready
  aborted      \* the process has been terminated by an exception

threads == <<place, hand>>
poolVars == <<main, mainRunning, mainWorker, wanted, poolRunning, tasksQueue,
              threads, queued, done, aborted>>

Threads == Workers \cup {Pool}

PoolInit ==
  /\ main = "constructed" /\ mainRunning = FALSE
  /\ mainWorker = "new" /\ wanted = NoTask
  /\ poolRunning = FALSE /\ tasksQueue = <<>>
  /\ place = [t \in Threads |-> IF t = Pool THEN "new" ELSE "top"]
  /\ hand = [t \in Threads |-> NoTask]
  /\ queued = <<>> /\ done = <<>> /\ aborted = FALSE

-----------------------------------------------------------------------------
(* main                                                                    *)

MainStep(from, to) ==
  /\ ~ aborted /\ main = from /\ main' = to
  /\ UNCHANGED <<wanted, tasksQueue, hand, queued, done, aborted>>

\* mainWorker->run(); clients and daemons can be heard from now on.
RunMainWorker ==
  /\ MainStep("constructed", "starting")
  /\ mainRunning' = TRUE /\ mainWorker' = "loop"
  /\ UNCHANGED <<poolRunning, place>>

\* A run that creates the thread and leaves runningFlag_ down.
RunPoolNoFlag ==
  /\ MainStep("starting", "serving")
  /\ place' = [place EXCEPT ![Pool] = "top"]
  /\ UNCHANGED <<mainRunning, mainWorker, poolRunning>>

\* dbThreadPool->run()
RunPool ==
  /\ MainStep("starting", "serving")
  /\ poolRunning' = TRUE
  /\ place' = [place EXCEPT ![Pool] = "top"]
  /\ UNCHANGED <<mainRunning, mainWorker>>

\* SIGTERM: mainWorker->stop()
StopMainWorker ==
  /\ MainStep("serving", "stopping")
  /\ mainRunning' = FALSE
  /\ UNCHANGED <<mainWorker, poolRunning, place>>

\* dbThreadPool->stop(): the flag falls under taskMutex_ ...
StopPool ==
  /\ MainStep("stopping", "notifying")
  /\ poolRunning' = FALSE
  /\ UNCHANGED <<mainRunning, mainWorker, place>>

\* A stop that wakes a single thread.
NotifyAllOne ==
  /\ MainStep("notifying", "joining")
  /\ place' = [place EXCEPT ![Pool] = IF @ = "blocked" THEN "locking" ELSE @]
  /\ UNCHANGED <<mainRunning, mainWorker, poolRunning>>

\* ... and every waiting thread is woken.
NotifyAll ==
  /\ MainStep("notifying", "joining")
  /\ place' = [t \in Threads |-> IF place[t] = "blocked" THEN "locking" ELSE place[t]]
  /\ UNCHANGED <<mainRunning, mainWorker, poolRunning>>

\* mainWorker->join(), dbThreadPool->join() and, in ~DBThreadPool, the workers.
JoinMainWorker ==
  /\ MainStep("joining", "joinedMain") /\ mainWorker = "exited"
  /\ UNCHANGED <<mainRunning, mainWorker, poolRunning, place>>

JoinThreads ==
  /\ MainStep("joinedMain", "exited") /\ \A t \in Threads : place[t] = "exited"
  /\ UNCHANGED <<mainRunning, mainWorker, poolRunning, place>>

-----------------------------------------------------------------------------
(* MainWorker and SQLiteDBHandler                                          *)

MainWorkerStep(from, to) ==
  /\ ~ aborted /\ mainWorker = from /\ mainWorker' = to
  /\ UNCHANGED <<main, mainRunning, poolRunning, hand, done>>

\* An event that needs the database is popped and its packaged_task built.
HandleEvent(task) ==
  /\ MainWorkerStep("loop", "submit")
  /\ mainRunning /\ task \notin Range(queued)
  /\ wanted' = task
  /\ UNCHANGED <<tasksQueue, place, queued, aborted>>

\* enqueueTask: under taskMutex_, the task is queued while the pool runs, and
\* one waiting thread is notified; otherwise its promise is broken.
EnqueueTask ==
  /\ MainWorkerStep("submit", "future")
  /\ IF poolRunning
     THEN /\ tasksQueue' = Append(tasksQueue, wanted) /\ queued' = Append(queued, wanted)
          /\ IF \E t \in Threads : place[t] = "blocked"
             THEN \E t \in Threads :
                    place[t] = "blocked" /\ place' = [place EXCEPT ![t] = "locking"]
             ELSE UNCHANGED place
          /\ UNCHANGED aborted
     ELSE aborted' = TRUE /\ UNCHANGED <<tasksQueue, queued, place>>
  /\ UNCHANGED wanted

\* A handler that does not block on the future.
FutureGetNoWait ==
  /\ MainWorkerStep("future", "loop")
  /\ wanted' = NoTask
  /\ UNCHANGED <<tasksQueue, place, queued, aborted>>

\* A handler that returns with its task still in hand.
FutureGetKeeps ==
  /\ MainWorkerStep("future", "loop")
  /\ wanted \in Range(done)
  /\ UNCHANGED <<wanted, tasksQueue, place, queued, aborted>>

\* future.get() returns.
FutureGet ==
  /\ MainWorkerStep("future", "loop")
  /\ wanted \in Range(done)
  /\ wanted' = NoTask
  /\ UNCHANGED <<tasksQueue, place, queued, aborted>>

ExitMainWorker ==
  /\ MainWorkerStep("loop", "exited")
  /\ ~ mainRunning
  /\ UNCHANGED <<wanted, tasksQueue, place, queued, aborted>>

-----------------------------------------------------------------------------
(* DBThreadPool::threadFunction                                            *)

ThreadStep(t, from, to) ==
  /\ ~ aborted /\ place[t] = from /\ place' = [place EXCEPT ![t] = to]
  /\ UNCHANGED <<main, mainRunning, mainWorker, wanted, poolRunning, queued, aborted>>

\* while (runningFlag_)
RunningTest(t) ==
  /\ ThreadStep(t, "top", IF poolRunning THEN "locking" ELSE "exited")
  /\ UNCHANGED <<tasksQueue, hand, done>>

\* cv_.wait: taskMutex_ is locked and the predicate tested.
Block(t) ==
  /\ ThreadStep(t, "locking", "blocked")
  /\ tasksQueue = <<>> /\ poolRunning
  /\ UNCHANGED <<tasksQueue, hand, done>>

\* A spurious wake-up tests the predicate again.
WakeUp(t) ==
  /\ ThreadStep(t, "blocked", "locking")
  /\ UNCHANGED <<tasksQueue, hand, done>>

LeaveStopped(t) ==
  /\ ThreadStep(t, "locking", "exited")
  /\ ~ poolRunning
  /\ UNCHANGED <<tasksQueue, hand, done>>

TakeTask(t) ==
  /\ ThreadStep(t, "locking", "executing")
  /\ poolRunning /\ tasksQueue # <<>>
  /\ hand' = [hand EXCEPT ![t] = Head(tasksQueue)]
  /\ tasksQueue' = Tail(tasksQueue)
  /\ UNCHANGED done

Execute(t) ==
  /\ ThreadStep(t, "executing", "top")
  /\ done' = Append(done, hand[t])
  /\ hand' = [hand EXCEPT ![t] = NoTask]
  /\ UNCHANGED tasksQueue

-----------------------------------------------------------------------------
Main == \/ RunMainWorker \/ RunPool \/ StopPool \/ NotifyAll
        \/ JoinMainWorker \/ JoinThreads

Handler == EnqueueTask \/ FutureGet \/ ExitMainWorker

Thread(t) == \/ RunningTest(t) \/ Block(t) \/ LeaveStopped(t) \/ TakeTask(t)
             \/ Execute(t)

PoolNext == \/ Main \/ StopMainWorker \/ Handler
            \/ \E task \in Tasks : HandleEvent(task)
            \/ \E t \in Threads : Thread(t) \/ WakeUp(t)

\* main, MainWorker and the pool threads are scheduled; a signal, an event and
\* a spurious wake-up need not come.
PoolFairness == /\ WF_poolVars(Main) /\ WF_poolVars(Handler)
                /\ \A t \in Threads : WF_poolVars(Thread(t))

PoolSpec     == PoolInit /\ [][PoolNext]_poolVars
PoolFairSpec == PoolSpec /\ PoolFairness

-----------------------------------------------------------------------------
(* Properties                                                              *)

PoolTypeOK ==
  /\ main \in {"constructed", "starting", "serving", "stopping", "notifying",
               "joining", "joinedMain", "exited"}
  /\ mainRunning \in BOOLEAN /\ poolRunning \in BOOLEAN /\ aborted \in BOOLEAN
  /\ mainWorker \in {"new", "loop", "submit", "future", "exited"}
  /\ wanted \in Tasks \cup {NoTask}
  /\ mainWorker \in {"submit", "future"} <=> wanted # NoTask
  /\ tasksQueue \in Seq(Tasks)
  /\ place \in [Threads -> {"new", "top", "locking", "blocked", "executing", "exited"}]
  /\ hand \in [Threads -> Tasks \cup {NoTask}]
  /\ queued \in Seq(Tasks) /\ done \in Seq(Tasks)

\* However many threads compete for the queue, no database operation is lost or runs
\* twice, and because a handler blocks on the future of its task they take effect in
\* the order of the events that asked for them: to MainWorker the pool is a channel.
PoolChannel == INSTANCE EventChannel
                 WITH Events <- Tasks, accepted <- queued, handled <- done
PoolIsChannel == PoolChannel!ChannelSpec

\* A task that is submitted while the pool serves gets its future: a notify that
\* nobody waits for is not missed, and threads that were created before runningFlag_
\* was set and have left are not needed.
FutureBecomesReady ==
  \A task \in Tasks : (mainWorker = "submit" /\ wanted = task /\ main = "serving")
                        ~> (task \in Range(done) \/ main # "serving")

\* stop() ends the program, provided no task waits in the queue and no handler
\* is about to submit one at that moment.
CleanShutdown ==
  (main = "notifying" /\ tasksQueue = <<>> /\ mainWorker # "submit" /\ ~ aborted)
    ~> main = "exited"
=============================================================================
