-------------------------- MODULE WebSocketServer --------------------------
(***************************************************************************)
(* How the core manager's clients learn its state.  Two threads meet here: *)
(* the web-socket I/O thread, which runs every asynchronous handler, and   *)
(* the MainWorker, which changes StateView and broadcasts the change.      *)
(* WebSocketServer::mutex_ protects the set of sessions, and every session *)
(* has its own queue_mutex_ for the messages waiting to be written.        *)
(*                                                                         *)
(* StateView is a version number and a message is the version it tells.    *)
(* The three messages a new client gets are one.  The MainWorker enters    *)
(* and leaves a queue_mutex_ in two steps, so that the I/O thread can be   *)
(* seen outside the lock while the queue changes.                          *)
(***************************************************************************)
EXTENDS Naturals, Sequences, SequencesExt

CONSTANTS Sessions,    \* WebSocketSession objects
          Io,          \* the thread that runs io_context
          MainWorker,  \* the thread that broadcasts
          Nobody,      \* the owner of a free mutex
          MaxChanges   \* bound: state changes in a run

ASSUME ThreadsAreDistinct == Io # MainWorker /\ Nobody \notin {Io, MainWorker}
ASSUME BoundIsNat == MaxChanges \in Nat

VARIABLES
  stateView,     \* version of the state in StateView
  sessions,      \* sessions_
  mutex,         \* owner of mutex_
  queueMutex,    \* owner of every session's queue_mutex_
  messageQueue,  \* message_queue_ of every session
  writing,       \* writing_ of every session
  posted,        \* doWrite handlers posted to the I/O thread, by session
  inFlight,      \* async_writes not completed, by session
  alive,         \* "new", "connected" or "gone": the client of every session
  reading,       \* async_read is outstanding
  view,          \* history: the version the client was told last
  io, ioSession, ioMessage, \* where the I/O thread is, for whom, and with what
  worker, todo   \* where MainWorker is, and the sessions still to be sent to

sessionVars == <<queueMutex, messageQueue, writing, posted, inFlight>>
clientVars  == <<alive, reading, view>>
ioVars      == <<io, ioSession, ioMessage>>
workerVars  == <<worker, todo>>
vars == <<stateView, sessions, mutex, sessionVars, clientVars, ioVars, workerVars>>

NoVersion == MaxChanges + 1   \* a client that has not been told anything

Init ==
  /\ stateView = 0 /\ sessions = {} /\ mutex = Nobody
  /\ queueMutex = [s \in Sessions |-> Nobody]
  /\ messageQueue = [s \in Sessions |-> <<>>]
  /\ writing = [s \in Sessions |-> FALSE]
  /\ posted = [s \in Sessions |-> 0] /\ inFlight = [s \in Sessions |-> 0]
  /\ alive = [s \in Sessions |-> "new"] /\ reading = [s \in Sessions |-> FALSE]
  /\ view = [s \in Sessions |-> NoVersion]
  /\ io = "loop" /\ ioSession \in Sessions /\ ioMessage = 0
  /\ worker = "idle" /\ todo = {}

\* The client's end of the connection goes away.
Disconnect(s) ==
  /\ alive[s] = "connected"
  /\ alive' = [alive EXCEPT ![s] = "gone"]
  /\ UNCHANGED <<stateView, sessions, mutex, sessionVars, reading, view, ioVars, workerVars>>

-----------------------------------------------------------------------------
(* WebSocketSession::send, the part under queue_mutex_                      *)

\* A send that starts a write loop whether or not one is running.
EnqueueAlwaysPosts(s, message) ==
  /\ messageQueue' = [messageQueue EXCEPT ![s] = Append(@, message)]
  /\ writing' = [writing EXCEPT ![s] = TRUE]
  /\ posted' = [posted EXCEPT ![s] = @ + 1]

Enqueue(s, message) ==
  /\ messageQueue' = [messageQueue EXCEPT ![s] = Append(@, message)]
  /\ writing' = [writing EXCEPT ![s] = TRUE]
  /\ posted' = [posted EXCEPT ![s] = IF writing[s] THEN @ ELSE @ + 1]

-----------------------------------------------------------------------------
(* MainWorker: a handler changes StateView, then updateStateAndBroadcast.   *)

WorkerStep(from, to) ==
  /\ worker = from /\ worker' = to
  /\ UNCHANGED <<clientVars, ioVars>>

ChangeState ==
  /\ WorkerStep("idle", "locking")
  /\ stateView < MaxChanges /\ stateView' = stateView + 1
  /\ UNCHANGED <<sessions, mutex, sessionVars, todo>>

\* lock_guard on mutex_; sessions_ cannot change until it is released.
BroadcastLock ==
  /\ WorkerStep("locking", "broadcasting")
  /\ mutex = Nobody /\ mutex' = MainWorker
  /\ todo' = sessions
  /\ UNCHANGED <<stateView, sessions, sessionVars>>

SendLock(s) ==
  /\ WorkerStep("broadcasting", "sending")
  /\ s \in todo /\ queueMutex[s] = Nobody
  /\ queueMutex' = [queueMutex EXCEPT ![s] = MainWorker]
  /\ UNCHANGED <<stateView, sessions, mutex, messageQueue, writing, posted, inFlight, todo>>

Send(s) ==
  /\ WorkerStep("sending", "broadcasting")
  /\ queueMutex[s] = MainWorker
  /\ queueMutex' = [queueMutex EXCEPT ![s] = Nobody]
  /\ Enqueue(s, stateView)
  /\ todo' = todo \ {s}
  /\ UNCHANGED <<stateView, sessions, mutex, inFlight>>

\* A broadcast that returns with mutex_ locked.
BroadcastUnlockForgets ==
  /\ WorkerStep("broadcasting", "idle")
  /\ todo = {}
  /\ UNCHANGED <<stateView, sessions, mutex, sessionVars, todo>>

BroadcastUnlock ==
  /\ WorkerStep("broadcasting", "idle")
  /\ todo = {}
  /\ mutex' = Nobody
  /\ UNCHANGED <<stateView, sessions, sessionVars, todo>>

-----------------------------------------------------------------------------
(* The I/O thread runs one handler after the other.                         *)

IoStep(from, to) ==
  /\ io = from /\ io' = to
  /\ UNCHANGED <<stateView, workerVars>>

\* async_accept of a new client's handshake completes.
Accept(s) ==
  /\ IoStep("loop", "joining")
  /\ alive[s] = "new" /\ alive' = [alive EXCEPT ![s] = "connected"]
  /\ ioSession' = s
  /\ UNCHANGED <<sessions, mutex, sessionVars, reading, view, ioMessage>>

\* A join that locks mutex_ for the insertion only.
JoinInsertOnly ==
  /\ IoStep("joining", "initialising")
  /\ mutex = Nobody
  /\ sessions' = sessions \cup {ioSession}
  /\ UNCHANGED <<mutex, sessionVars, clientVars, ioSession, ioMessage>>

\* join: under mutex_, insert ...
JoinInsert ==
  /\ IoStep("joining", "initialising")
  /\ mutex = Nobody /\ mutex' = Io
  /\ sessions' = sessions \cup {ioSession}
  /\ UNCHANGED <<sessionVars, clientVars, ioSession, ioMessage>>

\* ... sendInitStateToClient reads StateView, which MainWorker does not lock ...
JoinReadState ==
  /\ IoStep("initialising", "greeting")
  /\ ioMessage' = stateView
  /\ UNCHANGED <<sessions, mutex, sessionVars, clientVars, ioSession>>

\* ... and sends it; then doRead.
JoinSend ==
  /\ IoStep("greeting", "loop")
  /\ queueMutex[ioSession] = Nobody
  /\ Enqueue(ioSession, ioMessage)
  /\ mutex' = Nobody
  /\ reading' = [reading EXCEPT ![ioSession] = TRUE]
  /\ UNCHANGED <<sessions, queueMutex, inFlight, alive, view, ioSession, ioMessage>>

\* async_read completes with an error: leave, without queue_mutex_ ...
ReadError(s) ==
  /\ IoStep("loop", "leaving")
  /\ reading[s] /\ alive[s] = "gone"
  /\ reading' = [reading EXCEPT ![s] = FALSE]
  /\ ioSession' = s
  /\ UNCHANGED <<sessions, mutex, sessionVars, alive, view, ioMessage>>

Leave ==
  /\ IoStep("leaving", "loop")
  /\ mutex = Nobody
  /\ sessions' = sessions \ {ioSession}
  /\ UNCHANGED <<mutex, sessionVars, clientVars, ioSession, ioMessage>>

\* doWrite looks at message_queue_.front() without queue_mutex_.
DoWrite(s) ==
  /\ IoStep("loop", "loop")
  /\ posted[s] > 0
  /\ posted' = [posted EXCEPT ![s] = @ - 1]
  /\ inFlight' = [inFlight EXCEPT ![s] = @ + 1]
  /\ UNCHANGED <<sessions, mutex, queueMutex, messageQueue, writing, clientVars,
                 ioSession, ioMessage>>

\* A completion handler that never writes the rest of the queue.
WriteSucceedsStops(s) ==
  /\ IoStep("loop", "loop")
  /\ inFlight[s] > 0 /\ queueMutex[s] = Nobody
  /\ inFlight' = [inFlight EXCEPT ![s] = @ - 1]
  /\ view' = [view EXCEPT ![s] = Head(messageQueue[s])]
  /\ messageQueue' = [messageQueue EXCEPT ![s] = Tail(@)]
  /\ writing' = [writing EXCEPT ![s] = FALSE]
  /\ UNCHANGED <<sessions, mutex, queueMutex, posted, alive, reading, ioSession, ioMessage>>

\* async_write completes: under queue_mutex_, pop, and go on if there is more.
WriteSucceeds(s) ==
  /\ IoStep("loop", "loop")
  /\ inFlight[s] > 0 /\ queueMutex[s] = Nobody
  /\ inFlight' = [inFlight EXCEPT ![s] = @ - 1]
  /\ view' = [view EXCEPT ![s] = Head(messageQueue[s])]
  /\ messageQueue' = [messageQueue EXCEPT ![s] = Tail(@)]
  /\ IF Tail(messageQueue[s]) = <<>>
     THEN writing' = [writing EXCEPT ![s] = FALSE] /\ UNCHANGED posted
     ELSE posted' = [posted EXCEPT ![s] = @ + 1] /\ UNCHANGED writing
  /\ UNCHANGED <<sessions, mutex, queueMutex, alive, reading, ioSession, ioMessage>>

\* async_write fails: queue_mutex_ is locked, the message popped ...
WriteError(s) ==
  /\ IoStep("loop", "leavingLocked")
  /\ alive[s] = "gone"
  /\ inFlight[s] > 0 /\ queueMutex[s] = Nobody
  /\ queueMutex' = [queueMutex EXCEPT ![s] = Io]
  /\ inFlight' = [inFlight EXCEPT ![s] = @ - 1]
  /\ messageQueue' = [messageQueue EXCEPT ![s] = Tail(@)]
  /\ ioSession' = s
  /\ UNCHANGED <<sessions, mutex, writing, posted, clientVars, ioMessage>>

\* ... and leave called with queue_mutex_ still held.
LeaveLocked ==
  /\ IoStep("leavingLocked", "loop")
  /\ mutex = Nobody
  /\ sessions' = sessions \ {ioSession}
  /\ queueMutex' = [queueMutex EXCEPT ![ioSession] = Nobody]
  /\ writing' = [writing EXCEPT ![ioSession] = FALSE]
  /\ UNCHANGED <<mutex, messageQueue, posted, inFlight, clientVars, ioSession, ioMessage>>

-----------------------------------------------------------------------------
Broadcast == \/ BroadcastLock \/ BroadcastUnlock
             \/ \E s \in Sessions : SendLock(s) \/ Send(s)

IoGoesOn == \/ JoinInsert \/ JoinReadState \/ JoinSend \/ Leave \/ LeaveLocked
            \/ \E s \in Sessions :
                 ReadError(s) \/ DoWrite(s) \/ WriteSucceeds(s) \/ WriteError(s)

Next == \/ Broadcast \/ IoGoesOn \/ ChangeState
        \/ \E s \in Sessions : Accept(s) \/ Disconnect(s)

\* Both threads are scheduled and writes complete.  A run has finitely many
\* changes and clients, so no thread can be overtaken at a mutex for ever.
Fairness == WF_vars(Broadcast) /\ WF_vars(IoGoesOn)

Spec     == Init /\ [][Next]_vars
FairSpec == Spec /\ Fairness

-----------------------------------------------------------------------------
(* Properties                                                              *)

Versions == 0 .. MaxChanges

TypeOK ==
  /\ stateView \in Versions /\ sessions \in SUBSET Sessions
  /\ mutex \in {Nobody, Io, MainWorker}
  /\ queueMutex \in [Sessions -> {Nobody, Io, MainWorker}]
  /\ messageQueue \in [Sessions -> Seq(Versions)]
  /\ writing \in [Sessions -> BOOLEAN] /\ reading \in [Sessions -> BOOLEAN]
  /\ posted \in [Sessions -> Nat] /\ inFlight \in [Sessions -> Nat]
  /\ alive \in [Sessions -> {"new", "connected", "gone"}]
  /\ view \in [Sessions -> Versions \cup {NoVersion}]
  /\ io \in {"loop", "joining", "initialising", "greeting", "leaving", "leavingLocked"}
  /\ ioSession \in Sessions /\ ioMessage \in Versions
  /\ worker \in {"idle", "locking", "broadcasting", "sending"}
  /\ todo \in SUBSET Sessions
  /\ mutex = Io <=> io \in {"initialising", "greeting"}
  /\ mutex = MainWorker <=> worker \in {"broadcasting", "sending"}

\* Beast allows one async_write per stream: writing_ lets a second one neither
\* start nor be posted, whichever thread sends, and a write that is posted or
\* in flight has a message to write.
OneWriteAtATime ==
  \A s \in Sessions :
    /\ posted[s] + inFlight[s] <= 1
    /\ posted[s] + inFlight[s] = 1 => messageQueue[s] # <<>> /\ writing[s]

\* What a client has been told, or is about to be told, last.
Told(s) == IF messageQueue[s] = <<>> THEN view[s] ELSE Last(messageQueue[s])

\* A client that joins while a handler changes the state is not left with the
\* old one: between two handlers everybody's latest message is the state.
LatestToldIsState ==
  worker = "idle" =>
    \A s \in sessions :
      alive[s] = "connected" /\ ~ (io \in {"initialising", "greeting"} /\ ioSession = s)
        => Told(s) = stateView

\* A failed write has the session leave with queue_mutex_ held while the
\* MainWorker, which holds mutex_, has still to send to it.
WaitForEachOther ==
  /\ io = "leavingLocked" /\ mutex = MainWorker
  /\ ioSession \in todo /\ worker = "broadcasting"

\* Every client that stays gets the state in the end, or the two threads block each
\* other in this one way: clients that join, leave or vanish at any moment cause no
\* other deadlock.
EveryClientCatchesUp ==
  \A s \in Sessions : (s \in sessions) ~>
    (alive[s] = "gone" \/ view[s] = stateView \/ WaitForEachOther)

\* "Stop writing on error": after a failed write writing_ falls.
StopsWritingOnError ==
  \A s \in Sessions : (io = "leavingLocked" /\ ioSession = s) ~> ~ writing[s]
=============================================================================
