--------------------------- MODULE RecordSession ---------------------------
(***************************************************************************)
(* One audio recording, as the core manager and the record manager see it. *)
(*                                                                         *)
(* RecordHandler (core manager) keeps RECORD_STATE and turns a client's    *)
(* request into a D-Bus signal.  The record manager's MainWorker applies   *)
(* it to RecordWorker::state_, which the RecordWorker thread polls; that   *)
(* thread answers with D-Bus notifications.  Neither side waits for the    *)
(* other: the two channels below are all they share.                       *)
(*                                                                         *)
(* toRecord is the D-Bus connection followed by the record manager's event *)
(* queue, toCore the way back; EventQueue shows the queues keep order.  A  *)
(* request RecordHandler ignores changes nothing and is not a step.  The   *)
(* audio buffer and ALSA are abstracted to the outcomes they can have.     *)
(***************************************************************************)
EXTENDS FiniteSets, Sequences, Naturals

CONSTANTS MaxRequests, \* bound: requests RecordHandler forwards in a run
          MaxCrashes,  \* bound: times the record manager dies
          EarlyEnds    \* ways a session may end unasked in this run

ASSUME BoundsAreNat == MaxRequests \in Nat /\ MaxCrashes \in Nat
ASSUME EarlyEndsKnown == EarlyEnds \subseteq {"duration", "error"}

VARIABLES
  RECORD_STATE,    \* StateView::RECORD_STATE
  toRecord,        \* events on their way to, or queued in, the record manager
  toCore,          \* notifications on their way to RecordHandler
  state,           \* RecordWorker::state_
  cancelRequested, \* RecordWorker::cancelRequested_
  captureError,    \* isCaptureError of the running threadFunction iteration
  place,           \* where the RecordWorker thread is in threadFunction
  filters,         \* detached AudioFilter threads still running
  up,              \* the record manager process exists
  requests,        \* requests forwarded so far
  crashes,         \* crashes so far
  unasked,         \* history: some session has ended without being asked to
  asked,           \* history: what the session in progress was told
  unserved         \* history: a start was accepted, no session began since

core    == <<RECORD_STATE, requests>>
channels == <<toRecord, toCore>>
worker  == <<state, cancelRequested, captureError, place>>
history == <<unasked, asked, unserved>>
vars    == <<core, channels, worker, filters, up, crashes, history>>

Requests == {"START", "STOP", "CANCEL"}
Noti(cmd, ok) == [cmd |-> cmd, ok |-> ok]
Notis == [cmd : Requests \cup {"FILTER"}, ok : BOOLEAN]

Init ==
  /\ RECORD_STATE = "STOPPED" /\ requests = 0
  /\ toRecord = <<>> /\ toCore = <<>>
  /\ state = "IDLE" /\ cancelRequested = FALSE /\ captureError = FALSE
  /\ place = "waiting" /\ filters = 0
  /\ up = TRUE /\ crashes = 0
  /\ unasked = FALSE /\ asked = "nothing" /\ unserved = FALSE

-----------------------------------------------------------------------------
(* RecordHandler, run by the core manager's MainWorker.                    *)

\* A D-Bus signal is not kept for a process that is not there.
SendToRecord(cmd) ==
  toRecord' = IF up THEN Append(toRecord, cmd) ELSE toRecord

Forward(cmd, from) ==
  /\ requests < MaxRequests
  /\ RECORD_STATE = from
  /\ RECORD_STATE' = "PROCESSING"
  /\ SendToRecord(cmd)
  /\ requests' = requests + 1
  /\ UNCHANGED <<toCore, worker, filters, up, crashes, history>>

\* A startRecord that forgets to leave STOPPED.
StartRecordNoProcessing ==
  /\ requests < MaxRequests
  /\ RECORD_STATE = "STOPPED"
  /\ SendToRecord("START")
  /\ requests' = requests + 1
  /\ UNCHANGED <<RECORD_STATE, toCore, worker, filters, up, crashes, history>>

StartRecord == Forward("START", "STOPPED")

StopRecord == Forward("STOP", "RECORDING")

CancelRecord == Forward("CANCEL", "RECORDING")

ReceiveNoti(cmd) ==
  /\ toCore # <<>> /\ Head(toCore).cmd = cmd
  /\ toCore' = Tail(toCore)
  /\ UNCHANGED <<requests, toRecord, worker, filters, up, crashes, history>>

StartRecordNOTI ==
  /\ ReceiveNoti("START")
  /\ RECORD_STATE' = IF Head(toCore).ok THEN "RECORDING" ELSE "STOPPED"

\* A stopRecordNOTI that only believes a success.
StopRecordNOTIOnlySuccess ==
  /\ ReceiveNoti("STOP")
  /\ RECORD_STATE' = IF Head(toCore).ok THEN "STOPPED" ELSE RECORD_STATE

\* Success or not, the session is over.
StopRecordNOTI == ReceiveNoti("STOP") /\ RECORD_STATE' = "STOPPED"

CancelRecordNOTI == ReceiveNoti("CANCEL") /\ RECORD_STATE' = "STOPPED"

\* Broadcast to the clients; a success has also been queued for the database.
FilterWavFileNOTI == ReceiveNoti("FILTER") /\ UNCHANGED RECORD_STATE

-----------------------------------------------------------------------------
(* The record manager's MainWorker.                                        *)

Take(event) ==
  /\ up /\ toRecord # <<>> /\ Head(toRecord) = event
  /\ toRecord' = Tail(toRecord)
  /\ UNCHANGED <<core, up, crashes>>

\* startRecording: a session is requested only from IDLE, under mtx_.
StartRecording ==
  /\ Take("START")
  /\ IF state = "IDLE"
     THEN /\ state' = "RECORDING" /\ cancelRequested' = FALSE
          /\ unserved' = TRUE
          /\ UNCHANGED toCore
     ELSE /\ toCore' = Append(toCore, Noti("START", FALSE))
          /\ UNCHANGED <<state, cancelRequested, unserved>>
  /\ UNCHANGED <<captureError, place, filters, unasked, asked>>

\* stopRecording: the answer comes from the thread that leaves its loop.
StopRecording ==
  /\ Take("STOP")
  /\ IF state = "RECORDING"
     THEN state' = "IDLE" /\ asked' = "stop" /\ UNCHANGED toCore
     ELSE /\ toCore' = Append(toCore, Noti("STOP", FALSE))
          /\ UNCHANGED <<state, asked>>
  /\ UNCHANGED <<cancelRequested, captureError, place, filters,
                 unasked, unserved>>

\* A cancelRecording that is only a stop.
CancelRecordingAsStop ==
  /\ Take("CANCEL")
  /\ IF state = "RECORDING"
     THEN state' = "IDLE" /\ asked' = "cancel" /\ UNCHANGED toCore
     ELSE /\ toCore' = Append(toCore, Noti("CANCEL", FALSE))
          /\ UNCHANGED <<state, asked>>
  /\ UNCHANGED <<cancelRequested, captureError, place, filters,
                 unasked, unserved>>

\* cancelRecording writes cancelRequested_ before state_, so a loop that ends
\* on state_ sees both; one step has the same outcomes as the two.
CancelRecording ==
  /\ Take("CANCEL")
  /\ IF state = "RECORDING"
     THEN /\ state' = "IDLE" /\ cancelRequested' = TRUE /\ asked' = "cancel"
          /\ UNCHANGED toCore
     ELSE /\ toCore' = Append(toCore, Noti("CANCEL", FALSE))
          /\ UNCHANGED <<state, cancelRequested, asked>>
  /\ UNCHANGED <<captureError, place, filters, unasked, unserved>>

\* processFilterWavFileEvent detaches a thread ...
FilterWavFile ==
  /\ Take("FILTER")
  /\ filters' = filters + 1
  /\ UNCHANGED <<toCore, worker, history>>

\* ... which reports how applyFilter went.
FilterDone(ok) ==
  /\ up /\ filters > 0
  /\ filters' = filters - 1
  /\ toCore' = Append(toCore, Noti("FILTER", ok))
  /\ UNCHANGED <<core, toRecord, worker, up, crashes, history>>

-----------------------------------------------------------------------------
(* RecordWorker::threadFunction.                                           *)

WorkerStep(from, to) ==
  /\ up /\ place = from /\ place' = to
  /\ UNCHANGED <<core, filters, up, crashes>>

\* cv_.wait returns: a start has been accepted.
BeginSession ==
  /\ WorkerStep("waiting", "starting")
  /\ state = "RECORDING"
  /\ unserved' = FALSE /\ asked' = "nothing" /\ captureError' = FALSE
  /\ UNCHANGED <<channels, state, cancelRequested, unasked>>

InitAlsaFails ==
  /\ WorkerStep("starting", "aborting")
  /\ toCore' = Append(toCore, Noti("START", FALSE))
  /\ UNCHANGED <<toRecord, state, cancelRequested, captureError, unasked,
                 asked, unserved>>

AbortSession ==
  /\ WorkerStep("aborting", "waiting")
  /\ state' = "IDLE"
  /\ UNCHANGED <<channels, cancelRequested, captureError, unasked, asked,
                 unserved>>

InitAlsaSucceeds ==
  /\ WorkerStep("starting", "capturing")
  /\ toCore' = Append(toCore, Noti("START", TRUE))
  /\ UNCHANGED <<toRecord, state, cancelRequested, captureError, unasked,
                 asked, unserved>>

\* The capture loop ends because state_ is no longer RECORDING ...
LoopSeesStop ==
  /\ WorkerStep("capturing", "ended")
  /\ state = "IDLE"
  /\ UNCHANGED <<channels, state, cancelRequested, captureError, unasked,
                 asked, unserved>>

\* ... or at the maximum duration, or on a capture error, whatever state_ has
\* become since the loop condition was evaluated; state_ stays.
LoopEndsEarly(why) ==
  /\ WorkerStep("capturing", "ended")
  /\ captureError' = (why = "error")
  /\ unasked' = (unasked \/ state = "RECORDING")
  /\ UNCHANGED <<channels, state, cancelRequested, asked, unserved>>

\* A capture error that only writes to the log.
ReportCaptureErrorSilently ==
  /\ WorkerStep("ended", "cleanup")
  /\ captureError
  /\ UNCHANGED <<channels, state, cancelRequested, captureError, unasked,
                 asked, unserved>>

ReportCaptureError ==
  /\ WorkerStep("ended", "cleanup")
  /\ captureError
  /\ toCore' = Append(toCore, Noti("STOP", FALSE))
  /\ UNCHANGED <<toRecord, state, cancelRequested, captureError, unasked,
                 asked, unserved>>

ReportCancel ==
  /\ WorkerStep("ended", "cleanup")
  /\ ~ captureError /\ cancelRequested
  /\ toCore' = Append(toCore, Noti("CANCEL", TRUE))
  /\ UNCHANGED <<toRecord, state, cancelRequested, captureError, unasked,
                 asked, unserved>>

\* The buffer is empty, or saveWavFile fails.
ReportNotSaved ==
  /\ WorkerStep("ended", "cleanup")
  /\ ~ captureError /\ ~ cancelRequested
  /\ toCore' = Append(toCore, Noti("STOP", FALSE))
  /\ UNCHANGED <<toRecord, state, cancelRequested, captureError, unasked,
                 asked, unserved>>

ReportSaved ==
  /\ WorkerStep("ended", "saved")
  /\ ~ captureError /\ ~ cancelRequested
  /\ toCore' = Append(toCore, Noti("STOP", TRUE))
  /\ UNCHANGED <<toRecord, state, cancelRequested, captureError, unasked,
                 asked, unserved>>

\* A worker that has its recording filtered when it is stopped and when it is saved.
PushFilterEventTwice ==
  /\ WorkerStep("saved", "cleanup")
  /\ toRecord' = toRecord \o <<"FILTER", "FILTER">>
  /\ UNCHANGED <<toCore, state, cancelRequested, captureError, unasked,
                 asked, unserved>>

PushFilterEvent ==
  /\ WorkerStep("saved", "cleanup")
  /\ toRecord' = Append(toRecord, "FILTER")
  /\ UNCHANGED <<toCore, state, cancelRequested, captureError, unasked,
                 asked, unserved>>

\* cleanupAlsa drains the device, then state_ = IDLE whatever it is by now.
FinishSession ==
  /\ WorkerStep("cleanup", "waiting")
  /\ state' = "IDLE"
  /\ UNCHANGED <<channels, cancelRequested, captureError, unasked, asked,
                 unserved>>

-----------------------------------------------------------------------------
(* The record manager dies and systemd starts it again (Restart=always).   *)

Crash ==
  /\ up /\ crashes < MaxCrashes
  /\ up' = FALSE /\ crashes' = crashes + 1
  /\ toRecord' = <<>> /\ filters' = 0
  /\ state' = "IDLE" /\ cancelRequested' = FALSE /\ captureError' = FALSE
  /\ place' = "waiting"
  /\ unserved' = FALSE /\ asked' = "nothing"
  /\ UNCHANGED <<core, toCore, unasked>>

Restart ==
  /\ ~ up /\ up' = TRUE
  /\ UNCHANGED <<core, channels, worker, filters, crashes, history>>

-----------------------------------------------------------------------------
CoreStep == \/ StartRecordNOTI \/ StopRecordNOTI \/ CancelRecordNOTI
            \/ FilterWavFileNOTI

ClientRequest == StartRecord \/ StopRecord \/ CancelRecord

MainWorkerStep == StartRecording \/ StopRecording \/ CancelRecording \/ FilterWavFile

RecordWorkerStep ==
  \/ BeginSession \/ InitAlsaFails \/ AbortSession \/ InitAlsaSucceeds
  \/ LoopSeesStop \/ ReportCaptureError \/ ReportCancel
  \/ ReportNotSaved \/ ReportSaved \/ PushFilterEvent \/ FinishSession
  \/ \E why \in EarlyEnds : LoopEndsEarly(why)

FilterStep == \E ok \in BOOLEAN : FilterDone(ok)

Next == \/ ClientRequest \/ CoreStep \/ MainWorkerStep \/ RecordWorkerStep
        \/ FilterStep \/ Crash \/ Restart

\* Every thread of both daemons is scheduled; a maximum duration is reached in
\* the end.  Clients need not ask for anything, and nothing has to crash.
Fairness == /\ WF_vars(CoreStep) /\ WF_vars(MainWorkerStep)
            /\ WF_vars(RecordWorkerStep) /\ WF_vars(FilterStep) /\ WF_vars(Restart)

Spec     == Init /\ [][Next]_vars
FairSpec == Spec /\ Fairness

-----------------------------------------------------------------------------
(* Properties                                                              *)

Places == {"waiting", "starting", "aborting", "capturing", "ended", "saved",
           "cleanup"}

\* Nobody bounds the number of detached filter threads, which may all run at once;
\* the requests do: a recording is filtered once, and takes a request to begin.
TypeOK ==
  /\ RECORD_STATE \in {"STOPPED", "RECORDING", "PROCESSING"}
  /\ toRecord \in Seq(Requests \cup {"FILTER"}) /\ toCore \in Seq(Notis)
  /\ state \in {"IDLE", "RECORDING"}
  /\ cancelRequested \in BOOLEAN /\ captureError \in BOOLEAN
  /\ place \in Places
  /\ filters \in 0 .. requests /\ up \in BOOLEAN
  /\ requests \in 0 .. MaxRequests /\ crashes \in 0 .. MaxCrashes
  /\ unasked \in BOOLEAN /\ asked \in {"nothing", "stop", "cancel"}
  /\ unserved \in BOOLEAN

\* Nothing happened that the core manager did not ask for.
Calm == ~ unasked /\ crashes = 0

Ends(noti) == noti.cmd \in {"STOP", "CANCEL"}

\* The core manager never shows a recording that is over for good: while it
\* says RECORDING, the worker is in its capture loop or about to report its
\* end, or such a report is on the way - however requests, the automatic end
\* and capture errors cross.
NoPhantomRecording ==
  crashes = 0 /\ RECORD_STATE = "RECORDING" =>
    place \in {"capturing", "ended"} \/ \E i \in 1 .. Len(toCore) : Ends(toCore[i])

One(condition) == IF condition THEN 1 ELSE 0

\* Requests and answers of one exchange: on the way, accepted but not begun,
\* begun but not answered, or told to stop but not answered.
Requested == {i \in 1 .. Len(toRecord) : toRecord[i] \in Requests}
Answered  == {i \in 1 .. Len(toCore) : toCore[i].cmd \in Requests}
Starting  == unserved \/ place = "starting"
Stopping  == place \in {"capturing", "ended"} /\ asked # "nothing"

Outstanding ==
  Cardinality(Requested) + Cardinality(Answered) + One(Starting) + One(Stopping)

\* RECORD_STATE = PROCESSING serialises the exchange over two one-way channels:
\* as long as no session ends by itself there is exactly one unanswered request
\* while it is PROCESSING and none otherwise.
OneRequestOutstanding == Calm => Outstanding = One(RECORD_STATE = "PROCESSING")

\* A session the user cancelled is never written to a WAV file, although
\* startRecording of the next one resets the cancel flag without asking
\* whether the worker has read it.
CancelDiscards ==
  [][Calm /\ place = "ended" /\ place' = "saved" => asked # "cancel"]_vars

\* The request RecordHandler is waiting on is a stop or a cancel, not taken yet.
StopPending ==
  /\ up /\ RECORD_STATE = "PROCESSING"
  /\ \E i \in 1 .. Len(toRecord) :
       /\ toRecord[i] \in {"STOP", "CANCEL"}
       /\ \A j \in i + 1 .. Len(toRecord) : toRecord[j] = "FILTER"

\* A stop or cancel takes RecordHandler from PROCESSING to STOPPED, whether it
\* ends the session, crosses its automatic end, or is refused.  After a crash of the
\* record manager, whatever it left RecordHandler in, that takes a stop which finds
\* nothing queued before it and no start waiting to be served.
StopAnswered ==
  /\ (StopPending /\ crashes = 0) ~> (RECORD_STATE = "STOPPED" \/ crashes > 0)
  /\ (StopPending /\ Len(toRecord) = 1 /\ ~ (place = "waiting" /\ state = "RECORDING"))
       ~> (RECORD_STATE = "STOPPED" \/ ~ up)

\* RecordWorker waits "until startRecording() is called": a call that was
\* accepted is followed by a session.
AcceptedStartIsServed == unserved ~> ~ unserved
=============================================================================
