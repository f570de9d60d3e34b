------------------------ MODULE RecordSessionProofs ------------------------
(***************************************************************************)
(* Proofs about RecordSession for any number of requests and crashes: its  *)
(* types, and that the core manager never shows a recording that is over;  *)
(* then, as long as no session ends by itself and nothing crashes, that    *)
(* RECORD_STATE = PROCESSING stands for exactly one unanswered request,    *)
(* and that a cancelled recording is never written.                        *)
(***************************************************************************)
EXTENDS RecordSession, SequenceTheorems, FiniteSetTheorems, TLAPS

USE BoundsAreNat, EarlyEndsKnown DEF BoundsAreNat, EarlyEndsKnown

\* The notifications the record manager builds are notifications.
LEMMA NotiType ==
  /\ \A cmd \in Requests \cup {"FILTER"}, ok \in BOOLEAN : Noti(cmd, ok) \in Notis
  /\ {"START", "STOP", "CANCEL", "FILTER"} = Requests \cup {"FILTER"}
BY DEF Noti, Notis, Requests

\* Every variable keeps its type; TypeOK also bounds the filter threads.
Types ==
  /\ RECORD_STATE \in {"STOPPED", "RECORDING", "PROCESSING"}
  /\ toRecord \in Seq(Requests \cup {"FILTER"}) /\ toCore \in Seq(Notis)
  /\ state \in {"IDLE", "RECORDING"}
  /\ cancelRequested \in BOOLEAN /\ captureError \in BOOLEAN
  /\ place \in Places
  /\ filters \in Nat /\ up \in BOOLEAN
  /\ requests \in 0 .. MaxRequests /\ crashes \in 0 .. MaxCrashes
  /\ unasked \in BOOLEAN /\ asked \in {"nothing", "stop", "cancel"}
  /\ unserved \in BOOLEAN

LEMMA TypeInit == Init => Types
<1> SUFFICES ASSUME Init
             PROVE  Types
  OBVIOUS
<1>1. requests \in 0 .. MaxRequests /\ crashes \in 0 .. MaxCrashes
  BY SMT DEF Init
<1>2. filters \in Nat
  BY SMT DEF Init
<1>3. toRecord \in Seq(Requests \cup {"FILTER"}) /\ toCore \in Seq(Notis)
  BY EmptySeq DEF Init
<1>4. QED BY <1>1, <1>2, <1>3 DEF Init, Types, Places

LEMMA TypeCore == Types /\ (ClientRequest \/ CoreStep) => Types'
<1> SUFFICES ASSUME Types, ClientRequest \/ CoreStep
             PROVE  Types'
  OBVIOUS
<1> USE DEF Types, core, channels, worker, history
<1>1. ASSUME NEW cmd \in Requests, NEW from, Forward(cmd, from)
      PROVE  Types'
  <2>1. Append(toRecord, cmd) \in Seq(Requests \cup {"FILTER"})
    OBVIOUS
  <2>2. QED BY <1>1, <2>1 DEF Forward, SendToRecord
<1>2. ASSUME NEW cmd, ReceiveNoti(cmd), RECORD_STATE' \in {"STOPPED", "RECORDING", "PROCESSING"}
      PROVE  Types'
  <2>1. Tail(toCore) \in Seq(Notis)
    BY <1>2, HeadTailProperties DEF ReceiveNoti
  <2>2. QED BY <1>2, <2>1 DEF ReceiveNoti
<1>3. QED
  BY <1>1, <1>2 DEF ClientRequest, StartRecord, StopRecord, CancelRecord, Requests,
     CoreStep, StartRecordNOTI, StopRecordNOTI, CancelRecordNOTI, FilterWavFileNOTI

LEMMA TypeRecord ==
  Types /\ (MainWorkerStep \/ FilterStep) => Types'
<1> SUFFICES ASSUME Types, MainWorkerStep \/ FilterStep
             PROVE  Types'
  OBVIOUS
<1> USE DEF Types, core, channels, worker, history
<1>1. ASSUME NEW event, Take(event)
      PROVE  Tail(toRecord) \in Seq(Requests \cup {"FILTER"})
  BY <1>1, HeadTailProperties DEF Take
<1>2. ASSUME NEW cmd \in Requests \cup {"FILTER"}, NEW ok \in BOOLEAN
      PROVE  Append(toCore, Noti(cmd, ok)) \in Seq(Notis)
  BY NotiType
<1>3. CASE StartRecording  BY <1>1, <1>2, <1>3 DEF StartRecording, Take, Requests
<1>4. CASE StopRecording   BY <1>1, <1>2, <1>4 DEF StopRecording, Take, Requests
<1>5. CASE CancelRecording BY <1>1, <1>2, <1>5 DEF CancelRecording, Take, Requests
<1>6. CASE FilterWavFile   BY <1>1, <1>6 DEF FilterWavFile, Take
<1>7. CASE FilterStep
  <2>1. PICK ok \in BOOLEAN : FilterDone(ok)
    BY <1>7 DEF FilterStep
  <2>2. toCore' \in Seq(Notis)
    BY <1>2, <2>1 DEF FilterDone
  <2>3. filters' \in Nat
    BY <2>1, SMT DEF FilterDone
  <2>4. QED BY <2>1, <2>2, <2>3 DEF FilterDone
<1>8. QED BY <1>3, <1>4, <1>5, <1>6, <1>7 DEF MainWorkerStep

LEMMA TypeWorker == Types /\ RecordWorkerStep => Types'
<1> SUFFICES ASSUME Types, RecordWorkerStep
             PROVE  Types'
  OBVIOUS
<1> USE DEF Types, core, channels, worker, history, WorkerStep, Places
<1>1. ASSUME NEW cmd \in Requests \cup {"FILTER"}, NEW ok \in BOOLEAN
      PROVE  Append(toCore, Noti(cmd, ok)) \in Seq(Notis)
  BY NotiType
<1>2. CASE BeginSession \/ AbortSession \/ LoopSeesStop \/ FinishSession
  BY <1>2 DEF BeginSession, AbortSession, LoopSeesStop, FinishSession
<1>3. CASE InitAlsaFails \/ InitAlsaSucceeds
  BY <1>1, <1>3 DEF InitAlsaFails, InitAlsaSucceeds, Requests
<1>4. ASSUME NEW why \in EarlyEnds, LoopEndsEarly(why)
      PROVE  Types'
  BY <1>4 DEF LoopEndsEarly
<1>5. CASE ReportCaptureError \/ ReportCancel \/ ReportNotSaved
  BY <1>1, <1>5 DEF ReportCaptureError, ReportCancel, ReportNotSaved, Requests
<1>6. CASE ReportSaved
  BY <1>1, <1>6 DEF ReportSaved, Requests
<1>7. CASE PushFilterEvent
  <2>1. Append(toRecord, "FILTER") \in Seq(Requests \cup {"FILTER"})
    OBVIOUS
  <2>2. QED BY <1>7, <2>1 DEF PushFilterEvent
<1>8. QED
  BY <1>2, <1>3, <1>4, <1>5, <1>6, <1>7 DEF RecordWorkerStep

LEMMA TypeStep == Types /\ [Next]_vars => Types'
<1> SUFFICES ASSUME Types, [Next]_vars
             PROVE  Types'
  OBVIOUS
<1>1. CASE Crash
  <2>1. crashes' \in 0 .. MaxCrashes /\ filters' \in Nat
    BY <1>1, SMT DEF Types, Crash
  <2>2. toRecord' \in Seq(Requests \cup {"FILTER"})
    BY <1>1 DEF Crash
  <2>3. QED BY <1>1, <2>1, <2>2 DEF Types, Crash, core, Places
<1>4. CASE Restart
  BY <1>4 DEF Types, Restart, core, channels, worker, history, Places
<1>2. CASE UNCHANGED vars
  BY <1>2 DEF Types, vars, core, channels, worker, history
<1>3. QED
  BY <1>1, <1>2, <1>4, TypeCore, TypeRecord, TypeWorker DEF Next

LEMMA TypesHold == Spec => []Types
BY TypeInit, TypeStep, PTL DEF Spec

-----------------------------------------------------------------------------
(* Filter threads.  Every START that is on its way, accepted or served, and *)
(* every filter event and thread, is due to a request of its own.           *)

Hits(s, P) == {i \in 1 .. Len(s) : s[i] \in P}
Count(s)   == Cardinality(Hits(s, {"START", "FILTER"}))
Serving    == place \in {"starting", "capturing", "ended", "saved"}

Earned ==
  /\ Count(toRecord) + One(unserved) + One(Serving) + filters <= requests
  /\ place = "waiting" /\ state = "RECORDING" => unserved

LEMMA CountType ==
  ASSUME NEW S, NEW s \in Seq(S)
  PROVE  /\ IsFiniteSet(Hits(s, {"START", "FILTER"})) /\ Count(s) \in Nat
         /\ s = <<>> => Count(s) = 0
<1>1. IsFiniteSet(1 .. Len(s)) /\ Hits(s, {"START", "FILTER"}) \subseteq 1 .. Len(s)
  BY FS_Interval DEF Hits
<1>2. IsFiniteSet(Hits(s, {"START", "FILTER"})) /\ Count(s) \in Nat
  BY <1>1, FS_Subset, FS_CardinalityType DEF Count
<1>3. ASSUME s = <<>>
      PROVE  Count(s) = 0
  <2>1. Hits(s, {"START", "FILTER"}) = {}
    BY <1>3 DEF Hits
  <2>2. QED BY <2>1, FS_EmptySet DEF Count
<1>4. QED BY <1>2, <1>3

LEMMA CountAppend ==
  ASSUME NEW S, NEW s \in Seq(S), NEW e \in S
  PROVE  Count(Append(s, e)) = Count(s) + One(e \in {"START", "FILTER"})
<1> DEFINE P == {"START", "FILTER"}
           t == Append(s, e)
<1>1. /\ Len(t) = Len(s) + 1 /\ Len(s) \in Nat /\ t[Len(s) + 1] = e
      /\ \A i \in 1 .. Len(s) : t[i] = s[i]
  BY AppendProperties
<1>2. 1 .. Len(t) = (1 .. Len(s)) \cup {Len(s) + 1} /\ Len(s) + 1 \notin 1 .. Len(s)
  BY <1>1
<1> HIDE DEF t
<1>3. /\ Hits(t, P) = IF e \in P THEN Hits(s, P) \cup {Len(s) + 1} ELSE Hits(s, P)
      /\ Len(s) + 1 \notin Hits(s, P)
  BY <1>1, <1>2 DEF Hits
<1>4. IsFiniteSet(Hits(s, P)) /\ Count(s) \in Nat
  BY CountType
<1>5. Count(t) = IF e \in P THEN Count(s) + 1 ELSE Count(s)
  BY <1>3, <1>4, FS_AddElement DEF Count
<1>6. QED BY <1>4, <1>5 DEF One, t

LEMMA CountTail ==
  ASSUME NEW S, NEW s \in Seq(S), s # <<>>
  PROVE  Count(Tail(s)) + One(Head(s) \in {"START", "FILTER"}) <= Count(s)
<1> DEFINE P == {"START", "FILTER"}
           t == Tail(s)
           f == [i \in Hits(s, P) \ {1} |-> i - 1]
<1>1. /\ Len(s) = Len(t) + 1 /\ Len(t) \in Nat /\ Head(s) = s[1] /\ t \in Seq(S)
      /\ \A i \in 1 .. Len(t) : t[i] = s[i + 1]
  BY HeadTailProperties
<1> HIDE DEF t
<1>2. \A i \in Hits(t, P) : i + 1 \in Hits(s, P) \ {1} /\ (i + 1) - 1 = i
  BY <1>1 DEF Hits
<1>3. \A i \in Hits(s, P) \ {1} : i - 1 \in Hits(t, P)
  BY <1>1 DEF Hits
<1>4. f \in Surjection(Hits(s, P) \ {1}, Hits(t, P))
  <2>1. f \in [Hits(s, P) \ {1} -> Hits(t, P)]
    BY <1>3
  <2>2. \A j \in Hits(t, P) : \E i \in Hits(s, P) \ {1} : f[i] = j
    BY <1>2
  <2>3. QED BY <2>1, <2>2 DEF Surjection
<1>5. IsFiniteSet(Hits(s, P)) /\ Count(s) \in Nat /\ Count(t) \in Nat
  BY <1>1, CountType
<1>6. /\ IsFiniteSet(Hits(s, P) \ {1})
      /\ Cardinality(Hits(s, P) \ {1}) = IF 1 \in Hits(s, P) THEN Count(s) - 1 ELSE Count(s)
  BY <1>5, FS_RemoveElement DEF Count
<1> HIDE DEF f
<1>7. Count(t) <= Cardinality(Hits(s, P) \ {1})
  BY <1>4, <1>6, FS_Surjection DEF Count
<1>8. Head(s) \in P <=> 1 \in Hits(s, P)
  BY <1>1 DEF Hits
<1>9. QED BY <1>5, <1>6, <1>7, <1>8 DEF One, t

LEMMA EarnedInit == Init => Earned
<1> SUFFICES ASSUME Init
             PROVE  Earned
  OBVIOUS
<1>1. Count(toRecord) = 0
  BY CountType, EmptySeq DEF Init
<1>2. QED BY <1>1 DEF Init, Earned, One, Serving

LEMMA EarnedStep == Types /\ Earned /\ [Next]_vars => Earned'
<1> SUFFICES ASSUME Types, Earned, [Next]_vars
             PROVE  Earned'
  OBVIOUS
<1>1. /\ toRecord \in Seq(Requests \cup {"FILTER"}) /\ Count(toRecord) \in Nat
      /\ filters \in Nat /\ requests \in Nat /\ unserved \in BOOLEAN
      /\ \A b \in BOOLEAN : One(b) \in {0, 1}
  BY CountType DEF Types, One
<1>2. CASE UNCHANGED vars
  BY <1>2 DEF vars, core, channels, worker, history, Earned, Count, Hits, Serving
<1>3. ASSUME NEW cmd \in Requests, NEW from, Forward(cmd, from)
      PROVE  Earned'
  <2>1. /\ requests' = requests + 1 /\ toRecord' \in {toRecord, Append(toRecord, cmd)}
        /\ UNCHANGED <<unserved, place, state, filters>>
    BY <1>3 DEF Forward, SendToRecord, worker, history
  <2>2. Count(toRecord') \in {Count(toRecord), Count(toRecord) + 1}
    <3>1. Count(Append(toRecord, cmd)) = Count(toRecord) + One(cmd \in {"START", "FILTER"})
      BY <1>1, CountAppend
    <3>2. PICK n \in {0, 1} : n = One(cmd \in {"START", "FILTER"})
      BY DEF One
    <3>3. Count(Append(toRecord, cmd)) \in {Count(toRecord), Count(toRecord) + 1}
      BY <1>1, <3>1, <3>2
    <3>4. CASE toRecord' = toRecord
      BY <3>4
    <3>5. CASE toRecord' = Append(toRecord, cmd)
      BY <3>3, <3>5
    <3>6. QED BY <2>1, <3>4, <3>5
  <2>3. QED BY <1>1, <2>1, <2>2 DEF Earned, One, Serving
<1>4. CASE CoreStep
  BY <1>4 DEF CoreStep, StartRecordNOTI, StopRecordNOTI, CancelRecordNOTI, FilterWavFileNOTI,
              ReceiveNoti, worker, history, Earned, Count, Hits, Serving
<1>5. ASSUME NEW event, Take(event)
      PROVE  /\ Count(toRecord') \in Nat /\ UNCHANGED requests
             /\ Count(toRecord') + One(event \in {"START", "FILTER"}) <= Count(toRecord)
  <2>1. toRecord # <<>> /\ Head(toRecord) = event /\ toRecord' = Tail(toRecord) /\ UNCHANGED requests
    BY <1>5 DEF Take, core
  <2>2. toRecord' \in Seq(Requests \cup {"FILTER"})
    BY <1>1, <2>1, HeadTailProperties
  <2>3. QED BY <1>1, <2>1, <2>2, CountType, CountTail
<1>6. CASE StartRecording
  <2>1. Count(toRecord') \in Nat /\ UNCHANGED requests /\ Count(toRecord') + 1 <= Count(toRecord)
    BY <1>5, <1>6 DEF StartRecording, One
  <2>2. /\ UNCHANGED <<place, filters>>
        /\ (state' = state /\ unserved' = unserved) \/ unserved' = TRUE
    BY <1>6 DEF StartRecording
  <2>3. QED BY <1>1, <2>1, <2>2 DEF Earned, One, Serving
<1>7. CASE StopRecording \/ CancelRecording
  <2>1. Count(toRecord') \in Nat /\ UNCHANGED requests /\ Count(toRecord') <= Count(toRecord)
    <3>1. PICK event \in {"STOP", "CANCEL"} : Take(event)
      BY <1>7 DEF StopRecording, CancelRecording
    <3>2. One(event \in {"START", "FILTER"}) = 0
      BY DEF One
    <3>3. QED BY <1>1, <1>5, <3>1, <3>2
  <2>2. UNCHANGED <<place, filters, unserved>> /\ state' \in {state, "IDLE"}
    BY <1>7 DEF StopRecording, CancelRecording
  <2>3. QED BY <1>1, <2>1, <2>2 DEF Earned, One, Serving
<1>8. CASE FilterWavFile
  <2>1. Count(toRecord') \in Nat /\ UNCHANGED requests /\ Count(toRecord') + 1 <= Count(toRecord)
    BY <1>5, <1>8 DEF FilterWavFile, One
  <2>2. filters' = filters + 1 /\ UNCHANGED <<place, state, unserved>>
    BY <1>8 DEF FilterWavFile, worker, history
  <2>3. QED BY <1>1, <2>1, <2>2 DEF Earned, One, Serving
<1>9. CASE FilterStep
  <2>1. /\ filters' = filters - 1 /\ UNCHANGED <<toRecord, requests, place, state, unserved>>
    BY <1>9 DEF FilterStep, FilterDone, core, worker, history
  <2>2. QED BY <1>1, <2>1 DEF Earned, One, Serving
<1>10. CASE BeginSession
  <2>1. /\ place = "waiting" /\ state = "RECORDING" /\ place' = "starting" /\ unserved' = FALSE
        /\ UNCHANGED <<toRecord, requests, filters>>
    BY <1>10 DEF BeginSession, WorkerStep, core, channels
  <2>2. QED BY <1>1, <2>1 DEF Earned, One, Serving
<1>11. CASE PushFilterEvent
  <2>1. /\ place = "saved" /\ place' = "cleanup" /\ toRecord' = Append(toRecord, "FILTER")
        /\ UNCHANGED <<unserved, requests, filters>>
    BY <1>11 DEF PushFilterEvent, WorkerStep, core
  <2>2. Count(toRecord') = Count(toRecord) + 1
    BY <1>1, <2>1, CountAppend DEF One
  <2>3. QED BY <1>1, <2>1, <2>2 DEF Earned, One, Serving
<1>12. CASE AbortSession \/ FinishSession
  <2>1. /\ state' = "IDLE" /\ place' = "waiting" /\ UNCHANGED <<toRecord, unserved, requests, filters>>
    BY <1>12 DEF AbortSession, FinishSession, WorkerStep, core, channels
  <2>2. QED BY <1>1, <2>1 DEF Earned, One, Serving
<1>13. CASE RecordWorkerStep /\ ~ (BeginSession \/ PushFilterEvent \/ AbortSession \/ FinishSession)
  <2>1. /\ UNCHANGED <<toRecord, unserved, requests, filters>> /\ place' # "waiting"
        /\ place' \in {"capturing", "ended", "saved"} => Serving
        /\ place' # "starting"
    BY <1>13 DEF RecordWorkerStep, InitAlsaFails, InitAlsaSucceeds, LoopSeesStop, LoopEndsEarly,
                 ReportCaptureError, ReportCancel, ReportNotSaved, ReportSaved, WorkerStep, core,
                 channels, Serving
  <2>2. QED BY <1>1, <2>1 DEF Earned, One, Serving
<1>14. CASE Crash
  <2>1. /\ toRecord' = <<>> /\ filters' = 0 /\ state' = "IDLE" /\ place' = "waiting"
        /\ unserved' = FALSE /\ UNCHANGED requests
    BY <1>14 DEF Crash, core
  <2>2. Count(toRecord') = 0
    BY <2>1, CountType, EmptySeq
  <2>3. QED BY <1>1, <2>1, <2>2 DEF Earned, One, Serving
<1>15. CASE Restart
  BY <1>15 DEF Restart, core, channels, worker, history, Earned, Count, Hits, Serving
<1>16. ClientRequest => \E cmd \in Requests, from \in {"STOPPED", "RECORDING"} : Forward(cmd, from)
  BY DEF ClientRequest, StartRecord, StopRecord, CancelRecord, Requests
<1>17. QED
  BY <1>2, <1>3, <1>4, <1>6, <1>7, <1>8, <1>9, <1>10, <1>11, <1>12, <1>13, <1>14, <1>15, <1>16
     DEF Next, MainWorkerStep

\* Both daemons' variables keep their types, through crashes and restarts too; and there are
\* never more filter threads than requests, although nothing counts them.
THEOREM TypeCorrect == Spec => []TypeOK
<1>1. Types /\ Earned => TypeOK
  <2> SUFFICES ASSUME Types, Earned
               PROVE  TypeOK
    OBVIOUS
  <2>1. Count(toRecord) \in Nat /\ filters \in Nat /\ requests \in Nat
    BY CountType DEF Types
  <2>2. One(unserved) \in {0, 1} /\ One(Serving) \in {0, 1}
    BY DEF One
  <2>3. filters \in 0 .. requests
    BY <2>1, <2>2 DEF Earned
  <2>4. QED BY <2>3 DEF Types, TypeOK
<1>2. QED BY <1>1, EarnedInit, EarnedStep, TypesHold, PTL DEF Spec

-----------------------------------------------------------------------------
(* No phantom recording.  NoPhantomRecording alone is not inductive: the    *)
(* state it talks about is set by a START notification sent earlier, so the *)
(* promise has to travel with that notification.                            *)

Live == place \in {"capturing", "ended"}

\* Behind every "recording started" still on its way there is a worker that
\* has yet to report the end, or the report itself.
StartsAreCovered ==
  \A i \in 1 .. Len(toCore) :
    toCore[i] = Noti("START", TRUE) =>
      Live \/ \E j \in i + 1 .. Len(toCore) : Ends(toCore[j])

PhantomInv == crashes = 0 => NoPhantomRecording /\ StartsAreCovered

\* What Append does to the notifications on their way.
LEMMA AppendNoti ==
  ASSUME NEW s \in Seq(Notis), NEW n \in Notis, NEW t, t = Append(s, n)
  PROVE  /\ Len(t) = Len(s) + 1 /\ Len(s) \in Nat
         /\ t[Len(s) + 1] = n
         /\ \A i \in 1 .. Len(s) : t[i] = s[i]
BY AppendProperties

\* What Tail does to them.
LEMMA TailNoti ==
  ASSUME NEW s \in Seq(Notis), s # <<>>, NEW t, t = Tail(s)
  PROVE  /\ Len(s) = Len(t) + 1 /\ Len(t) \in Nat
         /\ Head(s) = s[1]
         /\ \A i \in 1 .. Len(t) : t[i] = s[i + 1]
BY HeadTailProperties

\* The promise holds of every notification when the worker reports an end.
LEMMA EndReported ==
  ASSUME Types, NEW n \in Notis, Ends(n), toCore' = Append(toCore, n)
  PROVE  PhantomInv'
<1>1. /\ Len(toCore') = Len(toCore) + 1 /\ Len(toCore) \in Nat
      /\ toCore'[Len(toCore) + 1] = n
      /\ \A i \in 1 .. Len(toCore) : toCore'[i] = toCore[i]
  BY AppendNoti DEF Types
<1>2. ~ (n = Noti("START", TRUE))
  BY DEF Ends, Noti
<1>3. NoPhantomRecording'
  BY <1>1 DEF NoPhantomRecording
<1>4. StartsAreCovered'
  <2> SUFFICES ASSUME NEW i \in 1 .. Len(toCore'), toCore'[i] = Noti("START", TRUE)
               PROVE  \E j \in i + 1 .. Len(toCore') : Ends(toCore'[j])
    BY DEF StartsAreCovered
  <2>1. i # Len(toCore) + 1
    BY <1>1, <1>2
  <2>2. Len(toCore) + 1 \in i + 1 .. Len(toCore')
    BY <1>1, <2>1
  <2>3. QED BY <1>1, <2>2
<1>5. QED BY <1>3, <1>4 DEF PhantomInv

\* Any other notification leaves it alone, if the worker stays live when it was
\* and is live when it has said that a recording started.
LEMMA OtherReported ==
  ASSUME Types, PhantomInv, NEW n \in Notis, toCore' = Append(toCore, n),
         UNCHANGED <<RECORD_STATE, crashes>>,
         Live => Live', n = Noti("START", TRUE) => Live'
  PROVE  PhantomInv'
<1>1. /\ Len(toCore') = Len(toCore) + 1 /\ Len(toCore) \in Nat
      /\ toCore'[Len(toCore) + 1] = n
      /\ \A i \in 1 .. Len(toCore) : toCore'[i] = toCore[i]
  BY AppendNoti DEF Types
<1> SUFFICES ASSUME crashes = 0
             PROVE  NoPhantomRecording' /\ StartsAreCovered'
  BY DEF PhantomInv
<1>2. NoPhantomRecording /\ StartsAreCovered
  BY DEF PhantomInv
<1>3. NoPhantomRecording'
  <2> SUFFICES ASSUME RECORD_STATE = "RECORDING"
               PROVE  Live' \/ \E i \in 1 .. Len(toCore') : Ends(toCore'[i])
    BY DEF NoPhantomRecording, Live
  <2>1. CASE Live
    BY <2>1
  <2>2. CASE \E i \in 1 .. Len(toCore) : Ends(toCore[i])
    <3>1. PICK i \in 1 .. Len(toCore) : Ends(toCore[i])
      BY <2>2
    <3>2. i \in 1 .. Len(toCore') /\ toCore'[i] = toCore[i]
      BY <1>1
    <3>3. QED BY <3>1, <3>2
  <2>3. QED BY <1>2, <2>1, <2>2 DEF NoPhantomRecording, Live
<1>4. StartsAreCovered'
  <2> SUFFICES ASSUME NEW i \in 1 .. Len(toCore'), toCore'[i] = Noti("START", TRUE)
               PROVE  Live' \/ \E j \in i + 1 .. Len(toCore') : Ends(toCore'[j])
    BY DEF StartsAreCovered
  <2>1. CASE i = Len(toCore) + 1
    BY <1>1, <2>1
  <2>2. CASE i \in 1 .. Len(toCore)
    <3>1. toCore[i] = Noti("START", TRUE)
      BY <1>1, <2>2
    <3>2. CASE Live
      BY <3>2
    <3>3. CASE \E j \in i + 1 .. Len(toCore) : Ends(toCore[j])
      <4>1. PICK j \in i + 1 .. Len(toCore) : Ends(toCore[j])
        BY <3>3
      <4>2. j \in i + 1 .. Len(toCore') /\ j \in 1 .. Len(toCore)
        BY <1>1, <2>2
      <4>3. toCore'[j] = toCore[j]
        BY <1>1, <4>2
      <4>4. QED BY <4>1, <4>2, <4>3
    <3>4. QED BY <1>2, <2>2, <3>1, <3>2, <3>3 DEF StartsAreCovered
  <2>3. QED BY <1>1, <2>1, <2>2
<1>5. QED BY <1>3, <1>4

\* RecordHandler consumes a notification: if it now shows a recording, the
\* promise that came with the notification becomes NoPhantomRecording.
LEMMA Consumed ==
  ASSUME Types, PhantomInv, NEW cmd, ReceiveNoti(cmd),
         RECORD_STATE' = "RECORDING" =>
           \/ Head(toCore) = Noti("START", TRUE)
           \/ RECORD_STATE = "RECORDING" /\ ~ Ends(Head(toCore))
  PROVE  PhantomInv'
<1>1. /\ Len(toCore) = Len(toCore') + 1 /\ Len(toCore') \in Nat
      /\ Head(toCore) = toCore[1]
      /\ \A i \in 1 .. Len(toCore') : toCore'[i] = toCore[i + 1]
  BY TailNoti DEF Types, ReceiveNoti
<1>2. crashes' = crashes /\ Live' = Live
  BY DEF ReceiveNoti, worker, Live
<1> SUFFICES ASSUME crashes = 0
             PROVE  NoPhantomRecording' /\ StartsAreCovered'
  BY <1>2 DEF PhantomInv
<1>3. NoPhantomRecording /\ StartsAreCovered
  BY DEF PhantomInv
<1>4. ASSUME NEW k \in 2 .. Len(toCore), Ends(toCore[k])
      PROVE  k - 1 \in 1 .. Len(toCore') /\ Ends(toCore'[k - 1])
  <2>1. k - 1 \in 1 .. Len(toCore') /\ (k - 1) + 1 = k
    BY <1>1
  <2>2. toCore'[k - 1] = toCore[k]
    BY <1>1, <2>1
  <2>3. QED BY <1>4, <2>1, <2>2
<1>5. NoPhantomRecording'
  <2> SUFFICES ASSUME RECORD_STATE' = "RECORDING", ~ Live
               PROVE  \E i \in 1 .. Len(toCore') : Ends(toCore'[i])
    BY <1>2 DEF NoPhantomRecording, Live
  <2>1. \E k \in 2 .. Len(toCore) : Ends(toCore[k])
    <3>1. CASE Head(toCore) = Noti("START", TRUE)
      <4>1. 1 \in 1 .. Len(toCore)
        BY <1>1
      <4>2. \E k \in 1 + 1 .. Len(toCore) : Ends(toCore[k])
        BY <1>1, <1>3, <3>1, <4>1 DEF StartsAreCovered
      <4>3. QED BY <4>2
    <3>2. CASE RECORD_STATE = "RECORDING" /\ ~ Ends(toCore[1])
      <4>1. PICK k \in 1 .. Len(toCore) : Ends(toCore[k])
        BY <1>3, <3>2 DEF NoPhantomRecording, Live
      <4>2. k \in 2 .. Len(toCore)
        BY <1>1, <3>2, <4>1
      <4>3. QED BY <4>1, <4>2
    <3>3. QED BY <1>1, <3>1, <3>2
  <2>2. QED BY <1>4, <2>1
<1>6. StartsAreCovered'
  <2> SUFFICES ASSUME NEW i \in 1 .. Len(toCore'), toCore'[i] = Noti("START", TRUE), ~ Live
               PROVE  \E j \in i + 1 .. Len(toCore') : Ends(toCore'[j])
    BY <1>2 DEF StartsAreCovered
  <2>1. i + 1 \in 1 .. Len(toCore)
    BY <1>1
  <2>2. PICK k \in (i + 1) + 1 .. Len(toCore) : Ends(toCore[k])
    BY <1>1, <1>3, <2>1 DEF StartsAreCovered
  <2>3. k \in 2 .. Len(toCore)
    BY <2>2
  <2>4. k - 1 \in i + 1 .. Len(toCore')
    BY <1>1, <2>2
  <2>5. QED BY <1>4, <2>2, <2>3, <2>4
<1>7. QED BY <1>5, <1>6

\* Nothing is sent or consumed, and a live worker stays live.
LEMMA NothingReported ==
  ASSUME PhantomInv, UNCHANGED <<toCore, crashes>>, Live => Live',
         RECORD_STATE' = "RECORDING" => RECORD_STATE = "RECORDING"
  PROVE  PhantomInv'
BY DEF PhantomInv, NoPhantomRecording, StartsAreCovered, Live

LEMMA PhantomCore == Types /\ PhantomInv /\ (ClientRequest \/ CoreStep) => PhantomInv'
<1> SUFFICES ASSUME Types, PhantomInv, ClientRequest \/ CoreStep
             PROVE  PhantomInv'
  OBVIOUS
<1>1. ASSUME NEW cmd, NEW from, Forward(cmd, from)
      PROVE  PhantomInv'
  <2>1. UNCHANGED <<toCore, crashes, place>> /\ RECORD_STATE' = "PROCESSING"
    BY <1>1 DEF Forward, worker
  <2>2. QED BY <2>1, NothingReported DEF Live
<1>2. CASE StartRecordNOTI
  <2>1. ReceiveNoti("START") /\ Head(toCore) \in Notis
    BY <1>2, HeadTailProperties DEF StartRecordNOTI, ReceiveNoti, Types
  <2>2. RECORD_STATE' = "RECORDING" => Head(toCore) = Noti("START", TRUE)
    BY <1>2, <2>1 DEF StartRecordNOTI, ReceiveNoti, Noti, Notis
  <2>3. QED BY <2>1, <2>2, Consumed
<1>3. CASE StopRecordNOTI
  BY <1>3, Consumed DEF StopRecordNOTI
<1>4. CASE CancelRecordNOTI
  BY <1>4, Consumed DEF CancelRecordNOTI
<1>5. CASE FilterWavFileNOTI
  <2>1. ReceiveNoti("FILTER") /\ ~ Ends(Head(toCore)) /\ RECORD_STATE' = RECORD_STATE
    BY <1>5 DEF FilterWavFileNOTI, ReceiveNoti, Ends
  <2>2. QED BY <2>1, Consumed
<1>6. QED
  BY <1>1, <1>2, <1>3, <1>4, <1>5
     DEF ClientRequest, StartRecord, StopRecord, CancelRecord, CoreStep

LEMMA PhantomRecord == Types /\ PhantomInv /\ (MainWorkerStep \/ FilterStep) => PhantomInv'
<1> SUFFICES ASSUME Types, PhantomInv, MainWorkerStep \/ FilterStep
             PROVE  PhantomInv'
  OBVIOUS
<1> USE DEF Take, core, worker, Live, Requests
<1>1. ASSUME NEW cmd \in {"START", "STOP", "CANCEL", "FILTER"}, NEW ok \in BOOLEAN,
             cmd = "START" => ok = FALSE,
             toCore' = Append(toCore, Noti(cmd, ok)),
             UNCHANGED <<RECORD_STATE, crashes, place>>
      PROVE  PhantomInv'
  <2>1. Noti(cmd, ok) \in Notis
    BY NotiType
  <2>2. Noti(cmd, ok) # Noti("START", TRUE)
    BY <1>1 DEF Noti
  <2>3. QED BY <1>1, <2>1, <2>2, OtherReported
<1>2. ASSUME UNCHANGED <<RECORD_STATE, crashes, place, toCore>>
      PROVE  PhantomInv'
  BY <1>2, NothingReported
<1>3. CASE StartRecording
  BY <1>1, <1>2, <1>3 DEF StartRecording
<1>4. CASE StopRecording
  BY <1>1, <1>2, <1>4 DEF StopRecording
<1>5. CASE CancelRecording
  BY <1>1, <1>2, <1>5 DEF CancelRecording
<1>6. CASE FilterWavFile
  BY <1>2, <1>6 DEF FilterWavFile
<1>7. CASE FilterStep
  BY <1>1, <1>7 DEF FilterStep, FilterDone
<1>8. QED BY <1>3, <1>4, <1>5, <1>6, <1>7 DEF MainWorkerStep

LEMMA PhantomWorker == Types /\ PhantomInv /\ RecordWorkerStep => PhantomInv'
<1> SUFFICES ASSUME Types, PhantomInv, RecordWorkerStep
             PROVE  PhantomInv'
  OBVIOUS
<1> USE DEF WorkerStep, core, channels
<1>1. CASE BeginSession \/ AbortSession \/ LoopSeesStop \/ FinishSession \/ PushFilterEvent
  <2>1. UNCHANGED <<RECORD_STATE, crashes, toCore>> /\ (Live => Live')
    BY <1>1 DEF BeginSession, AbortSession, LoopSeesStop, FinishSession,
                PushFilterEvent, Live
  <2>2. QED BY <2>1, NothingReported
<1>2. ASSUME NEW why \in EarlyEnds, LoopEndsEarly(why)
      PROVE  PhantomInv'
  <2>1. UNCHANGED <<RECORD_STATE, crashes, toCore>> /\ Live'
    BY <1>2 DEF LoopEndsEarly, Live
  <2>2. QED BY <2>1, NothingReported
<1>3. CASE InitAlsaFails
  <2>1. Noti("START", FALSE) \in Notis /\ Noti("START", FALSE) # Noti("START", TRUE)
    BY DEF Noti, Notis, Requests
  <2>2. /\ UNCHANGED <<RECORD_STATE, crashes>> /\ ~ Live
        /\ toCore' = Append(toCore, Noti("START", FALSE))
    BY <1>3 DEF InitAlsaFails, Live
  <2>3. QED BY <2>1, <2>2, OtherReported
<1>4. CASE InitAlsaSucceeds
  <2>1. Noti("START", TRUE) \in Notis
    BY DEF Noti, Notis, Requests
  <2>2. /\ UNCHANGED <<RECORD_STATE, crashes>> /\ Live'
        /\ toCore' = Append(toCore, Noti("START", TRUE))
    BY <1>4 DEF InitAlsaSucceeds, Live
  <2>3. QED BY <2>1, <2>2, OtherReported
<1>5. ASSUME NEW cmd \in {"STOP", "CANCEL"}, NEW ok \in BOOLEAN,
             toCore' = Append(toCore, Noti(cmd, ok))
      PROVE  PhantomInv'
  <2>1. Noti(cmd, ok) \in Notis /\ Ends(Noti(cmd, ok))
    BY DEF Noti, Notis, Requests, Ends
  <2>2. QED BY <1>5, <2>1, EndReported
<1>6. CASE ReportCaptureError \/ ReportCancel \/ ReportNotSaved \/ ReportSaved
  BY <1>5, <1>6 DEF ReportCaptureError, ReportCancel, ReportNotSaved, ReportSaved
<1>7. QED BY <1>1, <1>2, <1>3, <1>4, <1>6 DEF RecordWorkerStep

\* The strengthened invariant: it starts true, every step keeps it, and it
\* contains NoPhantomRecording.
LEMMA PhantomInductive ==
  /\ Init => PhantomInv
  /\ Types /\ PhantomInv /\ [Next]_vars => PhantomInv'
  /\ PhantomInv => NoPhantomRecording
<1>1. Init => PhantomInv
  BY DEF Init, PhantomInv, NoPhantomRecording, StartsAreCovered
<1>2. ASSUME Types, PhantomInv, [Next]_vars
      PROVE  PhantomInv'
  <2>1. CASE Crash
    <3>1. crashes' # 0
      BY <1>2, <2>1, SMT DEF Crash, Types
    <3>2. QED BY <3>1 DEF PhantomInv
  <2>2. CASE Restart \/ UNCHANGED vars
    <3>1. UNCHANGED <<RECORD_STATE, toCore, crashes, place>>
      BY <2>2 DEF Restart, vars, core, channels, worker
    <3>2. QED BY <1>2, <3>1, NothingReported DEF Live
  <2>3. QED
    BY <1>2, <2>1, <2>2, PhantomCore, PhantomRecord, PhantomWorker DEF Next
<1>3. PhantomInv => NoPhantomRecording
  BY DEF PhantomInv, NoPhantomRecording
<1>4. QED BY <1>1, <1>2, <1>3

\* RecordHandler never shows a recording that is over for good, however the
\* requests, the automatic end and capture errors cross.
THEOREM NoPhantom == Spec => []NoPhantomRecording
BY TypeInit, TypeStep, PhantomInductive, PTL DEF Spec

-----------------------------------------------------------------------------
(* The exchange is in one of five phases; RecordHandler is PROCESSING in    *)
(* all of them but the first.                                              *)

Single(X) == \E i \in X : X = {i}

Quiet == /\ Requested = {} /\ Answered = {} /\ ~ Starting /\ ~ Stopping

AskedOnce == /\ Single(Requested)
             /\ Answered = {} /\ ~ Starting /\ ~ Stopping

AnsweredOnce == /\ Single(Answered)
                /\ Requested = {} /\ ~ Starting /\ ~ Stopping

OnlyStarting == Starting /\ ~ Stopping /\ Requested = {} /\ Answered = {}

OnlyStopping == Stopping /\ ~ Starting /\ Requested = {} /\ Answered = {}

Phases == IF RECORD_STATE = "PROCESSING"
          THEN AskedOnce \/ AnsweredOnce \/ OnlyStarting \/ OnlyStopping
          ELSE Quiet

\* A session that nobody has asked to end.
Running == place = "capturing" /\ asked = "nothing" /\ state = "RECORDING"

\* What RecordHandler shows, asks for and is told agrees with the worker.
Follows ==
  /\ RECORD_STATE = "RECORDING" => Running
  /\ \A i \in 1 .. Len(toRecord) : toRecord[i] \in {"STOP", "CANCEL"} => Running
  /\ \A i \in 1 .. Len(toCore) : toCore[i] = Noti("START", TRUE) => Running

\* Where the worker is tells what it was told.
Obeys ==
  /\ place = "starting" => state = "RECORDING" /\ asked = "nothing" /\ ~ unserved
  /\ place = "capturing" /\ asked = "nothing" => state = "RECORDING"
  /\ place = "ended" => asked # "nothing"
  /\ place = "waiting" /\ state = "RECORDING" => unserved
  /\ place \in {"capturing", "ended"} /\ asked = "cancel" => cancelRequested

ExchangeInv == Calm => up /\ Phases /\ Follows /\ Obeys

-----------------------------------------------------------------------------
(* Where in a channel the elements of some kind are, when it grows or       *)
(* shrinks by one.                                                          *)

\* What is sent comes last and is the only new element.
LEMMA HitsAppend ==
  ASSUME NEW S, NEW P, NEW s \in Seq(S), NEW e \in S, NEW t, t = Append(s, e)
  PROVE  /\ e \notin P => Hits(t, P) = Hits(s, P)
         /\ e \in P /\ Hits(s, P) = {} => Single(Hits(t, P))
<1>1. /\ Len(t) = Len(s) + 1 /\ Len(s) \in Nat
      /\ t[Len(s) + 1] = e
      /\ \A i \in 1 .. Len(s) : t[i] = s[i]
  BY AppendProperties
<1>2. 1 .. Len(t) = (1 .. Len(s)) \cup {Len(s) + 1}
  BY <1>1
<1>3. ASSUME e \notin P
      PROVE  Hits(t, P) = Hits(s, P)
  BY <1>1, <1>2, <1>3 DEF Hits
<1>4. ASSUME e \in P, Hits(s, P) = {}
      PROVE  Single(Hits(t, P))
  <2>1. Hits(t, P) = {Len(s) + 1}
    BY <1>1, <1>2, <1>4 DEF Hits
  <2>2. QED BY <2>1 DEF Single
<1>5. QED BY <1>3, <1>4

\* What is taken was first; a single element of the kind leaves none behind.
LEMMA HitsTail ==
  ASSUME NEW S, NEW P, NEW s \in Seq(S), s # <<>>, NEW t, t = Tail(s)
  PROVE  /\ Head(s) \in P => Hits(s, P) # {} /\ (Single(Hits(s, P)) => Hits(t, P) = {})
         /\ Head(s) \notin P => /\ Hits(s, P) = {} => Hits(t, P) = {}
                                /\ Single(Hits(s, P)) => Single(Hits(t, P))
<1>1. /\ Len(s) = Len(t) + 1 /\ Len(t) \in Nat /\ Head(s) = s[1]
      /\ \A i \in 1 .. Len(t) : t[i] = s[i + 1]
  BY HeadTailProperties
<1>2. \A i \in Hits(t, P) : i + 1 \in Hits(s, P) /\ i \in Nat \ {0}
  BY <1>1 DEF Hits
<1>3. ASSUME NEW i \in Hits(s, P), i # 1
      PROVE  i - 1 \in Hits(t, P)
  BY <1>1, <1>3 DEF Hits
<1>4. Head(s) \in P <=> 1 \in Hits(s, P)
  BY <1>1 DEF Hits
<1>5. ASSUME 1 \in Hits(s, P), Single(Hits(s, P))
      PROVE  Hits(t, P) = {}
  <2>1. Hits(s, P) = {1}
    BY <1>5 DEF Single
  <2>2. \A i \in Nat \ {0} : i + 1 # 1
    OBVIOUS
  <2>3. QED BY <1>2, <2>1, <2>2
<1>6. ASSUME 1 \notin Hits(s, P), Single(Hits(s, P))
      PROVE  Single(Hits(t, P))
  <2>1. PICK i \in Hits(s, P) : Hits(s, P) = {i}
    BY <1>6 DEF Single
  <2>2. i - 1 \in Hits(t, P) /\ i \in Nat
    BY <1>3, <1>6, <2>1 DEF Hits
  <2>3. \A j \in Hits(t, P) : j = i - 1
    BY <1>2, <2>1, <2>2
  <2>4. QED BY <2>2, <2>3 DEF Single
<1>7. QED BY <1>2, <1>4, <1>5, <1>6

-----------------------------------------------------------------------------
(* The two channels.                                                        *)

Answers == {noti \in Notis : noti.cmd \in Requests}

\* The properties' way to count, in terms of Hits.
LEMMA AreHits ==
  /\ Requested = Hits(toRecord, Requests)
  /\ Types => Answered = Hits(toCore, Answers)
<1>1. ASSUME Types, NEW i \in 1 .. Len(toCore)
      PROVE  toCore[i] \in Notis
  BY <1>1, ElementOfSeq DEF Types
<1>2. QED BY <1>1 DEF Requested, Answered, Hits, Answers

\* A request or a filter event is sent to the record manager.
LEMMA Send ==
  ASSUME Types, NEW cmd \in Requests \cup {"FILTER"}, toRecord' = Append(toRecord, cmd)
  PROVE  /\ cmd = "FILTER" => Requested' = Requested
         /\ cmd \in Requests /\ Requested = {} => Single(Requested')
         /\ \A i \in 1 .. Len(toRecord') :
              toRecord'[i] = cmd \/ \E j \in 1 .. Len(toRecord) : toRecord[j] = toRecord'[i]
<1>1. toRecord \in Seq(Requests \cup {"FILTER"})
  BY DEF Types
<1>2. /\ cmd \notin Requests => Hits(toRecord', Requests) = Hits(toRecord, Requests)
      /\ cmd \in Requests /\ Hits(toRecord, Requests) = {} => Single(Hits(toRecord', Requests))
  BY <1>1, HitsAppend
<1>3. "FILTER" \notin Requests
  BY DEF Requests
<1>4. /\ Len(toRecord') = Len(toRecord) + 1 /\ Len(toRecord) \in Nat
      /\ toRecord'[Len(toRecord) + 1] = cmd
      /\ \A i \in 1 .. Len(toRecord) : toRecord'[i] = toRecord[i]
  BY <1>1, AppendProperties
<1>5. \A i \in 1 .. Len(toRecord') :
        toRecord'[i] = cmd \/ \E j \in 1 .. Len(toRecord) : toRecord[j] = toRecord'[i]
  BY <1>4
<1>6. QED BY <1>2, <1>3, <1>5 DEF Requested, Hits

\* The record manager's MainWorker takes an event.
LEMMA Taken ==
  ASSUME Types, NEW event, Take(event)
  PROVE  /\ event \in Requests => Requested # {} /\ (Single(Requested) => Requested' = {})
         /\ event \notin Requests => /\ Requested = {} => Requested' = {}
                                     /\ Single(Requested) => Single(Requested')
         /\ \E j \in 1 .. Len(toRecord) : toRecord[j] = event
         /\ \A i \in 1 .. Len(toRecord') :
              \E j \in 1 .. Len(toRecord) : toRecord[j] = toRecord'[i]
<1>1. /\ toRecord \in Seq(Requests \cup {"FILTER"}) /\ toRecord # <<>>
      /\ Head(toRecord) = event /\ toRecord' = Tail(toRecord)
  BY DEF Types, Take
<1>2. /\ event \in Requests =>
           /\ Hits(toRecord, Requests) # {}
           /\ Single(Hits(toRecord, Requests)) => Hits(toRecord', Requests) = {}
      /\ event \notin Requests =>
           /\ Hits(toRecord, Requests) = {} => Hits(toRecord', Requests) = {}
           /\ Single(Hits(toRecord, Requests)) => Single(Hits(toRecord', Requests))
  BY <1>1, HitsTail
<1>3. /\ Len(toRecord) = Len(toRecord') + 1 /\ Len(toRecord') \in Nat
      /\ toRecord[1] = event
      /\ \A i \in 1 .. Len(toRecord') : toRecord'[i] = toRecord[i + 1]
  BY <1>1, HeadTailProperties
<1>4. /\ \E j \in 1 .. Len(toRecord) : toRecord[j] = event
      /\ \A i \in 1 .. Len(toRecord') :
           \E j \in 1 .. Len(toRecord) : toRecord[j] = toRecord'[i]
  <2>1. 1 \in 1 .. Len(toRecord) /\ \A i \in 1 .. Len(toRecord') : i + 1 \in 1 .. Len(toRecord)
    BY <1>3
  <2>2. QED BY <1>3, <2>1
<1>5. QED BY <1>2, <1>4 DEF Requested, Hits

\* The record manager notifies.
LEMMA Notify ==
  ASSUME Types, NEW n \in Notis, toCore' = Append(toCore, n)
  PROVE  /\ n.cmd = "FILTER" => Answered' = Answered
         /\ n.cmd \in Requests /\ Answered = {} => Single(Answered')
         /\ \A i \in 1 .. Len(toCore') :
              toCore'[i] = n \/ \E j \in 1 .. Len(toCore) : toCore[j] = toCore'[i]
<1>1. /\ Len(toCore') = Len(toCore) + 1 /\ Len(toCore) \in Nat
      /\ toCore'[Len(toCore) + 1] = n
      /\ \A i \in 1 .. Len(toCore) : toCore'[i] = toCore[i]
  BY AppendNoti DEF Types
<1>2. 1 .. Len(toCore') = (1 .. Len(toCore)) \cup {Len(toCore) + 1}
  BY <1>1
<1>3. ASSUME n.cmd = "FILTER"
      PROVE  Answered' = Answered
  <2>1. n.cmd \notin Requests
    BY <1>3 DEF Requests
  <2>2. QED BY <1>1, <1>2, <2>1 DEF Answered
<1>4. ASSUME n.cmd \in Requests, Answered = {}
      PROVE  Single(Answered')
  <2>1. Answered' = {Len(toCore) + 1}
    BY <1>1, <1>2, <1>4 DEF Answered
  <2>2. QED BY <2>1 DEF Single
<1>5. QED BY <1>1, <1>2, <1>3, <1>4

\* RecordHandler takes a notification.
LEMMA Received ==
  ASSUME Types, Types', NEW cmd, ReceiveNoti(cmd)
  PROVE  /\ Head(toCore) \in Notis /\ Head(toCore).cmd = cmd
         /\ cmd \in Requests => Answered # {} /\ (Single(Answered) => Answered' = {})
         /\ cmd \notin Requests => /\ Answered = {} => Answered' = {}
                                   /\ Single(Answered) => Single(Answered')
         /\ \E j \in 1 .. Len(toCore) : toCore[j] = Head(toCore)
         /\ \A i \in 1 .. Len(toCore') :
              \E j \in 1 .. Len(toCore) : toCore[j] = toCore'[i]
<1>1. /\ toCore \in Seq(Notis) /\ toCore' \in Seq(Notis) /\ toCore # <<>>
      /\ Head(toCore).cmd = cmd /\ toCore' = Tail(toCore)
  BY DEF Types, ReceiveNoti
<1>2. Head(toCore) \in Notis
  BY <1>1, HeadTailProperties
<1>3. Head(toCore) \in Answers <=> cmd \in Requests
  BY <1>1, <1>2 DEF Answers
<1>4. /\ cmd \in Requests =>
           /\ Hits(toCore, Answers) # {}
           /\ Single(Hits(toCore, Answers)) => Hits(toCore', Answers) = {}
      /\ cmd \notin Requests =>
           /\ Hits(toCore, Answers) = {} => Hits(toCore', Answers) = {}
           /\ Single(Hits(toCore, Answers)) => Single(Hits(toCore', Answers))
  BY <1>1, <1>3, HitsTail
<1>5. Answered = Hits(toCore, Answers)
  BY AreHits
<1>6. Answered' = Hits(toCore', Answers)
  <2>1. \A i \in 1 .. Len(toCore') : toCore'[i] \in Notis
    BY <1>1, ElementOfSeq
  <2>2. QED BY <2>1 DEF Answered, Hits, Answers
<1>7. /\ Len(toCore) = Len(toCore') + 1 /\ Len(toCore') \in Nat
      /\ Head(toCore) = toCore[1]
      /\ \A i \in 1 .. Len(toCore') : toCore'[i] = toCore[i + 1]
  BY <1>1, TailNoti
<1>8. /\ 1 \in 1 .. Len(toCore)
      /\ \A i \in 1 .. Len(toCore') : i + 1 \in 1 .. Len(toCore)
  BY <1>7
<1>9. QED BY <1>1, <1>2, <1>4, <1>5, <1>6, <1>7, <1>8
-----------------------------------------------------------------------------
(* Every step keeps the exchange in a phase.                                *)

Good == Phases /\ Follows /\ Obeys

\* What comes off, or is not in, a channel cannot break what Follows says.
LEMMA FollowsOld ==
  ASSUME Follows, Running => Running', RECORD_STATE' = "RECORDING" => Running,
         \A i \in 1 .. Len(toRecord') :
           \/ toRecord'[i] \in {"STOP", "CANCEL"} => Running
           \/ \E j \in 1 .. Len(toRecord) : toRecord[j] = toRecord'[i],
         \A i \in 1 .. Len(toCore') :
           \/ toCore'[i] = Noti("START", TRUE) => Running'
           \/ \E j \in 1 .. Len(toCore) : toCore[j] = toCore'[i]
  PROVE  Follows'
<1>1. ASSUME NEW i \in 1 .. Len(toRecord'), toRecord'[i] \in {"STOP", "CANCEL"}
      PROVE  Running
  BY <1>1 DEF Follows
<1>2. ASSUME NEW i \in 1 .. Len(toCore'), toCore'[i] = Noti("START", TRUE)
      PROVE  Running'
  BY <1>2 DEF Follows
<1>3. QED BY <1>1, <1>2 DEF Follows

\* Without a request on the way and without an answer there is nothing to follow.
LEMMA FollowsNothing ==
  ASSUME RECORD_STATE' # "RECORDING", Requested' = {}, Answered' = {}
  PROVE  Follows'
<1>1. \A i \in 1 .. Len(toRecord') : toRecord'[i] \notin {"STOP", "CANCEL"}
  BY DEF Requested, Requests
<1>2. \A i \in 1 .. Len(toCore') : toCore'[i] # Noti("START", TRUE)
  <2>1. Noti("START", TRUE).cmd \in Requests
    BY DEF Noti, Requests
  <2>2. QED BY <2>1 DEF Answered
<1>3. QED BY <1>1, <1>2 DEF Follows

LEMMA GoodForward ==
  ASSUME Types, Good, NEW cmd \in Requests, NEW from, Forward(cmd, from), up,
         from # "PROCESSING", cmd = "START" \/ from = "RECORDING"
  PROVE  Good'
<1> USE DEF Forward, SendToRecord, worker, history
<1>1. Quiet
  BY DEF Good, Phases
<1>2. toRecord' = Append(toRecord, cmd)
  OBVIOUS
<1>3. /\ Single(Requested')
      /\ \A i \in 1 .. Len(toRecord') :
           toRecord'[i] = cmd \/ \E j \in 1 .. Len(toRecord) : toRecord[j] = toRecord'[i]
  BY <1>1, <1>2, Send DEF Quiet
<1>4. Answered' = Answered /\ Starting' = Starting /\ Stopping' = Stopping
  BY DEF Answered, Starting, Stopping
<1>5. Phases'
  BY <1>1, <1>3, <1>4 DEF Phases, Quiet, AskedOnce
<1>6. Obeys'
  BY DEF Good, Obeys
<1>7. Running' = Running
  BY DEF Running
<1>8. cmd \in {"STOP", "CANCEL"} => Running
  BY DEF Good, Follows
<1>9. Follows'
  BY <1>3, <1>7, <1>8, FollowsOld DEF Good
<1>10. QED BY <1>5, <1>6, <1>9 DEF Good

LEMMA GoodNoti ==
  ASSUME Types, Types', Good, CoreStep
  PROVE  Good'
<1>1. ASSUME NEW cmd, ReceiveNoti(cmd)
      PROVE  /\ Requested' = Requested /\ Starting' = Starting /\ Stopping' = Stopping
             /\ Running' = Running /\ Obeys' /\ toRecord' = toRecord
  BY <1>1 DEF ReceiveNoti, worker, history, Requested, Starting, Stopping, Running,
              Obeys, Good
<1>2. ASSUME NEW cmd \in Requests, ReceiveNoti(cmd), RECORD_STATE' # "PROCESSING",
             RECORD_STATE' = "RECORDING" => Head(toCore) = Noti("START", TRUE)
      PROVE  Good'
  <2>1. AnsweredOnce
    BY <1>2, Received DEF Good, Phases, Quiet, AskedOnce, OnlyStarting, OnlyStopping
  <2>2. Answered' = {}
    BY <1>2, <2>1, Received DEF AnsweredOnce
  <2>3. Phases'
    BY <1>1, <1>2, <2>1, <2>2 DEF AnsweredOnce, Phases, Quiet
  <2>4. RECORD_STATE' = "RECORDING" => Running
    BY <1>2, Received DEF Good, Follows
  <2>5. \A i \in 1 .. Len(toCore') : \E j \in 1 .. Len(toCore) : toCore[j] = toCore'[i]
    BY <1>2, Received
  <2>6. Follows'
    BY <1>1, <1>2, <2>4, <2>5, FollowsOld DEF Good
  <2>7. QED BY <1>1, <1>2, <2>3, <2>6 DEF Good
<1>3. CASE StartRecordNOTI
  <2>1. Head(toCore) \in Notis /\ Head(toCore).cmd = "START"
    BY <1>3, Received DEF StartRecordNOTI
  <2>2. Head(toCore).ok => Head(toCore) = Noti("START", TRUE)
    BY <2>1 DEF Notis, Noti
  <2>3. QED BY <1>2, <1>3, <2>2 DEF StartRecordNOTI, Requests
<1>4. CASE StopRecordNOTI \/ CancelRecordNOTI
  BY <1>2, <1>4 DEF StopRecordNOTI, CancelRecordNOTI, Requests
<1>5. CASE FilterWavFileNOTI
  <2>1. ReceiveNoti("FILTER") /\ RECORD_STATE' = RECORD_STATE /\ "FILTER" \notin Requests
    BY <1>5 DEF FilterWavFileNOTI, Requests
  <2>2. /\ Answered = {} => Answered' = {}
        /\ Single(Answered) => Single(Answered')
        /\ \A i \in 1 .. Len(toCore') : \E j \in 1 .. Len(toCore) : toCore[j] = toCore'[i]
    BY <2>1, Received
  <2>3. Phases'
    BY <1>1, <2>1, <2>2 DEF Good, Phases, Quiet, AskedOnce, AnsweredOnce, OnlyStarting,
                            OnlyStopping
  <2>4. Follows'
    <3>1. RECORD_STATE' = "RECORDING" => Running
      BY <2>1 DEF Good, Follows
    <3>2. QED BY <1>1, <2>1, <2>2, <3>1, FollowsOld DEF Good
  <2>5. QED BY <1>1, <2>1, <2>3, <2>4 DEF Good
<1>6. QED BY <1>3, <1>4, <1>5 DEF CoreStep

\* The record manager answers the one open request: whatever it was waiting for
\* is over, and the answer is on its way.
LEMMA AnswerSent ==
  ASSUME Types, Good, NEW cmd \in Requests, NEW ok \in BOOLEAN,
         toCore' = Append(toCore, Noti(cmd, ok)),
         RECORD_STATE = "PROCESSING", RECORD_STATE' = RECORD_STATE,
         Answered = {}, Requested' = {}, ~ Starting', ~ Stopping', Obeys',
         cmd = "START" /\ ok => Running'
  PROVE  Good'
<1>1. Noti(cmd, ok) \in Notis /\ Noti(cmd, ok).cmd = cmd
  BY NotiType DEF Noti
<1>2. Single(Answered')
  BY <1>1, Notify
<1>3. Phases'
  BY <1>2 DEF Phases, AnsweredOnce
<1>4. Follows'
  <2>1. \A i \in 1 .. Len(toRecord') : toRecord'[i] \notin {"STOP", "CANCEL"}
    BY DEF Requested, Requests
  <2>2. ASSUME NEW i \in 1 .. Len(toCore'), toCore'[i] = Noti("START", TRUE)
        PROVE  Running'
    <3>1. \A j \in 1 .. Len(toCore) : toCore[j] # Noti("START", TRUE)
      <4>1. Noti("START", TRUE).cmd \in Requests
        BY DEF Noti, Requests
      <4>2. QED BY <4>1 DEF Answered
    <3>2. toCore'[i] = Noti(cmd, ok)
      BY <1>1, <2>2, <3>1, Notify
    <3>3. QED BY <2>2, <3>2 DEF Noti
  <2>3. QED BY <2>1, <2>2 DEF Follows
<1>5. QED BY <1>3, <1>4 DEF Good

\* MainWorker takes the request of the open exchange.
LEMMA TakesRequest ==
  ASSUME Types, Good, NEW event \in Requests, Take(event)
  PROVE  /\ AskedOnce /\ RECORD_STATE = "PROCESSING" /\ Requested' = {}
         /\ RECORD_STATE' = RECORD_STATE
         /\ event \in {"STOP", "CANCEL"} => Running
<1>1. AskedOnce /\ RECORD_STATE = "PROCESSING"
  BY Taken DEF Good, Phases, Quiet, AnsweredOnce, OnlyStarting, OnlyStopping
<1>2. Requested' = {}
  BY <1>1, Taken DEF AskedOnce
<1>3. RECORD_STATE' = RECORD_STATE
  BY DEF Take, core
<1>4. event \in {"STOP", "CANCEL"} => Running
  BY Taken DEF Good, Follows
<1>5. QED BY <1>1, <1>2, <1>3, <1>4

LEMMA GoodStart ==
  ASSUME Types, Good, StartRecording
  PROVE  Good'
<1>1. Take("START") /\ "START" \in Requests
  BY DEF StartRecording, Requests
<1>2. /\ AskedOnce /\ RECORD_STATE = "PROCESSING" /\ Requested' = {}
      /\ RECORD_STATE' = RECORD_STATE
  BY <1>1, TakesRequest
<1>3. Stopping' = Stopping /\ ~ Stopping /\ ~ Starting /\ Answered = {}
  BY <1>2 DEF StartRecording, Stopping, AskedOnce
<1>4. CASE state = "IDLE"
  <2>1. /\ state' = "RECORDING" /\ unserved' = TRUE /\ toCore' = toCore
        /\ UNCHANGED <<place, asked>>
    BY <1>4 DEF StartRecording
  <2>2. Answered' = {} /\ Starting'
    BY <1>3, <2>1 DEF Answered, Starting
  <2>3. Phases'
    BY <1>2, <1>3, <2>2 DEF Phases, OnlyStarting
  <2>4. Follows'
    BY <1>2, <2>2, FollowsNothing
  <2>5. Obeys'
    BY <1>3, <1>4, <2>1 DEF Good, Obeys, Stopping
  <2>6. QED BY <2>3, <2>4, <2>5 DEF Good
<1>5. CASE state # "IDLE"
  <2>1. /\ toCore' = Append(toCore, Noti("START", FALSE))
        /\ UNCHANGED <<state, cancelRequested, unserved, place, asked>>
    BY <1>5 DEF StartRecording
  <2>2. Obeys' /\ ~ Starting'
    BY <1>3, <2>1 DEF Good, Obeys, Starting
  <2>3. QED BY <1>1, <1>2, <1>3, <2>1, <2>2, AnswerSent
<1>6. QED BY <1>4, <1>5

LEMMA GoodStop ==
  ASSUME Types, Good, StopRecording \/ CancelRecording
  PROVE  Good'
<1>1. PICK event \in {"STOP", "CANCEL"} : Take(event)
  BY DEF StopRecording, CancelRecording
<1>2. /\ AskedOnce /\ RECORD_STATE = "PROCESSING" /\ Requested' = {}
      /\ RECORD_STATE' = RECORD_STATE /\ Running
  BY <1>1, TakesRequest DEF Requests
<1>3. /\ asked' \in {"stop", "cancel"} /\ UNCHANGED <<toCore, place, unserved>>
      /\ asked' = "cancel" => cancelRequested'
  BY <1>2 DEF Running, StopRecording, CancelRecording
<1>4. Answered' = {} /\ ~ Starting' /\ Stopping'
  BY <1>2, <1>3 DEF AskedOnce, Answered, Starting, Stopping, Running
<1>5. Phases'
  BY <1>2, <1>4 DEF Phases, OnlyStopping
<1>6. Obeys'
  BY <1>2, <1>3 DEF Obeys, Running
<1>7. Follows'
  BY <1>2, <1>4, FollowsNothing
<1>8. QED BY <1>5, <1>6, <1>7 DEF Good

\* Steps that are no part of the exchange: filter events and filter results.
LEMMA GoodFilter ==
  ASSUME Types, Good, FilterWavFile \/ FilterStep \/ PushFilterEvent
  PROVE  Good'
<1>1. /\ UNCHANGED <<RECORD_STATE, state, cancelRequested, unserved, asked>>
      /\ \/ place' = place
         \/ place = "saved" /\ place' = "cleanup"
  BY DEF FilterWavFile, FilterStep, FilterDone, PushFilterEvent, Take, WorkerStep, core,
         worker, history
<1>2. Starting' = Starting /\ Stopping' = Stopping /\ Running' = Running /\ Obeys'
  BY <1>1 DEF Starting, Stopping, Running, Good, Obeys
<1>3. /\ Requested = {} => Requested' = {}
      /\ Single(Requested) => Single(Requested')
      /\ \A i \in 1 .. Len(toRecord') :
           \/ toRecord'[i] = "FILTER"
           \/ \E j \in 1 .. Len(toRecord) : toRecord[j] = toRecord'[i]
  <2>1. CASE FilterWavFile
    BY <2>1, Taken DEF FilterWavFile, Requests
  <2>2. CASE FilterStep
    BY <2>2 DEF FilterStep, FilterDone, Requested
  <2>3. CASE PushFilterEvent
    BY <2>3, Send DEF PushFilterEvent
  <2>4. QED BY <2>1, <2>2, <2>3
<1>4. /\ Answered' = Answered
      /\ \A i \in 1 .. Len(toCore') :
           \/ toCore'[i] # Noti("START", TRUE)
           \/ \E j \in 1 .. Len(toCore) : toCore[j] = toCore'[i]
  <2>1. CASE FilterWavFile \/ PushFilterEvent
    BY <2>1 DEF FilterWavFile, PushFilterEvent, Answered
  <2>2. CASE FilterStep
    <3>1. PICK ok \in BOOLEAN : toCore' = Append(toCore, Noti("FILTER", ok))
      BY <2>2 DEF FilterStep, FilterDone
    <3>2. /\ Noti("FILTER", ok) \in Notis /\ Noti("FILTER", ok).cmd = "FILTER"
          /\ Noti("FILTER", ok) # Noti("START", TRUE)
      BY NotiType DEF Noti
    <3>3. QED BY <3>1, <3>2, Notify
  <2>3. QED BY <2>1, <2>2
<1>5. Phases'
  BY <1>1, <1>2, <1>3, <1>4 DEF Good, Phases, Quiet, AskedOnce, AnsweredOnce,
                                OnlyStarting, OnlyStopping
<1>6. Follows'
  <2>1. RECORD_STATE' = "RECORDING" => Running
    BY <1>1 DEF Good, Follows
  <2>2. QED BY <1>2, <1>3, <1>4, <2>1, FollowsOld DEF Good
<1>7. QED BY <1>2, <1>5, <1>6 DEF Good

\* The worker moves on without a word.
LEMMA GoodSilent ==
  ASSUME Types, Good, UNCHANGED <<RECORD_STATE, toRecord, toCore>>,
         Starting' = Starting, Stopping' = Stopping, Obeys', Running => Running'
  PROVE  Good'
<1>1. Requested' = Requested /\ Answered' = Answered
  BY DEF Requested, Answered
<1>2. Phases'
  BY <1>1 DEF Good, Phases, Quiet, AskedOnce, AnsweredOnce, OnlyStarting, OnlyStopping
<1>3. Follows'
  BY DEF Good, Follows
<1>4. QED BY <1>2, <1>3 DEF Good

LEMMA GoodWorker ==
  ASSUME Types, Good, RecordWorkerStep, ~ unasked'
  PROVE  Good'
<1> USE DEF WorkerStep, core, channels
<1>1. RECORD_STATE' = RECORD_STATE /\ Obeys
  BY DEF Good, RecordWorkerStep, BeginSession, InitAlsaFails, AbortSession,
         InitAlsaSucceeds, LoopSeesStop, LoopEndsEarly, ReportCaptureError, ReportCancel,
         ReportNotSaved, ReportSaved, PushFilterEvent, FinishSession
<1>2. CASE BeginSession
  <2>1. unserved /\ Starting /\ Starting' /\ Stopping' = Stopping
    BY <1>1, <1>2 DEF BeginSession, Obeys, Starting, Stopping
  <2>2. Obeys' /\ ~ Running
    BY <1>1, <1>2 DEF BeginSession, Obeys, Running
  <2>3. QED BY <1>2, <2>1, <2>2, GoodSilent DEF BeginSession, Starting
<1>3. CASE InitAlsaFails \/ InitAlsaSucceeds
  <2>1. PICK ok \in BOOLEAN :
          /\ toCore' = Append(toCore, Noti("START", ok))
          /\ place' = IF ok THEN "capturing" ELSE "aborting"
    BY <1>3 DEF InitAlsaFails, InitAlsaSucceeds
  <2>2. /\ place = "starting" /\ UNCHANGED <<toRecord, state, cancelRequested, asked, unserved>>
    BY <1>3 DEF InitAlsaFails, InitAlsaSucceeds
  <2>3. Starting /\ ~ Starting' /\ ~ Stopping' /\ Obeys' /\ (ok => Running')
    BY <1>1, <2>1, <2>2 DEF Obeys, Starting, Stopping, Running
  <2>4. OnlyStarting /\ RECORD_STATE = "PROCESSING"
    BY <2>3 DEF Good, Phases, Quiet, AskedOnce, AnsweredOnce, OnlyStopping
  <2>5. Requested' = {} /\ Answered = {}
    BY <2>2, <2>4 DEF OnlyStarting, Requested
  <2>6. "START" \in Requests
    BY DEF Requests
  <2>7. QED BY <1>1, <2>1, <2>3, <2>4, <2>5, <2>6, AnswerSent
<1>4. CASE LoopSeesStop \/ \E why \in EarlyEnds : LoopEndsEarly(why)
  <2>1. /\ place = "capturing" /\ place' = "ended" /\ state = "IDLE"
        /\ UNCHANGED <<toRecord, toCore, state, cancelRequested, asked, unserved>>
    BY <1>4 DEF LoopSeesStop, LoopEndsEarly, Types
  <2>2. asked # "nothing"
    BY <1>1, <2>1 DEF Obeys
  <2>3. Starting' = Starting /\ Stopping' = Stopping /\ Obeys' /\ ~ Running
    BY <1>1, <2>1, <2>2 DEF Starting, Stopping, Obeys, Running
  <2>4. QED BY <1>1, <2>1, <2>3, GoodSilent
<1>5. CASE ReportCaptureError \/ ReportCancel \/ ReportNotSaved \/ ReportSaved
  <2>1. PICK cmd \in {"STOP", "CANCEL"}, ok \in BOOLEAN : toCore' = Append(toCore, Noti(cmd, ok))
    BY <1>5 DEF ReportCaptureError, ReportCancel, ReportNotSaved, ReportSaved
  <2>2. /\ place = "ended" /\ place' \in {"saved", "cleanup"}
        /\ UNCHANGED <<toRecord, state, cancelRequested, asked, unserved>>
    BY <1>5 DEF ReportCaptureError, ReportCancel, ReportNotSaved, ReportSaved
  <2>3. Stopping /\ ~ Stopping' /\ Obeys'
    BY <1>1, <2>2 DEF Obeys, Stopping
  <2>4. OnlyStopping /\ RECORD_STATE = "PROCESSING"
    BY <2>3 DEF Good, Phases, Quiet, AskedOnce, AnsweredOnce, OnlyStarting
  <2>5. Requested' = {} /\ Answered = {} /\ ~ Starting'
    BY <2>2, <2>4 DEF OnlyStopping, Requested, Starting
  <2>6. cmd \in Requests
    BY DEF Requests
  <2>7. QED BY <1>1, <2>1, <2>3, <2>4, <2>5, <2>6, AnswerSent
<1>6. CASE AbortSession \/ FinishSession
  <2>1. /\ place \in {"aborting", "cleanup"} /\ place' = "waiting" /\ state' = "IDLE"
        /\ UNCHANGED <<toRecord, toCore, cancelRequested, asked, unserved>>
    BY <1>6 DEF AbortSession, FinishSession
  <2>2. Starting' = Starting /\ Stopping' = Stopping /\ Obeys' /\ ~ Running
    BY <2>1 DEF Starting, Stopping, Obeys, Running
  <2>3. QED BY <1>1, <2>1, <2>2, GoodSilent
<1>7. QED
  BY <1>2, <1>3, <1>4, <1>5, <1>6, GoodFilter DEF RecordWorkerStep

-----------------------------------------------------------------------------
(* The invariant and what follows from it.                                  *)

\* Calm is never regained, and while it lasts the record manager is up.
LEMMA StaysCalm == Types /\ [Next]_vars /\ Calm' => Calm
<1> SUFFICES ASSUME Types, [Next]_vars, Calm'
             PROVE  Calm
  OBVIOUS
<1> USE DEF core, channels, worker, history, Take, WorkerStep
<1>1. \/ UNCHANGED <<unasked, crashes>>
      \/ \E why \in EarlyEnds : LoopEndsEarly(why)
      \/ Crash
  <2>1. CASE StartRecord
    BY <2>1 DEF StartRecord, Forward
  <2>2. CASE StopRecord
    BY <2>2 DEF StopRecord, Forward
  <2>3. CASE CancelRecord
    BY <2>3 DEF CancelRecord, Forward
  <2>4. CASE CoreStep
    BY <2>4 DEF CoreStep, StartRecordNOTI, StopRecordNOTI, CancelRecordNOTI,
                FilterWavFileNOTI, ReceiveNoti
  <2>5. CASE StartRecording \/ StopRecording
    BY <2>5 DEF StartRecording, StopRecording
  <2>6. CASE CancelRecording \/ FilterWavFile
    BY <2>6 DEF CancelRecording, FilterWavFile
  <2>7. CASE FilterStep
    BY <2>7 DEF FilterStep, FilterDone
  <2>8. CASE BeginSession \/ InitAlsaFails \/ AbortSession \/ InitAlsaSucceeds
    BY <2>8 DEF BeginSession, InitAlsaFails, AbortSession, InitAlsaSucceeds
  <2>9. CASE LoopSeesStop \/ ReportCaptureError \/ ReportCancel \/ ReportNotSaved
    BY <2>9 DEF LoopSeesStop, ReportCaptureError, ReportCancel, ReportNotSaved
  <2>10. CASE ReportSaved \/ PushFilterEvent \/ FinishSession
    BY <2>10 DEF ReportSaved, PushFilterEvent, FinishSession
  <2>11. CASE Restart \/ UNCHANGED vars
    BY <2>11 DEF Restart, vars
  <2>12. QED
    BY <2>1, <2>2, <2>3, <2>4, <2>5, <2>6, <2>7, <2>8, <2>9, <2>10, <2>11, Zenon
       DEF Next, ClientRequest, MainWorkerStep, RecordWorkerStep
<1>2. CASE UNCHANGED <<unasked, crashes>>
  BY <1>2 DEF Calm
<1>3. ASSUME NEW why \in EarlyEnds, LoopEndsEarly(why)
      PROVE  Calm
  <2>1. crashes' = crashes
    BY <1>3 DEF LoopEndsEarly
  <2>2. unasked' = (unasked \/ state = "RECORDING")
    BY <1>3 DEF LoopEndsEarly
  <2>3. QED BY <2>1, <2>2 DEF Calm
<1>4. CASE Crash
  <2>1. crashes' = crashes + 1 /\ crashes \in Nat
    BY <1>4 DEF Crash, Types
  <2>2. crashes' # 0
    BY <2>1, SMT
  <2>3. QED BY <2>2 DEF Calm
<1>5. QED BY <1>1, <1>2, <1>3, <1>4, Zenon

LEMMA ExchangeInit == Init => ExchangeInv
<1> SUFFICES ASSUME Init
             PROVE  up /\ Phases /\ Follows /\ Obeys
  BY DEF ExchangeInv
<1>1. toRecord = <<>> /\ toCore = <<>> /\ RECORD_STATE = "STOPPED" /\ up
  BY DEF Init
<1>2. Requested = {} /\ Answered = {}
  BY <1>1 DEF Requested, Answered
<1>3. ~ Starting /\ ~ Stopping /\ Obeys
  BY DEF Init, Starting, Stopping, Obeys
<1>4. Phases
  BY <1>1, <1>2, <1>3 DEF Phases, Quiet
<1>5. Follows
  BY <1>1 DEF Follows
<1>6. QED BY <1>1, <1>3, <1>4, <1>5

LEMMA ExchangeStep ==
  Types /\ Types' /\ ExchangeInv /\ [Next]_vars => ExchangeInv'
<1> SUFFICES ASSUME Types, Types', ExchangeInv, [Next]_vars, Calm'
             PROVE  up' /\ Good'
  BY DEF ExchangeInv, Good
<1>1. up /\ Good
  BY StaysCalm DEF ExchangeInv, Good
<1>2. CASE ClientRequest
  <2>1. PICK cmd \in Requests, from \in {"STOPPED", "RECORDING"} :
          Forward(cmd, from) /\ (cmd = "START" \/ from = "RECORDING")
    BY <1>2 DEF ClientRequest, StartRecord, StopRecord, CancelRecord, Requests
  <2>2. QED BY <1>1, <2>1, GoodForward DEF Forward
<1>3. CASE CoreStep
  <2>1. up' = up
    BY <1>3 DEF CoreStep, StartRecordNOTI, StopRecordNOTI, CancelRecordNOTI,
                FilterWavFileNOTI, ReceiveNoti
  <2>2. QED BY <1>1, <1>3, <2>1, GoodNoti
<1>4. CASE MainWorkerStep
  <2>1. up' = up
    BY <1>4 DEF MainWorkerStep, StartRecording, StopRecording, CancelRecording,
                FilterWavFile, Take
  <2>2. QED BY <1>1, <1>4, <2>1, GoodStart, GoodStop, GoodFilter DEF MainWorkerStep
<1>5. CASE RecordWorkerStep
  <2>1. up' = up
    BY <1>5 DEF WorkerStep, RecordWorkerStep, BeginSession, InitAlsaFails, AbortSession,
         InitAlsaSucceeds, LoopSeesStop, LoopEndsEarly, ReportCaptureError, ReportCancel,
         ReportNotSaved, ReportSaved, PushFilterEvent, FinishSession
  <2>2. QED BY <1>1, <1>5, <2>1, GoodWorker DEF Calm
<1>6. CASE FilterStep
  <2>1. up' = up
    BY <1>6 DEF FilterStep, FilterDone
  <2>2. QED BY <1>1, <1>6, <2>1, GoodFilter
<1>7. CASE Crash
  <2>1. crashes' = crashes + 1 /\ crashes \in Nat /\ crashes' = 0
    BY <1>7 DEF Crash, Types, Calm
  <2>2. QED BY <2>1, SMT
<1>8. CASE Restart
  BY <1>1, <1>8 DEF Restart
<1>9. CASE UNCHANGED vars
  <2>1. Starting' = Starting /\ Stopping' = Stopping /\ Running' = Running /\ Obeys'
        /\ up' = up /\ UNCHANGED <<RECORD_STATE, toRecord, toCore>>
    BY <1>1, <1>9 DEF vars, core, channels, worker, history, Starting, Stopping, Running,
                      Good, Obeys
  <2>2. QED BY <1>1, <2>1, GoodSilent
<1>10. QED
  BY <1>2, <1>3, <1>4, <1>5, <1>6, <1>7, <1>8, <1>9 DEF Next

\* In each phase the properties' count is what it should be.
LEMMA PhasesCount == Phases => Outstanding = One(RECORD_STATE = "PROCESSING")
<1> SUFFICES ASSUME Phases
             PROVE  Outstanding = One(RECORD_STATE = "PROCESSING")
  OBVIOUS
<1>1. Cardinality({}) = 0 /\ \A i : Cardinality({i}) = 1
  BY FS_EmptySet, FS_Singleton
<1>2. \A X : Single(X) => Cardinality(X) = 1
  BY <1>1 DEF Single
<1>3. One(TRUE) = 1 /\ One(FALSE) = 0
  BY DEF One
<1>4. CASE Quiet
  BY <1>1, <1>4 DEF Phases, Quiet, AskedOnce, AnsweredOnce, OnlyStarting, OnlyStopping,
                    Outstanding, One, Single
<1>5. CASE AskedOnce
  BY <1>1, <1>2, <1>5 DEF Phases, Quiet, AskedOnce, Outstanding, One
<1>6. CASE AnsweredOnce
  BY <1>1, <1>2, <1>6 DEF Phases, Quiet, AnsweredOnce, Outstanding, One
<1>7. CASE OnlyStarting
  BY <1>1, <1>7 DEF Phases, Quiet, OnlyStarting, Outstanding, One
<1>8. CASE OnlyStopping
  BY <1>1, <1>8 DEF Phases, Quiet, OnlyStopping, Outstanding, One
<1>9. QED BY <1>4, <1>5, <1>6, <1>7, <1>8 DEF Phases

LEMMA ExchangeInvariant == Spec => []ExchangeInv
<1>1. Types /\ [Next]_vars => Types'
  BY TypeStep
<1>2. QED BY ExchangeInit, ExchangeStep, TypeInit, <1>1, PTL DEF Spec

\* RECORD_STATE = PROCESSING stands for exactly one unanswered request.
THEOREM OneRequest == Spec => []OneRequestOutstanding
<1>1. ExchangeInv => OneRequestOutstanding
  BY PhasesCount DEF ExchangeInv, OneRequestOutstanding
<1>2. QED BY <1>1, ExchangeInvariant, PTL

\* A recording the user cancelled is not written.
THEOREM Discards == Spec => CancelDiscards
<1>1. ExchangeInv /\ [Next]_vars
        => [Calm /\ place = "ended" /\ place' = "saved" => asked # "cancel"]_vars
  <2> SUFFICES ASSUME ExchangeInv, Next, Calm, place = "ended", place' = "saved"
               PROVE  asked # "cancel"
    OBVIOUS
  <2>1. ReportSaved
    BY DEF Next, ClientRequest, StartRecord, StopRecord, CancelRecord, Forward, CoreStep,
           StartRecordNOTI, StopRecordNOTI, CancelRecordNOTI, FilterWavFileNOTI,
           ReceiveNoti, MainWorkerStep, StartRecording, StopRecording, CancelRecording,
           FilterWavFile, Take, RecordWorkerStep, WorkerStep, BeginSession, InitAlsaFails,
           AbortSession, InitAlsaSucceeds, LoopSeesStop, LoopEndsEarly,
           ReportCaptureError, ReportCancel, ReportNotSaved, PushFilterEvent,
           FinishSession, FilterStep, FilterDone, Crash, Restart, worker, core
  <2>2. ~ cancelRequested
    BY <2>1 DEF ReportSaved
  <2>3. QED BY <2>2 DEF ExchangeInv, Obeys
<1>2. QED BY <1>1, ExchangeInvariant, PTL DEF Spec, CancelDiscards
=============================================================================
